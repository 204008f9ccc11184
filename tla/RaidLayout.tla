------------------------------ MODULE RaidLayout ------------------------------
(***************************************************************************)
(* Where lecture-15/raid.py puts the blocks of an array: the maps bmap     *)
(* (data blocks) and pmap (parity disks) of its RAID levels.               *)
(*                                                                         *)
(* g describes the array: a record [numDisks, chunkSize, raidLevel,        *)
(* raid5type], the chunk size in blocks.  A place is a record [disk, off]. *)
(* Block numbers are not negative, so int(a / b) of the code is \div.      *)
(***************************************************************************)
EXTENDS Integers

\* The arrays the program accepts; chunks and the array are not empty.
Arrays ==
  {g \in [numDisks : Nat \ {0}, chunkSize : Nat \ {0}, raidLevel : {0, 1, 4, 5},
          raid5type : {"LA", "LS"}] :
     /\ g.raidLevel # 0 => g.numDisks >= 2
     /\ g.raidLevel = 1 => g.numDisks % 2 = 0}

\* Several of the maps place a block of chunk cnum of a disk at this offset.
Offset(g, cnum, bnum) == cnum * g.chunkSize + (bnum % g.chunkSize)

bmap0(g, bnum) ==
  LET cnum == bnum \div g.chunkSize
  IN [disk |-> cnum % g.numDisks, off |-> Offset(g, cnum \div g.numDisks, bnum)]

\* The first of the two copies; the second is on the next disk.
bmap1(g, bnum) ==
  LET cnum == bnum \div g.chunkSize
      pairs == g.numDisks \div 2
  IN [disk |-> 2 * (cnum % pairs), off |-> Offset(g, cnum \div pairs, bnum)]

Copy(place) == [place EXCEPT !.disk = @ + 1]

blocksInStripe(g) == (g.numDisks - 1) * g.chunkSize

bmap4(g, bnum) ==
  LET cnum == bnum \div g.chunkSize
  IN [disk |-> cnum % (g.numDisks - 1), off |-> Offset(g, cnum \div (g.numDisks - 1), bnum)]

\* Mutant of Raid5Pdisk: counted from the number of disks.
Raid5PdiskOff(g, ddsk) == g.numDisks - (ddsk % g.numDisks)

\* pdisk of __bmap5 in row ddsk of chunks.
Raid5Pdisk(g, ddsk) == (g.numDisks - 1) - (ddsk % g.numDisks)

\* Left-symmetric: the data disks of a row begin behind the parity disk.
LeftSymmetric(g, disk, ddsk) == (disk - (ddsk % g.numDisks)) % g.numDisks

\* Left-asymmetric: the data disks of a row leave out the parity disk.
LeftAsymmetric(g, disk, ddsk) == IF disk >= Raid5Pdisk(g, ddsk) THEN disk + 1 ELSE disk

bmap5(g, bnum) ==
  LET cnum == bnum \div g.chunkSize
      ddsk == cnum \div (g.numDisks - 1)
      disk == cnum % (g.numDisks - 1)
  IN [disk |-> IF g.raid5type = "LA" THEN LeftAsymmetric(g, disk, ddsk)
                                     ELSE LeftSymmetric(g, disk, ddsk),
      off  |-> Offset(g, ddsk, bnum)]

bmap(g, bnum) == CASE g.raidLevel = 0 -> bmap0(g, bnum)
                   [] g.raidLevel = 1 -> bmap1(g, bnum)
                   [] g.raidLevel = 4 -> bmap4(g, bnum)
                   [] g.raidLevel = 5 -> bmap5(g, bnum)

\* pmap4 and pmap5: the parity disk of stripe snum.
pmap(g, snum) ==
  IF g.raidLevel = 4 THEN g.numDisks - 1
  ELSE Raid5Pdisk(g, ((snum * blocksInStripe(g)) \div g.chunkSize) \div (g.numDisks - 1))
=============================================================================
