--------------------------- MODULE Ext2ListProofs ---------------------------
(***************************************************************************)
(* Proofs about the ext2 readers, for every set of consistent disks and    *)
(* whatever a stray read finds.                                            *)
(***************************************************************************)
EXTENDS Ext2List, TLAPS

Dir == DOMAIN disk.block

StateOK ==
  /\ disk \in Disks /\ right \in BOOLEAN /\ pos \in Nat
  /\ block_size \in {0, BlockSize(disk)}
  /\ ctl \in {"open", "super"} => block_size = 0 /\ right
  /\ ctl \notin {"walk", "crashed", "done"} => pos = 0 /\ printed = {}

\* Nothing is read astray with blocks of 1024 bytes.
RightOK ==
  block_size = 1024 =>
    /\ right
    /\ ctl \in {"directory", "walk"} => inode = disk.root

\* At an entry of the block, size is ahead of pos by what the entry is longer
\* than the first one: it can reach the directory's size only behind the block.
WalkOK ==
  block_size = 1024 =>
    /\ pos \in Dir \cup {1024}
    /\ printed = {p \in Dir : p < pos}
    /\ \A p \in Dir : disk.block[p].inode = 0 => pos <= p
    /\ ctl = "walk" /\ pos \in Dir =>
         size = pos + disk.block[pos].rec_len - disk.block[0].rec_len
    /\ ctl = "done" /\ program = "ext2list" /\ pos \in Dir =>
         disk.block[pos].inode = 0

IInv == StateOK /\ RightOK /\ WalkOK

\* What is assumed of a directory's block, for blocks of 1024 bytes.
LEMMA DiskFacts ==
  ASSUME disk \in Disks, BlockSize(disk) = 1024
  PROVE  /\ disk.table \in Nat /\ disk.i_block \in Nat
         /\ disk.root.is_dir /\ disk.root.i_size \in Nat
         /\ disk.root.i_size >= 1024
         /\ Dir \subseteq 0 .. 1023 /\ 0 \in Dir
         /\ \A p \in Dir :
              /\ disk.block[p].inode \in Nat /\ disk.block[p].rec_len \in Nat \ {0}
              /\ p + disk.block[p].rec_len \in Dir \cup {1024}
              /\ \A q \in Dir : p < q => p + disk.block[p].rec_len <= q
<1>1. Directory(disk.block, 1024)
  BY DisksAssumption
<1> QED
  BY <1>1, DisksAssumption DEF Directory, Dir

LEMMA Initially == Init => IInv
<1> SUFFICES ASSUME Init PROVE IInv
  OBVIOUS
<1>1. StateOK
  BY DEF Init, StateOK
<1>2. block_size # 1024
  BY DEF Init
<1> QED
  BY <1>1, <1>2 DEF IInv, RightOK, WalkOK

LEMMA OpenKeeps == ASSUME IInv, Open PROVE IInv'
BY DEF Open, walkVars, IInv, StateOK, RightOK, WalkOK, Dir, BlockSize

LEMMA ReadSuperKeeps == ASSUME IInv, ReadSuper PROVE IInv'
<1>1. /\ right' /\ right = right' /\ pos' = 0 /\ printed' = {} /\ pos = 0
      /\ disk' = disk /\ disk \in Disks /\ block_size' \in {0, BlockSize(disk)}
      /\ ctl' \in {"failed", "done", "group"}
      /\ ctl' = "done" => program' = "ext2super"
  BY DEF ReadSuper, After, walkVars, IInv, StateOK
<1>2. StateOK'
  BY <1>1 DEF StateOK, BlockSize, IInv
<1>3. RightOK'
  BY <1>1 DEF RightOK
<1>4. WalkOK'
  <2> SUFFICES ASSUME block_size' = 1024 PROVE WalkOK'
    BY DEF WalkOK
  <2>1. BlockSize(disk) = 1024
    BY <1>1
  <2> QED
    <3>1. Dir \subseteq 0 .. 1023 /\ 0 \in Dir
      BY <1>1, <2>1, DiskFacts
    <3>2. Dir' = Dir /\ {p \in Dir : p < 0} = {}
      BY <1>1, <3>1 DEF Dir
    <3>3. \A p \in Dir : 0 <= p
      BY <3>1
    <3> QED
      BY <1>1, <3>1, <3>2, <3>3 DEF WalkOK
<1> QED
  BY <1>2, <1>3, <1>4 DEF IInv

\* With blocks of 1024 bytes the programs look for a block where ext2 puts it.
LEMMA BlockOffset ==
  ASSUME NEW block \in Nat, block_size = 1024
  PROVE  BLOCK_OFFSET(block) = Place(block)
BY DEF BLOCK_OFFSET, Place, BASE_OFFSET

LEMMA ReadGroupKeeps == ASSUME IInv, ReadGroup PROVE IInv'
<1>1. block_size = 1024 => right'
  <2> SUFFICES ASSUME block_size = 1024 PROVE right'
    OBVIOUS
  <2>1. BASE_OFFSET + block_size = GroupPlace
    BY DEF GroupPlace, Place, BASE_OFFSET
  <2> QED
    BY <2>1 DEF ReadGroup, IInv, RightOK
<1>2. right' \in BOOLEAN
  BY DEF ReadGroup
<1>3. ctl' \in {"done", "inode"} /\ (ctl' = "done" => program = "ext2group")
  BY DEF ReadGroup, After
<1> QED
  BY <1>1, <1>2, <1>3
  DEF ReadGroup, walkVars, IInv, StateOK, RightOK, WalkOK, Dir, BlockSize

LEMMA ReadInodeKeeps == ASSUME IInv, ReadInode PROVE IInv'
<1>1. block_size = 1024 => right' /\ inode' = disk.root
  <2> SUFFICES ASSUME block_size = 1024 PROVE right' /\ inode' = disk.root
    OBVIOUS
  <2>1. disk.table \in Nat
    BY DiskFacts DEF IInv, StateOK
  <2>2. BLOCK_OFFSET(disk.table) = Place(disk.table)
    BY <2>1, BlockOffset
  <2> QED
    BY <2>2 DEF ReadInode, IInv, RightOK
<1>2. right' \in BOOLEAN
  BY DEF ReadInode
<1>3. ctl' \in {"done", "directory"} /\ (ctl' = "done" => program = "ext2root")
  BY DEF ReadInode, After
<1> QED
  BY <1>1, <1>2, <1>3
  DEF ReadInode, walkVars, IInv, StateOK, RightOK, WalkOK, Dir, BlockSize

LEMMA ReadBlockKeeps == ASSUME IInv, ReadBlock PROVE IInv'
<1>1. block_size = 1024 =>
        right' /\ inode.is_dir /\ inode = disk.root /\ 0 \in Dir /\ Dir \subseteq Nat
        /\ disk.block[0].rec_len \in Nat
  <2> SUFFICES ASSUME block_size = 1024
               PROVE  right' /\ inode.is_dir /\ inode = disk.root /\ 0 \in Dir
                      /\ Dir \subseteq Nat /\ disk.block[0].rec_len \in Nat
    OBVIOUS
  <2>1. /\ disk.i_block \in Nat /\ disk.root.is_dir /\ 0 \in Dir /\ Dir \subseteq Nat
        /\ disk.block[0].rec_len \in Nat
    BY DiskFacts DEF IInv, StateOK
  <2>2. BLOCK_OFFSET(disk.i_block) = Place(disk.i_block)
    BY <2>1, BlockOffset
  <2> QED
    BY <2>1, <2>2 DEF ReadBlock, IInv, RightOK
<1>2. right' \in BOOLEAN /\ ctl' \in {"done", "failed", "walk"}
  BY DEF ReadBlock, IInv, StateOK
<1>3. ctl' = "done" => ~inode.is_dir
  BY DEF ReadBlock
<1>4. ctl' = "walk" => size' = 0
  BY DEF ReadBlock, StartSize
<1>5. StateOK' /\ RightOK'
  BY <1>1, <1>2 DEF ReadBlock, IInv, StateOK, RightOK, BlockSize
<1>6. WalkOK'
  BY <1>1, <1>3, <1>4 DEF ReadBlock, IInv, StateOK, WalkOK, Dir
<1> QED
  BY <1>5, <1>6 DEF IInv

\* What a step that continues the walk does with blocks of 1024 bytes.
LEMMA WalkStep ==
  ASSUME IInv, Walk, block_size = 1024
  PROVE  WalkOK'
<1>1. right /\ inode = disk.root
  BY DEF IInv, RightOK, Walk
<1>2. CASE pos \in Dir
  <2> DEFINE next == pos + disk.block[pos].rec_len
  <2>1. /\ disk.block[pos].inode # 0 /\ pos' = next /\ disk' = disk
        /\ printed' = printed \cup {pos} /\ ctl' = "walk"
    BY <1>1, <1>2 DEF Walk, Headers, InBlock, Continues, Dir
  <2>2. next \in Dir => size' = size + disk.block[next].rec_len
    BY <1>1, <1>2, <2>1 DEF Walk, Headers, InBlock, Continues, Dir
  <2>3. /\ Dir \subseteq 0 .. 1023 /\ 0 \in Dir
        /\ \A p \in Dir :
             /\ disk.block[p].rec_len \in Nat \ {0}
             /\ p + disk.block[p].rec_len \in Dir \cup {1024}
             /\ \A q \in Dir : p < q => p + disk.block[p].rec_len <= q
    BY DiskFacts DEF IInv, StateOK
  <2>4. next \in Dir \cup {1024} /\ \A q \in Dir : q < next <=> (q < pos \/ q = pos)
    <3>1. /\ disk.block[pos].rec_len \in Nat \ {0} /\ pos \in Nat
          /\ next \in Dir \cup {1024}
          /\ \A q \in Dir : pos < q => next <= q
      BY <1>2, <2>3
    <3>2. next > pos /\ next \in Nat
      BY <3>1
    <3>3. \A q \in Dir : q \in Nat
      BY <2>3
    <3> HIDE DEF next
    <3> QED
      BY <3>1, <3>2, <3>3
  <2>5. \A p \in Dir : disk.block[p].inode = 0 => next <= p
    <3> SUFFICES ASSUME NEW p \in Dir, disk.block[p].inode = 0 PROVE next <= p
      OBVIOUS
    <3>1. pos <= p /\ pos # p
      BY <2>1 DEF IInv, WalkOK
    <3>2. pos \in Nat /\ p \in Nat
      BY <1>2, <2>3
    <3>3. pos < p
      BY <3>1, <3>2
    <3> QED
      BY <1>2, <2>3, <3>3
  <2>6. printed' = {p \in Dir : p < next}
    BY <1>2, <2>1, <2>4 DEF IInv, WalkOK
  <2>7. next \in Dir => size' = next + disk.block[next].rec_len - disk.block[0].rec_len
    BY <1>2, <2>2, <2>3 DEF IInv, WalkOK, Walk
  <2> HIDE DEF next
  <2> QED
    BY <2>1, <2>4, <2>5, <2>6, <2>7 DEF WalkOK, Dir, Walk
<1>3. CASE pos \notin Dir
  <2>1. pos' = pos /\ printed' = printed /\ disk' = disk /\ ctl' = "walk"
    BY <1>3 DEF Walk, InBlock, Dir
  <2> QED
    BY <1>3, <2>1 DEF IInv, WalkOK, Dir, Walk
<1> QED
  BY <1>2, <1>3

LEMMA WalkKeeps == ASSUME IInv, Walk PROVE IInv'
<1>1. StateOK'
  <2>1. pos' \in Nat
    <3>1. CASE InBlock(pos)
      <4>1. pos' = pos + disk.block[pos].rec_len
        BY <3>1 DEF Walk, Headers
      <4>2. disk.block[pos].rec_len \in Nat
        BY <3>1, DisksAssumption DEF InBlock, Directory, IInv, StateOK
      <4> QED
        BY <4>1, <4>2 DEF IInv, StateOK
    <3>2. CASE ~InBlock(pos)
      BY <3>2 DEF Walk, IInv, StateOK
    <3> QED
      BY <3>1, <3>2
  <2> QED
    BY <2>1 DEF Walk, IInv, StateOK, BlockSize
<1>2. RightOK'
  BY DEF Walk, IInv, RightOK
<1>3. block_size' = block_size
  BY DEF Walk
<1> QED
  BY <1>1, <1>2, <1>3, WalkStep DEF IInv, WalkOK

LEMMA CrashKeeps == ASSUME IInv, Crash PROVE IInv'
BY DEF Crash, walkVars, IInv, StateOK, RightOK, WalkOK, Dir, BlockSize

LEMMA FinishKeeps == ASSUME IInv, Finish PROVE IInv'
<1>1. block_size = 1024 /\ pos \in Dir => disk.block[pos].inode = 0
  <2> SUFFICES ASSUME block_size = 1024, pos \in Dir, disk.block[pos].inode # 0
               PROVE  FALSE
    OBVIOUS
  <2>1. /\ right /\ inode = disk.root
        /\ size = pos + disk.block[pos].rec_len - disk.block[0].rec_len
    BY DEF IInv, RightOK, WalkOK, Finish
  <2>2. ~(size < inode.i_size)
    BY <2>1 DEF Finish, Headers, InBlock, Continues, Dir
  <2>3. /\ disk.root.i_size \in Nat /\ disk.root.i_size >= 1024
        /\ disk.block[0].rec_len \in Nat \ {0} /\ disk.block[pos].rec_len \in Nat
        /\ pos \in 0 .. 1023 /\ pos + disk.block[pos].rec_len <= 1024
    <3>1. /\ Dir \subseteq 0 .. 1023 /\ 0 \in Dir
          /\ disk.root.i_size \in Nat /\ disk.root.i_size >= 1024
          /\ \A p \in Dir : /\ disk.block[p].rec_len \in Nat \ {0}
                            /\ p + disk.block[p].rec_len \in Dir \cup {1024}
      <4>1. disk \in Disks /\ BlockSize(disk) = 1024
        BY DEF IInv, StateOK
      <4> QED
        BY <4>1, DiskFacts
    <3>2. /\ pos + disk.block[pos].rec_len \in Dir \cup {1024} /\ pos \in 0 .. 1023
          /\ disk.block[pos].rec_len \in Nat \ {0}
          /\ disk.block[0].rec_len \in Nat \ {0}
      BY <3>1
    <3>3. \A n \in Dir \cup {1024} : n <= 1024
      <4>1. Dir \subseteq 0 .. 1023
        BY <3>1
      <4>2. ASSUME NEW n \in Dir PROVE n <= 1024
        <5>1. n \in 0 .. 1023
          BY <4>1
        <5> QED
          BY <5>1
      <4> QED
        BY <4>2
    <3> QED
      BY <3>1, <3>2, <3>3
  <2> QED
    BY <2>1, <2>2, <2>3
<1>2. StateOK' /\ RightOK'
  BY DEF Finish, walkVars, IInv, StateOK, RightOK, BlockSize
<1>3. WalkOK'
  BY <1>1 DEF Finish, walkVars, IInv, WalkOK, Dir
<1> QED
  BY <1>2, <1>3 DEF IInv

\* The inductive invariant of the four programs.
THEOREM Invariance == Spec => []IInv
<1>1. Init => IInv
  BY Initially
<1>2. IInv /\ [Next]_vars => IInv'
  <2> SUFFICES ASSUME IInv, [Next]_vars PROVE IInv'
    OBVIOUS
  <2>1. CASE Next
    BY <2>1, OpenKeeps, ReadSuperKeeps, ReadGroupKeeps, ReadInodeKeeps,
       ReadBlockKeeps, WalkKeeps, CrashKeeps, FinishKeeps DEF Next
  <2>2. CASE UNCHANGED vars
    BY <2>2 DEF vars, walkVars, IInv, StateOK, RightOK, WalkOK, Dir, BlockSize
  <2> QED
    BY <2>1, <2>2
<1> QED
  BY <1>1, <1>2, PTL DEF Spec

\* On every consistent disk with blocks of 1024 bytes the readers find what they
\* look for, and ext2list.c prints the entries in front of the one it is at and
\* stops neither before nor after the end of the list, if that is a NULL entry.
THEOREM Lists == Spec => []ListsDirectory
<1>1. IInv => ListsDirectory
  BY DEF IInv, RightOK, WalkOK, ListsDirectory, Dir
<1> QED
  BY <1>1, Invariance, PTL

\* The readers look for a block where ext2 puts it with blocks of 1024 bytes only.
THEOREM OnlyFloppyBlocks ==
  ASSUME NEW block \in Nat, block_size \in Nat
  PROVE  BLOCK_OFFSET(block) = Place(block) <=> block_size = 1024
<1>1. (block - 1) * block_size = block * block_size - block_size
  OBVIOUS
<1>2. block * block_size \in Nat
  OBVIOUS
<1> HIDE DEF Place
<1>3. BLOCK_OFFSET(block) = 1024 + (block * block_size - block_size)
  BY <1>1 DEF BLOCK_OFFSET, BASE_OFFSET
<1> DEFINE offset == block * block_size
<1>4. offset \in Nat
  BY <1>2
<1>5. BLOCK_OFFSET(block) = 1024 + (offset - block_size) /\ Place(block) = offset
  BY <1>3 DEF Place
<1> HIDE DEF offset
<1> QED
  BY <1>4, <1>5
=============================================================================
