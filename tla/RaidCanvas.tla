------------------------------ MODULE RaidCanvas ------------------------------
(***************************************************************************)
(* The array Raid.__init__ of lecture-15/raid-graphics.py draws before it  *)
(* makes the requests: how many blocks each RAID level has and on which    *)
(* disk and row each has its rectangle.  The code computes this apart from *)
(* the physical addresses of the requests (RaidMapping); the animation     *)
(* looks up rectangles and rows by both.                                   *)
(***************************************************************************)
EXTENDS RaidMapping

\* block_count of striping, mirroring, RAID-4 and RAID-5, and block_count_full,
\* which counts the parity blocks too.
StripedBlocks == 80
MirroredBlocks == 40
ParityBlocks == 60
RotatedBlocks == 60
AllBlocks == 80

\* Mutant of BlockCount: RAID-4 counts the parity blocks.
BlockCountFull(m) ==
  CASE m = 0 -> StripedBlocks
    [] m = 1 -> MirroredBlocks
    [] m = 4 -> AllBlocks
    [] m = 5 -> RotatedBlocks

BlockCount(m) ==
  CASE m = 0 -> StripedBlocks
    [] m = 1 -> MirroredBlocks
    [] m = 4 -> ParityBlocks
    [] m = 5 -> RotatedBlocks

\* The <<disk, row>> of each rectangle drawn for a block.
StripedPlaces(i) == {<<i % disk_count, i \div disk_count>>}

MirroredPlaces(i) ==
  LET INDEX == i % (disk_count \div 2)
  IN {<<disk, i \div (disk_count \div 2)>> : disk \in {2 * INDEX, 2 * INDEX + 1}}

ParityPlaces(i) == {<<i % (disk_count - 1), i \div (disk_count - 1)>>}

RotatedPlaces(i) ==
  LET disk == i % (disk_count - 1)
      row == i \div (disk_count - 1)
  IN CASE row % 4 = 0 -> {<<disk, row>>}
       [] row % 4 = 1 -> {<<IF disk >= 2 THEN disk + 1 ELSE disk, row>>}
       [] row % 4 = 2 -> {<<IF disk >= 1 THEN disk + 1 ELSE disk, row>>}
       [] row % 4 = 3 -> {<<disk + 1, row>>}

Places(m, i) ==
  CASE m = 0 -> StripedPlaces(i)
    [] m = 1 -> MirroredPlaces(i)
    [] m = 4 -> ParityPlaces(i)
    [] m = 5 -> RotatedPlaces(i)

\* The parity rectangles: one in each row.
ParityRows == 0 .. AllBlocks \div disk_count - 1

RotatedParity(row) ==
  CASE row % 4 = 0 -> 3 [] row % 4 = 1 -> 2 [] row % 4 = 2 -> 1 [] row % 4 = 3 -> 0

ParityPlace(m, row) == IF m = 4 THEN <<3, row>> ELSE <<RotatedParity(row), row>>

\* Block a is drawn where a request for it goes: on the row and the disks of
\* the request, the parity disk's rectangle being the parity of that row.
DrawnAsServed(m, a) ==
  LET row == PhysOffset(m, a)
      disks == PhysDisks(m, a)
  IN /\ a \in 0 .. BlockCount(m) - 1
     /\ IF m \in {4, 5}
          THEN /\ row \in ParityRows
               /\ Places(m, a) = {<<disks[1], row>>}
               /\ ParityPlace(m, row) = <<disks[2], row>>
          ELSE Places(m, a) = {<<disks[k], row>> : k \in DOMAIN disks}
=============================================================================
