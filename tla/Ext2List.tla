------------------------------ MODULE Ext2List ------------------------------
(***************************************************************************)
(* week-10: ext2super.c, ext2group.c, ext2root.c and ext2list.c.  Each     *)
(* reads a floppy disk one structure further than the one before: the      *)
(* super block, the group descriptor, the root directory's inode, and the  *)
(* directory's first block, whose entries ext2list.c prints.               *)
(*                                                                         *)
(* A read that looks where the disk has something else, and memory outside *)
(* the directory's block, hold anything: right says whether what was read  *)
(* so far is what was looked for.  The disks are consistent, so reads      *)
(* return all they are asked for, and a floppy's offsets, in bytes, are    *)
(* far below 2^32.                                                         *)
(***************************************************************************)
EXTENDS Integers

CONSTANTS
  Programs,         \* which of the four programs run
  Disks,            \* [ext2, log_block_size, table, i_block, root, block]
  GarbageInodes,    \* [is_dir, i_size], what a stray read may take for an inode
  GarbageHeaders    \* [inode, rec_len], and what it may take for an entry

BASE_OFFSET == 1024

BlockSize(disk) == 1024 * 2^disk.log_block_size

\* The entries of a block follow each other without a gap up to its end.
Directory(block, bs) ==
  /\ DOMAIN block \subseteq 0 .. bs - 1 /\ 0 \in DOMAIN block
  /\ \A p \in DOMAIN block :
       LET next == p + block[p].rec_len IN
       /\ block[p].inode \in Nat /\ block[p].rec_len \in Nat \ {0}
       /\ next \in DOMAIN block \cup {bs}
       /\ \A q \in DOMAIN block : p < q => next <= q

\* Directories take up whole blocks.
ASSUME DisksAssumption ==
  \A disk \in Disks :
    /\ disk.ext2 \in BOOLEAN /\ disk.log_block_size \in Nat
    /\ disk.table \in Nat \ {0} /\ disk.i_block \in Nat \ {0}
    /\ disk.root.is_dir /\ disk.root.i_size \in Nat
    /\ disk.root.i_size >= BlockSize(disk)
    /\ Directory(disk.block, BlockSize(disk))

VARIABLES
  program, disk,    \* the program, and what is in the drive
  ctl,              \* the next step of the program
  block_size,
  right,            \* whether what was read is what the program takes it for
  inode,            \* the inode read
  pos, size,        \* the entry, as an offset into the block, and the bytes read
  printed           \* the entries printed

vars == <<program, disk, ctl, block_size, right, inode, pos, size, printed>>
walkVars == <<pos, size, printed>>

NoInode == [is_dir |-> FALSE, i_size |-> 0]

Init ==
  /\ program \in Programs /\ disk \in Disks
  /\ ctl = "open" /\ block_size = 0 /\ right = TRUE /\ inode = NoInode
  /\ pos = 0 /\ size = 0 /\ printed = {}

\* Where ext2 puts a block, and the group descriptors: in the block after that
\* of the super block, which shares block 0 with the boot block if it has room.
Place(block) == block * block_size
GroupPlace == Place(IF block_size = 1024 THEN 2 ELSE 1)

\* Where the programs look for a block.
BLOCK_OFFSET(block) == BASE_OFFSET + (block - 1) * block_size

Open ==
  /\ ctl = "open"
  /\ ctl' \in {"super", "failed"}
  /\ UNCHANGED <<program, disk, block_size, right, inode, walkVars>>

\* Continue, unless the program has what it prints.
After(last, next) == ctl' = IF program = last THEN "done" ELSE next

ReadSuper ==
  /\ ctl = "super"
  /\ IF disk.ext2
     THEN /\ block_size' = BlockSize(disk)
          /\ After("ext2super", "group")
     ELSE ctl' = "failed" /\ UNCHANGED block_size
  /\ UNCHANGED <<program, disk, right, inode, walkVars>>

ReadGroup ==
  /\ ctl = "group"
  /\ right' = (right /\ BASE_OFFSET + block_size = GroupPlace)
  /\ After("ext2group", "inode")
  /\ UNCHANGED <<program, disk, block_size, inode, walkVars>>

\* Inode 2 is at the same place of the table in all versions of ext2.
ReadInode ==
  /\ ctl = "inode"
  /\ right' = (right /\ BLOCK_OFFSET(disk.table) = Place(disk.table))
  /\ inode' \in IF right' THEN {disk.root} ELSE GarbageInodes
  /\ After("ext2root", "directory")
  /\ UNCHANGED <<program, disk, block_size, walkVars>>

\* Mutant of StartSize: the first entry is counted before it is printed.
StartSizeFirst == disk.block[0].rec_len

StartSize == 0

\* There may be no memory for the block.
ReadBlock ==
  /\ ctl = "directory"
  /\ IF ~inode.is_dir
     THEN ctl' = "done" /\ UNCHANGED <<right, size>>
     ELSE \/ ctl' = "failed" /\ UNCHANGED <<right, size>>
          \/ /\ right' = (right /\ BLOCK_OFFSET(disk.i_block) = Place(disk.i_block))
             /\ size' = StartSize
             /\ ctl' = "walk"
  /\ UNCHANGED <<program, disk, block_size, inode, pos, printed>>

InBlock(p) == right /\ p \in DOMAIN disk.block

Headers(p) == IF InBlock(p) THEN {disk.block[p]} ELSE GarbageHeaders

Continues(entry) == size < inode.i_size /\ entry.inode # 0

\* The entry is left before its length is added: what is added is the length
\* of the next one, or of whatever is found behind the last.  Outside the block
\* it no longer matters where the walk is, and what it prints is no entry.
Walk ==
  /\ ctl = "walk"
  /\ \E entry \in Headers(pos) :
       /\ Continues(entry)
       /\ pos' = IF InBlock(pos) THEN pos + entry.rec_len ELSE pos
       /\ \E next \in Headers(pos') : size' = size + next.rec_len
  /\ printed' = IF InBlock(pos) THEN printed \cup {pos} ELSE printed
  /\ UNCHANGED <<program, disk, ctl, block_size, right, inode>>

\* A read outside the block may also end the program.
Crash ==
  /\ ctl = "walk"
  /\ \E entry \in Headers(pos) :
       ~InBlock(pos) \/ (Continues(entry) /\ ~InBlock(pos + entry.rec_len))
  /\ ctl' = "crashed"
  /\ UNCHANGED <<program, disk, block_size, right, inode, walkVars>>

Finish ==
  /\ ctl = "walk"
  /\ \E entry \in Headers(pos) : ~Continues(entry)
  /\ ctl' = "done"
  /\ UNCHANGED <<program, disk, block_size, right, inode, walkVars>>

Next ==
  \/ Open \/ ReadSuper \/ ReadGroup \/ ReadInode \/ ReadBlock
  \/ Walk \/ Crash \/ Finish

Spec == Init /\ [][Next]_vars
-----------------------------------------------------------------------------
\* On a disk with blocks of 1024 bytes all structures are found where ext2 puts
\* them.  Although size is ahead of the entry, the walk skips no entry and does
\* not stop before a NULL entry or the end of the block, and it does not leave
\* a block that has a NULL entry.
ListsDirectory ==
  block_size = 1024 =>
    /\ right
    /\ printed = {p \in DOMAIN disk.block : p < pos}
    /\ ctl = "done" /\ program = "ext2list" /\ pos \in DOMAIN disk.block =>
         disk.block[pos].inode = 0
    /\ \A p \in DOMAIN disk.block : disk.block[p].inode = 0 => pos <= p
=============================================================================
