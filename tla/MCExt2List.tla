----------------------------- MODULE MCExt2List -----------------------------
(***************************************************************************)
(* Directories of up to four entries, in a block or two of 1024 bytes, and *)
(* one with blocks of 2048 bytes; a disk that is not ext2.                 *)
(***************************************************************************)
EXTENDS Ext2List, FiniteSetsExt

AllPrograms == {"ext2super", "ext2group", "ext2root", "ext2list"}

\* The entries that start at these offsets of a block, null being a NULL entry.
BlockOf(starts, null, bs) ==
  [p \in starts |->
     [inode |-> IF p = null THEN 0 ELSE 11,
      rec_len |-> Min({q \in starts \cup {bs} : q > p}) - p]]

DiskOf(starts, null, log, blocks) ==
  LET bs == 1024 * 2^log IN
  [ext2 |-> TRUE, log_block_size |-> log, table |-> 5, i_block |-> 28,
   root |-> [is_dir |-> TRUE, i_size |-> blocks * bs],
   block |-> BlockOf(starts, null, bs)]

Starts == {starts \in SUBSET {0, 12, 24, 44} : {0, 12} \subseteq starts}
Floppies ==
  UNION {{DiskOf(starts, null, 0, blocks) : null \in starts \cup {-1},
                                            blocks \in {1, 2}} : starts \in Starts}
AllDisks ==
  Floppies \cup {DiskOf({0, 12}, -1, 1, 1)}
    \cup {[DiskOf({0, 12}, -1, 0, 1) EXCEPT !.ext2 = FALSE]}

SomeInodes == [is_dir : BOOLEAN, i_size : {0, 1024}]
SomeHeaders == [inode : {0, 7}, rec_len : {0, 512}]
=============================================================================
