--------------------------- MODULE MCRaidExercise ---------------------------
(***************************************************************************)
(* Command lines of raid.py for TLC.                                       *)
(***************************************************************************)
EXTENDS RaidExercise

Array(n, c, level, type) ==
  [numDisks |-> n, chunkSize |-> c, raidLevel |-> level, raid5type |-> type]

Random(g0, n, where) ==
  [g |-> g0, size |-> n, sequential |-> FALSE, starts |-> where]

Sequential(g0, n) == [g |-> g0, size |-> n, sequential |-> TRUE, starts |-> {}]

\* The arrays with parity: two to four disks, chunks of one to three blocks.
ParityArrays ==
  {Array(n, c, 4, "LS") : n \in 2 .. 4, c \in 1 .. 2}
  \cup {Array(n, c, 5, type) : n \in 2 .. 4, c \in 1 .. 2, type \in {"LA", "LS"}}
  \cup {Array(3, 3, 4, "LS"), Array(3, 3, 5, "LS")}

PlainArrays ==
  {Array(n, c, 0, "LS") : n \in {1, 3}, c \in 1 .. 2}
  \cup {Array(n, c, 1, "LS") : n \in {2, 4}, c \in 1 .. 2}

\* Requests of every size from nothing to more than a stripe and a half, at
\* every place of a stripe, at places a track and more apart, and at the end of
\* the disk; and sequential ones.
Exercises ==
  {Random(g0, n, 0 .. 7) : g0 \in ParityArrays, n \in {0, 1, 2, 3, 4, 7, 9}}
  \cup {Random(g0, n, {0, 1, 5, 6, 150, 260, 900}) : g0 \in PlainArrays, n \in {1, 4}}
  \cup {Random(Array(2, 1, level, "LA"), 2, {0, 3, 99, 101, 250, 9999}) : level \in {1, 4, 5}}
  \cup {Sequential(g0, n) : g0 \in ParityArrays \cup PlainArrays, n \in {1, 5}}

\* -D 2 -S 8k -L 4 with the default range of blocks (here its last one).
LastBlock == {Random(Array(2, 1, 4, "LS"), 2, {0, 9999})}
=============================================================================
