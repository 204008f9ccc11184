------------------------- MODULE MCRequestGenerator -------------------------
(***************************************************************************)
(* Command lines of raid-graphics.py without -a for TLC.                   *)
(***************************************************************************)
EXTENDS RequestGenerator

Desc(m, n, max, min) == [mapping |-> m, num |-> n, max |-> max, min |-> min]

Levels == {0, 1, 4, 5}

\* The whole array; more than a turn around the disks; a minimum that leaves out
\* whole turns; a maximum beyond the array; fewer blocks than disks, with enough
\* of them and not; and a minimum that is not below the maximum.
AllDescs ==
       {Desc(m, 2, -1, 0) : m \in Levels} \cup {Desc(m, 1, -1, 37) : m \in Levels}
  \cup {Desc(m, n, max, min) : m \in Levels, n \in {0, 3, 5}, max \in 1 .. 6, min \in {0, 2, 5}}
  \cup {Desc(m, 1, 81, 30) : m \in Levels}

\* -m 0 -A 2,8,4
FromFour == {Desc(0, 2, 8, 4)}
=============================================================================
