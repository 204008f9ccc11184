----------------------------- MODULE MCMapReduce ----------------------------
(***************************************************************************)
(* Jobs for TLC.                                                           *)
(***************************************************************************)
EXTENDS MapReduce, SequencesExt

Words == [key : {1, 2}, value : {1, 2}]

\* One file of up to three pairs of two keys and two values, in every order; two
\* files, the first or second of which may be empty; five pairs of three keys,
\* for which the list of one slot grows three times; and no file at all.
AllJobs ==
  [files : {<<f>> : f \in BoundedSeq(Words, 3)}
             \cup {<<f, g>> : f \in BoundedSeq(Words, 1), g \in BoundedSeq(Words, 2)}
             \cup {<<[n \in 1 .. 5 |-> [key |-> n % 3, value |-> 1]]>>, <<>>},
   reducer : Reducers]
=============================================================================
