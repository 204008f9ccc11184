-------------------------- MODULE MCThreadExamples --------------------------
(***************************************************************************)
(* t0.c (and t0_cv.c), and t1.c with loop counts 0 to 4.                   *)
(***************************************************************************)
EXTENDS ThreadExamples

AllPrograms ==
  {[counts |-> FALSE, max |-> 0]} \cup [counts : {TRUE}, max : 0 .. 4]
=============================================================================
