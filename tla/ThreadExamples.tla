--------------------------- MODULE ThreadExamples ---------------------------
(***************************************************************************)
(* week-7/t0.c, t0_cv.c and t1.c: main creates two threads and joins them. *)
(* In t0.c and t0_cv.c each prints a line; in t1.c each prints, adds to a  *)
(* shared counter without a lock, and prints again.                        *)
(*                                                                         *)
(* A volatile int is loaded and stored in two steps.  A printf is one      *)
(* step, since stdio locks its stream.  The loop count is small enough     *)
(* for the counter not to overflow, and pthread calls do not fail.         *)
(***************************************************************************)
EXTENDS Integers, Sequences

CONSTANT Programs    \* [counts, max]: t1.c with its argument, or t0.c, t0_cv.c

ASSUME ProgramAssumption ==
  \A program \in Programs : program.counts \in BOOLEAN /\ program.max \in Nat

VARIABLES
  counts, max,     \* the program
  counter,         \* the shared variable of t1.c
  main,            \* what main does next
  pc, i, reg,      \* per thread: what it does next, its loop, what it loaded
  output           \* the lines printed, by whom

vars == <<counts, max, counter, main, pc, i, reg, output>>
programVars == <<counts, max>>
threadVars == <<counter, pc, i, reg>>

Threads == {"A", "B"}

Init ==
  /\ \E program \in Programs : counts = program.counts /\ max = program.max
  /\ counter = 0
  /\ main = "begin"
  /\ pc = [t \in Threads |-> "none"]
  /\ i = [t \in Threads |-> 0]
  /\ reg = [t \in Threads |-> 0]
  /\ output = <<>>

printf(who) == output' = Append(output, who)

Begin ==
  /\ main = "begin"
  /\ printf("main")
  /\ main' = "create1"
  /\ UNCHANGED <<programVars, threadVars>>

Create(t) ==
  /\ main = (IF t = "A" THEN "create1" ELSE "create2")
  /\ pc' = [pc EXCEPT ![t] = "begin"]
  /\ main' = IF t = "A" THEN "create2" ELSE "join1"
  /\ UNCHANGED <<programVars, counter, i, reg, output>>

\* Mutant of JoinTarget: the second join waits for the first thread again.
JoinTargetFirst == "A"

JoinTarget == IF main = "join1" THEN "A" ELSE "B"

Join ==
  /\ main \in {"join1", "join2"}
  /\ pc[JoinTarget] = "end"
  /\ main' = IF main = "join1" THEN "join2" ELSE "last"
  /\ UNCHANGED <<programVars, threadVars, output>>

\* "main: end", or in t1.c the counter and what it should be.
End ==
  /\ main = "last"
  /\ printf("main")
  /\ main' = "end"
  /\ UNCHANGED <<programVars, threadVars>>

\* The one line of a thread of t0.c and t0_cv.c, the first of one of t1.c.
PrintFirst(t) ==
  /\ pc[t] = "begin"
  /\ printf(t)
  /\ pc' = [pc EXCEPT ![t] = IF counts THEN "load" ELSE "end"]
  /\ UNCHANGED <<programVars, counter, main, i, reg>>

\* Mutant of Loops: the loop runs once too often.
LoopsOnceMore(t) == i[t] <= max

Loops(t) == i[t] < max

\* counter = counter + 1
Load(t) ==
  /\ pc[t] = "load" /\ Loops(t)
  /\ reg' = [reg EXCEPT ![t] = counter]
  /\ pc' = [pc EXCEPT ![t] = "store"]
  /\ UNCHANGED <<programVars, counter, main, i, output>>

Store(t) ==
  /\ pc[t] = "store"
  /\ counter' = reg[t] + 1
  /\ i' = [i EXCEPT ![t] = @ + 1]
  /\ pc' = [pc EXCEPT ![t] = "load"]
  /\ UNCHANGED <<programVars, main, reg, output>>

PrintLast(t) ==
  /\ pc[t] = "load" /\ ~Loops(t)
  /\ printf(t)
  /\ pc' = [pc EXCEPT ![t] = "end"]
  /\ UNCHANGED <<programVars, counter, main, i, reg>>

Thread(t) == PrintFirst(t) \/ Load(t) \/ Store(t) \/ PrintLast(t)

Next == Begin \/ (\E t \in Threads : Create(t) \/ Thread(t)) \/ Join \/ End

Spec == Init /\ [][Next]_vars
-----------------------------------------------------------------------------
\* However the two loops of t1.c interleave, an update may be lost but never
\* invented, and not all of them can be: with two rounds or more each, the
\* counter main prints is at least 2.
CounterBounds ==
  counts /\ main = "end" =>
    /\ counter <= 2 * max
    /\ counter >= (IF max >= 2 THEN 2 ELSE max)

\* The first and the last line are main's, the first and the last line printed;
\* between them come all the lines of both threads.
MainBrackets ==
  main = "end" =>
    /\ Len(output) = IF counts THEN 6 ELSE 4
    /\ \A n \in DOMAIN output : (output[n] = "main") <=> (n \in {1, Len(output)})
=============================================================================
