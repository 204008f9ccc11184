------------------------ MODULE ThreadExamplesProofs ------------------------
(***************************************************************************)
(* Proofs about the thread examples, for every loop count.                 *)
(***************************************************************************)
EXTENDS ThreadExamples, TLAPS

TypeInv ==
  /\ counts \in BOOLEAN /\ max \in Nat /\ counter \in Nat
  /\ main \in {"begin", "create1", "create2", "join1", "join2", "last", "end"}
  /\ pc \in [Threads -> {"none", "begin", "load", "store", "end"}]
  /\ i \in [Threads -> Nat] /\ reg \in [Threads -> Nat]
  /\ output \in Seq({"main"} \cup Threads)

\* Where main and each thread are in their code.
PlaceOK ==
  /\ main \in {"begin", "create1"} => pc["A"] = "none"
  /\ main \in {"begin", "create1", "create2"} => pc["B"] = "none"
  /\ main \in {"join2", "last", "end"} => pc["A"] = "end"
  /\ main \in {"last", "end"} => pc["B"] = "end"
  /\ \A t \in Threads :
       /\ i[t] <= max
       /\ pc[t] = "store" => i[t] < max
       /\ counts /\ pc[t] = "end" => i[t] = max
       /\ pc[t] \in {"load", "store"} => counts

\* A thread's second store adds to a value in which its own first is counted:
\* the last store of all is one of these, unless each thread makes only one.
CountOK ==
  /\ counter <= i["A"] + i["B"]
  /\ \A t \in Threads : i[t] > 0 => counter >= 1
  /\ \A t \in Threads : pc[t] = "store" =>
       /\ reg[t] <= i["A"] + i["B"]
       /\ i[t] > 0 => reg[t] >= 1
  /\ max >= 2 /\ (\A t \in Threads : i[t] = max) => counter >= 2

\* How many lines main, and each thread, has printed.
MainLines == IF main = "begin" THEN 0 ELSE IF main = "end" THEN 2 ELSE 1
Lines(t) ==
  CASE pc[t] \in {"none", "begin"} -> 0
    [] pc[t] \in {"load", "store"} -> 1
    [] OTHER -> IF counts THEN 2 ELSE 1

OutputOK ==
  /\ Len(output) = MainLines + Lines("A") + Lines("B")
  /\ \A n \in DOMAIN output :
       (output[n] = "main") <=> (n = 1 \/ (main = "end" /\ n = Len(output)))

IInv == TypeInv /\ PlaceOK /\ CountOK /\ OutputOK

LEMMA Initially == Init => IInv
<1> SUFFICES ASSUME Init PROVE IInv
  OBVIOUS
<1>1. counts \in BOOLEAN /\ max \in Nat
  BY ProgramAssumption DEF Init
<1> QED
  BY <1>1, SMT
  DEF Init, IInv, TypeInv, PlaceOK, CountOK, OutputOK, MainLines, Lines, Threads

\* Printing by a thread leaves main's lines where they are.
LEMMA PrintByThread ==
  ASSUME IInv, NEW t \in Threads, printf(t), main \notin {"begin", "end"},
         main' = main
  PROVE  /\ output' \in Seq({"main"} \cup Threads)
         /\ Len(output') = Len(output) + 1
         /\ \A n \in DOMAIN output' :
              (output'[n] = "main") <=> (n = 1 \/ (main' = "end" /\ n = Len(output')))
<1>1. /\ output \in Seq({"main"} \cup Threads) /\ t \in {"main"} \cup Threads
      /\ t # "main"
  BY DEF IInv, TypeInv, Threads
<1>2. Len(output) >= 1 /\ Len(output) \in Nat
  <2>1. Len(output) = MainLines + Lines("A") + Lines("B") /\ MainLines = 1
    BY DEF IInv, OutputOK, MainLines
  <2>2. Lines("A") \in Nat /\ Lines("B") \in Nat
    BY DEF Lines
  <2> QED
    BY <2>1, <2>2
<1> QED
  BY <1>1, <1>2 DEF printf, IInv, OutputOK

LEMMA BeginKeeps == ASSUME IInv, Begin PROVE IInv'
<1>1. output = <<>>
  BY DEF IInv, TypeInv, PlaceOK, OutputOK, MainLines, Lines, Begin
<1>2. output' = <<"main">> /\ TypeInv'
  BY <1>1 DEF Begin, printf, IInv, TypeInv, programVars, threadVars
<1>3. PlaceOK' /\ CountOK'
  BY DEF Begin, IInv, PlaceOK, CountOK, programVars, threadVars, Threads
<1>4. OutputOK'
  BY <1>2 DEF Begin, IInv, PlaceOK, OutputOK, MainLines, Lines, programVars, threadVars
<1> QED
  BY <1>2, <1>3, <1>4 DEF IInv

LEMMA CreateKeeps == ASSUME IInv, NEW t \in Threads, Create(t) PROVE IInv'
<1>1. pc[t] = "none" /\ pc' = [pc EXCEPT ![t] = "begin"]
  BY DEF Create, IInv, PlaceOK, Threads
<1>2. TypeInv' /\ PlaceOK' /\ CountOK'
  BY DEF Create, IInv, TypeInv, PlaceOK, CountOK, programVars, Threads
<1>3. OutputOK'
  BY <1>1 DEF Create, IInv, TypeInv, OutputOK, MainLines, Lines, programVars, Threads
<1> QED
  BY <1>2, <1>3 DEF IInv

LEMMA JoinKeeps == ASSUME IInv, Join PROVE IInv'
<1>1. TypeInv' /\ PlaceOK' /\ CountOK'
  BY DEF Join, JoinTarget, IInv, TypeInv, PlaceOK, CountOK, programVars, threadVars,
         Threads
<1>2. OutputOK'
  BY DEF Join, IInv, OutputOK, MainLines, Lines, programVars, threadVars
<1> QED
  BY <1>1, <1>2 DEF IInv

LEMMA EndKeeps == ASSUME IInv, End PROVE IInv'
<1>1. TypeInv' /\ PlaceOK' /\ CountOK'
  BY DEF End, printf, IInv, TypeInv, PlaceOK, CountOK, programVars, threadVars, Threads
<1>2. Len(output) >= 1 /\ Len(output) \in Nat
  <2>1. Len(output) = MainLines + Lines("A") + Lines("B") /\ MainLines = 1
    BY DEF End, IInv, OutputOK, MainLines
  <2>2. Lines("A") \in Nat /\ Lines("B") \in Nat
    BY DEF Lines
  <2> QED
    BY <2>1, <2>2
<1>3. Len(output') = Len(output) + 1 /\ output'[Len(output) + 1] = "main"
      /\ \A n \in 1 .. Len(output) : output'[n] = output[n]
  BY DEF End, printf, IInv, TypeInv
<1>4. OutputOK'
  <2>1. Len(output') = (MainLines + Lines("A") + Lines("B"))'
    BY <1>3 DEF End, IInv, OutputOK, MainLines, Lines, programVars, threadVars
  <2>2. DOMAIN output' = 1 .. Len(output) + 1
    BY <1>1, <1>3 DEF TypeInv
  <2> QED
    BY <1>2, <1>3, <2>1, <2>2 DEF End, IInv, TypeInv, OutputOK
<1> QED
  BY <1>1, <1>4 DEF IInv

LEMMA ThreadKeeps == ASSUME IInv, NEW t \in Threads, Thread(t) PROVE IInv'
<1>1. main \notin {"begin", "end"}
  BY DEF Thread, PrintFirst, Load, Store, PrintLast, IInv, TypeInv, PlaceOK, Threads
<1>2. CASE PrintFirst(t)
  <2>1. TypeInv' /\ PlaceOK' /\ CountOK'
    BY <1>2 DEF PrintFirst, printf, IInv, TypeInv, PlaceOK, CountOK, programVars, Threads
  <2>2. OutputOK'
    BY <1>1, <1>2, PrintByThread
    DEF PrintFirst, IInv, TypeInv, OutputOK, MainLines, Lines, programVars, Threads
  <2> QED
    BY <2>1, <2>2 DEF IInv
<1>3. CASE Load(t)
  <2>1. TypeInv' /\ PlaceOK' /\ CountOK'
    BY <1>3 DEF Load, Loops, IInv, TypeInv, PlaceOK, CountOK, programVars, Threads
  <2>2. OutputOK'
    BY <1>3 DEF Load, IInv, TypeInv, OutputOK, MainLines, Lines, programVars, Threads
  <2> QED
    BY <2>1, <2>2 DEF IInv
<1>4. CASE Store(t)
  <2>1. TypeInv' /\ PlaceOK'
    BY <1>4 DEF Store, IInv, TypeInv, PlaceOK, programVars, Threads
  <2>2. CountOK'
    BY <1>4 DEF Store, IInv, TypeInv, PlaceOK, CountOK, programVars, Threads
  <2>3. OutputOK'
    BY <1>4 DEF Store, IInv, TypeInv, OutputOK, MainLines, Lines, programVars, Threads
  <2> QED
    BY <2>1, <2>2, <2>3 DEF IInv
<1>5. CASE PrintLast(t)
  <2>1. TypeInv' /\ PlaceOK' /\ CountOK'
    BY <1>5
    DEF PrintLast, printf, Loops, IInv, TypeInv, PlaceOK, CountOK, programVars, Threads
  <2>2. OutputOK'
    BY <1>1, <1>5, PrintByThread
    DEF PrintLast, IInv, TypeInv, PlaceOK, OutputOK, MainLines, Lines, programVars, Threads
  <2> QED
    BY <2>1, <2>2 DEF IInv
<1> QED
  BY <1>2, <1>3, <1>4, <1>5 DEF Thread

\* The inductive invariant of the programs.
THEOREM Invariance == Spec => []IInv
<1>1. Init => IInv
  BY Initially
<1>2. IInv /\ [Next]_vars => IInv'
  <2> SUFFICES ASSUME IInv, [Next]_vars PROVE IInv'
    OBVIOUS
  <2>1. CASE Next
    BY <2>1, BeginKeeps, CreateKeeps, ThreadKeeps, JoinKeeps, EndKeeps DEF Next
  <2>2. CASE UNCHANGED vars
    BY <2>2
    DEF vars, IInv, TypeInv, PlaceOK, CountOK, OutputOK, MainLines, Lines
  <2> QED
    BY <2>1, <2>2
<1> QED
  BY <1>1, <1>2, PTL DEF Spec

\* For every loop count, the counter t1.c prints is at most twice the count and,
\* from two rounds on, at least 2, however the threads interleave.
THEOREM CounterInBounds == Spec => []CounterBounds
<1>1. IInv => CounterBounds
  BY DEF IInv, TypeInv, PlaceOK, CountOK, CounterBounds, Threads
<1> QED
  BY <1>1, Invariance, PTL

\* Main's two lines are the first and the last, around all those of the threads.
THEOREM MainFirstAndLast == Spec => []MainBrackets
<1>1. IInv => MainBrackets
  BY DEF IInv, TypeInv, PlaceOK, OutputOK, MainLines, Lines, MainBrackets
<1> QED
  BY <1>1, Invariance, PTL
=============================================================================
