----------------------- MODULE ProducerConsumerProofs -----------------------
(***************************************************************************)
(* Proofs about week-9/pc.c for every buffer size, number of values and    *)
(* number of consumers.                                                    *)
(***************************************************************************)
EXTENDS ProducerConsumer, FiniteSetTheorems, TLAPS

\* A thread is at a label of the critical section exactly when it owns m.
MutexInv == \A t \in Threads : pc[t] \in Critical <=> m = t

\* The while loops around Cond_wait establish what do_fill and do_get need.
AccessInv ==
  /\ pc[Producer] = "access" => num_full < max
  /\ \A c \in Consumers : pc[c] = "access" => num_full > 0

\* The producer has rounds left exactly as long as it has not returned.
RoundsInv == IF pc[Producer] = "done" THEN n = Rounds ELSE n < Rounds

\* A thread that main has not created yet has not run; one joined has ended.
LifeInv ==
  /\ \A t \in Threads : t >= created <=> pc[t] = "unborn"
  /\ \A t \in Threads : t < joined => pc[t] = "done"

\* A consumer holds an end marker exactly from the do_get that returned it on.
MarkerInv ==
  \A c \in Consumers :
    /\ pc[c] \in {"unborn", "lock", "test", "wait", "access"} => tmp[c] # EndMarker
    /\ pc[c] = "done" => tmp[c] = EndMarker

Control ==
  TypeOK /\ MutexInv /\ AccessInv /\ RoundsInv /\ LifeInv /\ MarkerInv

\* The control part holds at first ...
LEMMA ControlInit == Init => Control
  BY ParameterAssumption, SMT DEF Init, Control, TypeOK, MutexInv, AccessInv, RoundsInv,
     LifeInv, MarkerInv, Threads, Consumers, Producer, Nobody, EndMarker, Labels,
     Critical, Rounds

\* ... and every step of every thread keeps it.
LEMMA ControlStep == Control /\ [Next]_vars => Control'
<1> SUFFICES ASSUME Control, [Next]_vars PROVE Control'
  OBVIOUS
<1> USE ParameterAssumption DEF Control, TypeOK, MutexInv, AccessInv, RoundsInv, LifeInv,
    MarkerInv, Threads, Consumers, Producer, Nobody, EndMarker, Labels, Critical,
    Rounds, Goto, ringVars, mainVars
<1>1. CASE Create
  BY <1>1, SMT DEF Create
<1>2. CASE Join
  BY <1>2, SMT DEF Join
<1>3. ASSUME NEW t \in Threads, Lock(t) PROVE Control'
  BY <1>3, SMT DEF Lock
<1>4. CASE PTest
  <2>1. CASE Wait(Producer)
    BY <1>4, <2>1, SMT DEF PTest, Wait
  <2>2. CASE num_full # max /\ Proceed(Producer)
    BY <1>4, <2>2, SMT DEF PTest, Proceed
  <2> QED
    BY <1>4, <2>1, <2>2 DEF PTest
<1>5. CASE PFill
  <2>1. TypeOK'
    BY <1>5, SMT DEF PFill, DoFill, Value
  <2>2. MutexInv'
    BY <1>5, SMT DEF PFill, DoFill, Value
  <2>3. AccessInv'
    BY <1>5, SMT DEF PFill, DoFill, Value
  <2>4. RoundsInv'
    BY <1>5, SMT DEF PFill, DoFill, Value
  <2>5. LifeInv'
    BY <1>5, SMT DEF PFill, DoFill, Value
  <2>6. MarkerInv'
    BY <1>5, SMT DEF PFill, DoFill, Value
  <2> QED
    BY <2>1, <2>2, <2>3, <2>4, <2>5, <2>6
<1>6. CASE PSignal
  <2>1. CASE Goto(Producer, "unlock")
    BY <1>6, <2>1, SMT DEF PSignal
  <2>2. ASSUME NEW c \in Sleepers,
               pc' = [pc EXCEPT ![Producer] = "unlock", ![c] = "lock"]
        PROVE  Control'
    BY <1>6, <2>2, SMT DEF PSignal, Sleepers
  <2> QED
    BY <1>6, <2>1, <2>2 DEF PSignal
<1>7. CASE PUnlock
  <2>1. TypeOK'
    BY <1>7, SMT DEF PUnlock, UnlockUntil
  <2>2. MutexInv'
    BY <1>7, SMT DEF PUnlock, UnlockUntil
  <2>3. AccessInv'
    BY <1>7, SMT DEF PUnlock, UnlockUntil
  <2>4. RoundsInv'
    BY <1>7, SMT DEF PUnlock, UnlockUntil
  <2>5. LifeInv'
    BY <1>7, SMT DEF PUnlock, UnlockUntil
  <2>6. MarkerInv'
    BY <1>7, SMT DEF PUnlock, UnlockUntil
  <2> QED
    BY <2>1, <2>2, <2>3, <2>4, <2>5, <2>6
<1>8. ASSUME NEW c \in Consumers, CTest(c) PROVE Control'
  <2>1. CASE Wait(c)
    BY <1>8, <2>1, SMT DEF CTest, Wait
  <2>2. CASE num_full # 0 /\ Proceed(c)
    BY <1>8, <2>2, SMT DEF CTest, Proceed
  <2> QED
    BY <1>8, <2>1, <2>2 DEF CTest
<1>9. ASSUME NEW c \in Consumers, CGet(c) PROVE Control'
  BY <1>9, SMT DEF CGet
<1>10. ASSUME NEW c \in Consumers, CSignal(c) PROVE Control'
  BY <1>10, SMT DEF CSignal
<1>11. ASSUME NEW c \in Consumers, CUnlock(c) PROVE Control'
  <2>1. TypeOK'
    BY <1>11, SMT DEF CUnlock
  <2>2. MutexInv'
    BY <1>11, SMT DEF CUnlock
  <2>3. AccessInv'
    BY <1>11, SMT DEF CUnlock
  <2>4. RoundsInv'
    BY <1>11, SMT DEF CUnlock
  <2>5. LifeInv'
    BY <1>11, SMT DEF CUnlock
  <2>6. MarkerInv'
    BY <1>11, SMT DEF CUnlock
  <2> QED
    BY <2>1, <2>2, <2>3, <2>4, <2>5, <2>6
<1>12. ASSUME NEW t \in Threads, SpuriousWake(t) PROVE Control'
  BY <1>12, SMT DEF SpuriousWake
<1>13. CASE UNCHANGED vars
  BY <1>13, SMT DEF vars
<1> HIDE DEF Control, TypeOK, MutexInv, AccessInv, RoundsInv, LifeInv, MarkerInv, Goto,
    ringVars, mainVars, Rounds
<1> QED
  BY <1>1, <1>2, <1>3, <1>4, <1>5, <1>6, <1>7, <1>8, <1>9, <1>10, <1>11, <1>12, <1>13
     DEF Next, MainStep, ProducerStep, ConsumerStep, Exited

\* Control is an invariant of pc.c.
LEMMA ControlInvariant == Spec => []Control
<1>1. Init => Control
  BY ControlInit
<1>2. Control /\ [Next]_vars => Control'
  BY ControlStep
<1> QED
  BY <1>1, <1>2, PTL DEF Spec

\* Every variable keeps its type, for every buffer size and any number of
\* values and consumers; in particular num_full never leaves 0 .. max.
THEOREM TypeCorrect == Spec => []TypeOK
<1>1. Control => TypeOK
  BY DEF Control
<1> QED
  BY <1>1, ControlInvariant, PTL

\* No two threads are in the critical section.
MutualExclusion ==
  \A t, u \in Threads : pc[t] \in Critical /\ pc[u] \in Critical => t = u

THEOREM Exclusion == Spec => []MutualExclusion
<1>1. Control => MutualExclusion
  BY DEF Control, MutexInv, MutualExclusion
<1> QED
  BY <1>1, ControlInvariant, PTL

-----------------------------------------------------------------------------
\* The index arithmetic of do_fill and do_get.
LEMMA NextSlot ==
  ASSUME NEW i \in 0 .. max - 1
  PROVE  (i + 1) % max = IF i + 1 < max THEN i + 1 ELSE 0
  BY ParameterAssumption, SMT

\* A step that neither puts nor takes a value.
Quiet ==
  /\ UNCHANGED <<buffer, fill_ptr, use_ptr, num_full, tmp>>
  /\ Puts' = Puts

\* Only do_fill and do_get change the ring, a consumer's tmp or the number of
\* values put.
LEMMA ChannelSteps ==
  Control /\ [Next]_vars => Quiet \/ PFill \/ \E c \in Consumers : CGet(c)
<1> SUFFICES ASSUME Control, [Next]_vars
             PROVE  Quiet \/ PFill \/ \E c \in Consumers : CGet(c)
  OBVIOUS
<1> USE ParameterAssumption DEF Control, TypeOK, Threads, Consumers, Producer, Labels,
    Goto, ringVars, mainVars, Quiet, Puts
<1>1. CASE Create
  BY <1>1, SMT DEF Create, LifeInv
<1>2. CASE Join
  BY <1>2, SMT DEF Join
<1>3. ASSUME NEW t \in Threads, Lock(t) PROVE Quiet
  BY <1>3, SMT DEF Lock
<1>4. CASE PTest
  <2>1. CASE Wait(Producer)
    BY <1>4, <2>1, SMT DEF PTest, Wait
  <2>2. CASE Proceed(Producer)
    BY <1>4, <2>2, SMT DEF PTest, Proceed
  <2> QED
    BY <1>4, <2>1, <2>2 DEF PTest
<1>6. CASE PSignal
  <2>1. CASE Goto(Producer, "unlock")
    BY <1>6, <2>1, SMT DEF PSignal
  <2>2. ASSUME NEW c \in Sleepers,
               pc' = [pc EXCEPT ![Producer] = "unlock", ![c] = "lock"]
        PROVE  Quiet
    BY <1>6, <2>2, SMT DEF PSignal, Sleepers
  <2> QED
    BY <1>6, <2>1, <2>2 DEF PSignal
<1>7. CASE PUnlock
  BY <1>7, SMT DEF PUnlock, UnlockUntil
<1>8. ASSUME NEW c \in Consumers, CTest(c) PROVE Quiet
  <2>1. CASE Wait(c)
    BY <1>8, <2>1, SMT DEF CTest, Wait
  <2>2. CASE Proceed(c)
    BY <1>8, <2>2, SMT DEF CTest, Proceed
  <2> QED
    BY <1>8, <2>1, <2>2 DEF CTest
<1>10. ASSUME NEW c \in Consumers, CSignal(c) PROVE Quiet
  BY <1>10, SMT DEF CSignal
<1>11. ASSUME NEW c \in Consumers, CUnlock(c) PROVE Quiet
  BY <1>11, SMT DEF CUnlock
<1>12. ASSUME NEW t \in Threads, SpuriousWake(t) PROVE Quiet
  BY <1>12, SMT DEF SpuriousWake
<1>13. CASE UNCHANGED vars
  BY <1>13, SMT DEF vars
<1> HIDE DEF Control, TypeOK, Goto, ringVars, mainVars, Quiet, Puts
<1> QED
  BY <1>1, <1>2, <1>3, <1>4, <1>6, <1>7, <1>8, <1>10, <1>11, <1>12, <1>13
     DEF Next, MainStep, ProducerStep, ConsumerStep, Exited

LEMMA RingInit == Init => RingFIFO
  BY ParameterAssumption, SMT DEF Init, RingFIFO, Slot, Gets, Puts, Producer, Threads

\* do_fill appends to the ring, do_get removes its oldest value.
LEMMA RingStep == Control /\ RingFIFO /\ [Next]_vars => RingFIFO'
<1> SUFFICES ASSUME Control, RingFIFO, [Next]_vars PROVE RingFIFO'
  OBVIOUS
<1> USE ParameterAssumption DEF Control, TypeOK, AccessInv, RoundsInv, Threads, Consumers,
    Producer, Rounds
<1>1. CASE Quiet
  BY <1>1, SMT DEF Quiet, RingFIFO, Slot, Gets
<1>2. CASE PFill
  <2>1. /\ num_full < max /\ num_full' = num_full + 1 /\ use_ptr' = use_ptr
        /\ fill_ptr' = (IF fill_ptr + 1 < max THEN fill_ptr + 1 ELSE 0)
        /\ buffer' = [buffer EXCEPT ![fill_ptr] = Value(n)]
    BY <1>2, NextSlot DEF PFill, DoFill
  <2>2. Puts = n /\ Puts' = n + 1 /\ Gets' = Gets
    BY <1>2, <2>1, SMT DEF PFill, Puts, Gets, Goto, mainVars
  <2>3. fill_ptr' = Slot(num_full)'
    BY <2>1, SMT DEF RingFIFO, Slot
  <2>4. ASSUME NEW j \in 0 .. num_full
        PROVE  buffer'[Slot(j)'] = Value(Gets + j)
    <3>1. CASE j = num_full
      BY <2>1, <2>2, <3>1, SMT DEF RingFIFO, Slot, Gets
    <3>2. CASE j < num_full
      <4>1. Slot(j) # fill_ptr /\ Slot(j) \in 0 .. max - 1
        BY <2>1, <3>2, SMT DEF RingFIFO, Slot
      <4> QED
        BY <2>1, <3>2, <4>1, SMT DEF RingFIFO, Slot
    <3> QED
      BY <3>1, <3>2, SMT
  <2> QED
    BY <2>1, <2>2, <2>3, <2>4, SMT DEF RingFIFO, Value
<1>3. ASSUME NEW c \in Consumers, CGet(c) PROVE RingFIFO'
  <2>1. /\ num_full > 0 /\ num_full' = num_full - 1 /\ fill_ptr' = fill_ptr
        /\ use_ptr' = (IF use_ptr + 1 < max THEN use_ptr + 1 ELSE 0)
        /\ buffer' = buffer
    BY <1>3, NextSlot, SMT DEF CGet
  <2>2. Puts' = Puts /\ Gets' = Gets + 1
    BY <1>3, <2>1, SMT DEF CGet, Puts, Gets, Goto
  <2>3. \A j \in 0 .. num_full - 2 : Slot(j)' = Slot(j + 1)
    BY <2>1, SMT DEF Slot
  <2>4. fill_ptr' = Slot(num_full)'
    BY <2>1, SMT DEF RingFIFO, Slot
  <2>5. ASSUME NEW j \in 0 .. num_full - 2
        PROVE  buffer'[Slot(j)'] = Value(Gets' + j)
    <3>1. buffer[Slot(j + 1)] = Value(Gets + (j + 1))
      BY SMT DEF RingFIFO
    <3>2. Gets \in Int
      BY SMT DEF Gets, Puts
    <3>3. Gets + (j + 1) = Gets' + j
      BY <2>2, <3>2, SMT
    <3> QED
      BY <2>1, <2>3, <3>1, <3>3
  <2> QED
    BY <2>1, <2>2, <2>4, <2>5, SMT DEF RingFIFO, Gets, Puts, Value
<1> QED
  BY <1>1, <1>2, <1>3, ChannelSteps

\* The ring is a first-in first-out queue of the values put and not yet taken,
\* whatever the interleaving: no value is overwritten, lost or taken twice.
THEOREM RingCorrect == Spec => []RingFIFO
<1>1. Init => RingFIFO
  BY RingInit
<1>2. Control /\ RingFIFO /\ [Next]_vars => RingFIFO'
  BY RingStep
<1> QED
  BY <1>1, <1>2, ControlInvariant, PTL DEF Spec

-----------------------------------------------------------------------------
LEMMA ChannelInit == Init => Channel!Init
  BY ParameterAssumption, SMT DEF Init, Channel!Init, Channel!Consumers, Consumers, Gets,
     Puts, Producer, Threads

\* Each step of a thread is a step of the channel or leaves the channel alone.
LEMMA ChannelStep ==
  Control /\ Control' /\ RingFIFO /\ [Next]_vars => [Channel!Next]_(Channel!chanVars)
<1> SUFFICES ASSUME Control, Control', RingFIFO, [Next]_vars
             PROVE  [Channel!Next]_(Channel!chanVars)
  OBVIOUS
<1> USE ParameterAssumption DEF Control, TypeOK, AccessInv, RoundsInv, Threads, Consumers,
    Producer, Rounds
<1>1. CASE Quiet
  BY <1>1 DEF Quiet, Channel!chanVars, Gets
<1>2. CASE PFill
  <2>1. num_full < max /\ num_full' = num_full + 1 /\ tmp' = tmp
    BY <1>2 DEF PFill, DoFill
  <2>2. Puts = n /\ Puts' = Puts + 1 /\ Gets' = Gets /\ n < Rounds
    BY <1>2, <2>1, SMT DEF PFill, Puts, Gets, Goto, mainVars
  <2>3. Channel!Send
    BY <2>1, <2>2, SMT DEF Channel!Send, Gets
  <2> QED
    BY <2>3 DEF Channel!Next
<1>3. ASSUME NEW c \in Consumers, CGet(c) PROVE Channel!Next
  <2>1. num_full > 0 /\ num_full' = num_full - 1
    BY <1>3, SMT DEF CGet
  <2>2. Puts' = Puts /\ Gets' = Gets + 1
    BY <1>3, <2>1, SMT DEF CGet, Puts, Gets, Goto
  <2>3. buffer[use_ptr] = Value(Gets)
    <3>1. Slot(0) = use_ptr /\ 0 \in 0 .. num_full - 1 /\ Gets + 0 = Gets
      BY <2>1, SMT DEF Slot, Gets, Puts
    <3> QED
      BY <3>1 DEF RingFIFO
  <2>4. tmp' = [tmp EXCEPT ![c] = Channel!Value(Gets)] /\ tmp[c] # EndMarker
    BY <1>3, <2>3, SMT DEF CGet, MarkerInv, Value, Channel!Value, EndMarker,
       Channel!EndMarker
  <2>5. Gets < Puts
    BY <2>1, SMT DEF Gets, Puts
  <2>6. Channel!Receive(c)
    BY <2>2, <2>4, <2>5 DEF Channel!Receive, EndMarker, Channel!EndMarker
  <2> QED
    BY <2>6 DEF Channel!Next, Channel!Consumers
<1> QED
  BY <1>1, <1>2, <1>3, ChannelSteps

\* pc.c implements the bounded first-in first-out channel: a producer that puts
\* 0 .. loops-1 and one end marker per consumer, no more than max values in
\* flight, and consumers that stop at their first end marker.
THEOREM Refinement == Spec => ImplementsChannel
<1>1. Init => Channel!Init
  BY ChannelInit
<1>2. Control /\ Control' /\ RingFIFO /\ [Next]_vars => [Channel!Next]_(Channel!chanVars)
  BY ChannelStep
<1> QED
  BY <1>1, <1>2, ControlInvariant, RingCorrect, PTL DEF Spec, ImplementsChannel, Channel!Spec
-----------------------------------------------------------------------------
\* A consumer that makes room in a full ring still has its signal to send.
LEMMA ProducerWakeupStep ==
  Control /\ ProducerWakeup /\ [Next]_vars => ProducerWakeup'
<1> SUFFICES ASSUME Control, ProducerWakeup, [Next]_vars PROVE ProducerWakeup'
  OBVIOUS
<1> USE ParameterAssumption DEF Control, TypeOK, MutexInv, AccessInv, Threads, Consumers,
    Producer, Nobody, Labels, Critical, Goto, ringVars, mainVars, ProducerWakeup
<1>1. CASE Create
  BY <1>1, SMT DEF Create, LifeInv
<1>2. CASE Join
  BY <1>2, SMT DEF Join
<1>3. ASSUME NEW t \in Threads, Lock(t) PROVE ProducerWakeup'
  BY <1>3, SMT DEF Lock
<1>4. CASE PTest
  <2>1. CASE num_full = max /\ Wait(Producer)
    BY <1>4, <2>1, SMT DEF Wait
  <2>2. CASE Proceed(Producer)
    BY <1>4, <2>2, SMT DEF PTest, Proceed
  <2> QED
    BY <1>4, <2>1, <2>2 DEF PTest
<1>5. CASE PFill
  BY <1>5, SMT DEF PFill
<1>6. CASE PSignal
  <2>1. pc'[Producer] = "unlock"
    BY <1>6, SMT DEF PSignal, Sleepers
  <2> QED
    BY <2>1
<1>7. CASE PUnlock
  BY <1>7, SMT DEF PUnlock, UnlockUntil
<1>8. ASSUME NEW c \in Consumers, CTest(c) PROVE ProducerWakeup'
  <2>1. CASE Wait(c)
    BY <1>8, <2>1, SMT DEF CTest, Wait
  <2>2. CASE Proceed(c)
    BY <1>8, <2>2, SMT DEF CTest, Proceed
  <2> QED
    BY <1>8, <2>1, <2>2 DEF CTest
<1>9. ASSUME NEW c \in Consumers, CGet(c) PROVE ProducerWakeup'
  <2>1. pc'[c] = "signal"
    BY <1>9, SMT DEF CGet
  <2> QED
    BY <2>1
<1>10. ASSUME NEW c \in Consumers, CSignal(c) PROVE ProducerWakeup'
  <2>1. pc'[Producer] # "wait"
    BY <1>10, SMT DEF CSignal
  <2> QED
    BY <2>1
<1>11. ASSUME NEW c \in Consumers, CUnlock(c) PROVE ProducerWakeup'
  BY <1>11, SMT DEF CUnlock
<1>12. ASSUME NEW t \in Threads, SpuriousWake(t) PROVE ProducerWakeup'
  BY <1>12, SMT DEF SpuriousWake
<1>13. CASE UNCHANGED vars
  BY <1>13, SMT DEF vars
<1> HIDE DEF Control, TypeOK, Goto, ringVars, mainVars, ProducerWakeup
<1> QED
  BY <1>1, <1>2, <1>3, <1>4, <1>5, <1>6, <1>7, <1>8, <1>9, <1>10, <1>11, <1>12, <1>13
     DEF Next, MainStep, ProducerStep, ConsumerStep, Exited

\* One if the producer has put a value and not yet signalled fill.
Pending == IF pc[Producer] = "signal" THEN 1 ELSE 0

LEMMA FiniteConsumers ==
  ASSUME NEW S \in SUBSET Consumers
  PROVE  IsFiniteSet(S) /\ Cardinality(S) \in Nat
<1>1. IsFiniteSet(Consumers)
  BY ParameterAssumption, FS_Interval, SMT DEF Consumers
<1> QED
  BY <1>1, FS_Subset, FS_CardinalityType

\* A step after which no fewer consumers are awake and no more values or
\* sleepers wait for them.
Calm ==
  /\ Awake \subseteq Awake'
  /\ Sleepers' \subseteq Sleepers
  /\ num_full' = num_full
  /\ Pending' = Pending

\* The steps that are not calm are those the argument is about.
LEMMA WakeupSteps ==
  Control /\ [Next]_vars =>
    \/ Calm
    \/ PFill
    \/ PSignal
    \/ \E c \in Consumers : CGet(c) \/ (num_full = 0 /\ num_full' = 0)
<1> SUFFICES ASSUME Control, [Next]_vars
             PROVE  \/ Calm
                    \/ PFill
                    \/ PSignal
                    \/ \E c \in Consumers : CGet(c) \/ (num_full = 0 /\ num_full' = 0)
  OBVIOUS
<1> USE ParameterAssumption DEF Control, TypeOK, Threads, Consumers, Producer, Labels,
    Goto, ringVars, mainVars, Calm, Pending, Awake, Sleepers
<1>1. CASE Create
  BY <1>1, SMT DEF Create, LifeInv
<1>2. CASE Join
  BY <1>2, SMT DEF Join
<1>3. ASSUME NEW t \in Threads, Lock(t) PROVE Calm
  BY <1>3, SMT DEF Lock
<1>4. CASE PTest
  <2>1. CASE Wait(Producer)
    BY <1>4, <2>1, SMT DEF PTest, Wait
  <2>2. CASE Proceed(Producer)
    BY <1>4, <2>2, SMT DEF PTest, Proceed
  <2> QED
    BY <1>4, <2>1, <2>2 DEF PTest
<1>7. CASE PUnlock
  BY <1>7, SMT DEF PUnlock, UnlockUntil
<1>8. ASSUME NEW c \in Consumers, CTest(c) PROVE Calm \/ (num_full = 0 /\ num_full' = 0)
  <2>1. CASE num_full = 0 /\ Wait(c)
    BY <2>1 DEF Wait
  <2>2. CASE Proceed(c)
    BY <1>8, <2>2, SMT DEF CTest, Proceed
  <2> QED
    BY <1>8, <2>1, <2>2 DEF CTest
<1>10. ASSUME NEW c \in Consumers, CSignal(c) PROVE Calm
  BY <1>10, SMT DEF CSignal
<1>11. ASSUME NEW c \in Consumers, CUnlock(c) PROVE Calm
  BY <1>11, SMT DEF CUnlock
<1>12. ASSUME NEW t \in Threads, SpuriousWake(t) PROVE Calm
  BY <1>12, SMT DEF SpuriousWake
<1>13. CASE UNCHANGED vars
  BY <1>13, SMT DEF vars
<1> HIDE DEF Control, TypeOK, Goto, ringVars, mainVars, Calm, Pending, Awake, Sleepers
<1> QED
  BY <1>1, <1>2, <1>3, <1>4, <1>7, <1>8, <1>10, <1>11, <1>12, <1>13
     DEF Next, MainStep, ProducerStep, ConsumerStep, Exited

\* Each value put is matched by a signal, and each signal by a consumer woken,
\* as long as some consumer sleeps; each consumer that stops being awake takes
\* a value or found none.
LEMMA ConsumerWakeupStep ==
  Control /\ ConsumerWakeup /\ [Next]_vars => ConsumerWakeup'
<1> SUFFICES ASSUME Control, ConsumerWakeup, [Next]_vars, Sleepers' # {}
             PROVE  num_full' <= Cardinality(Awake') + Pending'
  BY DEF ConsumerWakeup, Pending
<1> USE ParameterAssumption DEF Control, TypeOK
<1>1. /\ IsFiniteSet(Awake) /\ Cardinality(Awake) \in Nat
      /\ IsFiniteSet(Awake') /\ Cardinality(Awake') \in Nat
      /\ Pending \in Nat /\ Pending' \in Nat /\ num_full \in Nat
  <2>1. Awake \in SUBSET Consumers /\ Awake' \in SUBSET Consumers
    BY DEF Awake
  <2> QED
    BY <2>1, FiniteConsumers, SMT DEF Pending
<1>2. CASE Calm
  <2>1. Cardinality(Awake) <= Cardinality(Awake')
    BY <1>1, <1>2, FS_Subset DEF Calm
  <2> QED
    BY <1>1, <1>2, <2>1, SMT DEF Calm, ConsumerWakeup, Pending
<1>3. CASE PFill
  <2>1. Pending = 0 /\ Pending' = 1 /\ num_full' = num_full + 1
    BY <1>3, SMT DEF PFill, DoFill, Goto, Pending, Producer, Threads
  <2>2. Awake' = Awake /\ Sleepers' = Sleepers
    BY <1>3, SMT DEF PFill, Goto, Awake, Sleepers, Producer, Threads, Consumers
  <2> QED
    BY <1>1, <2>1, <2>2, SMT DEF ConsumerWakeup, Pending
<1>4. CASE PSignal
  <2>1. CASE Sleepers = {}
    <3>1. Sleepers' = {}
      BY <1>4, <2>1, SMT DEF PSignal, Goto, Sleepers, Producer, Threads, Consumers
    <3> QED
      BY <3>1
  <2>2. ASSUME NEW c \in Sleepers,
               pc' = [pc EXCEPT ![Producer] = "unlock", ![c] = "lock"]
        PROVE  num_full' <= Cardinality(Awake') + Pending'
    <3>1. Pending = 1 /\ Pending' = 0 /\ num_full' = num_full
      BY <1>4, <2>2, SMT DEF PSignal, ringVars, Pending, Sleepers, Producer, Threads,
         Consumers
    <3>2. Awake' = Awake \cup {c} /\ c \notin Awake
      BY <2>2, SMT DEF Awake, Sleepers, Producer, Threads, Consumers
    <3>3. Cardinality(Awake') = Cardinality(Awake) + 1
      BY <1>1, <3>2, FS_AddElement
    <3> QED
      BY <1>1, <2>2, <3>1, <3>3, SMT DEF ConsumerWakeup, Pending
  <2> QED
    BY <1>4, <2>1, <2>2 DEF PSignal
<1>5. ASSUME NEW c \in Consumers, CGet(c)
      PROVE  num_full' <= Cardinality(Awake') + Pending'
  <2>1. /\ Pending' = Pending /\ Sleepers' = Sleepers /\ num_full' = num_full - 1
        /\ Awake' = Awake \ {c} /\ c \in Awake
    BY <1>5, SMT DEF CGet, Goto, Pending, Awake, Sleepers, Producer, Threads, Consumers
  <2>2. Cardinality(Awake') = Cardinality(Awake) - 1
    BY <1>1, <2>1, FS_RemoveElement
  <2> QED
    BY <1>1, <2>1, <2>2, SMT DEF ConsumerWakeup, Pending
<1>6. CASE num_full' = 0
  BY <1>1, <1>6, SMT
<1> QED
  BY <1>2, <1>3, <1>4, <1>5, <1>6, WakeupSteps

\* No wake-up is lost in pc.c, for every buffer size and number of consumers:
\* signalling with m held, one condition variable per direction, and re-testing
\* in a while loop are enough although every signal wakes at most one thread.
THEOREM WakeupsArrive == Spec => []NoLostWakeup
<1>1. Init => NoLostWakeup
  BY ParameterAssumption, SMT DEF Init, NoLostWakeup, ProducerWakeup, ConsumerWakeup,
     Sleepers, Producer, Threads, Consumers
<1>2. Control /\ NoLostWakeup /\ [Next]_vars => NoLostWakeup'
  BY ProducerWakeupStep, ConsumerWakeupStep DEF NoLostWakeup
<1> QED
  BY <1>1, <1>2, ControlInvariant, PTL DEF Spec

-----------------------------------------------------------------------------
LEMMA MarkerInit == Init => MarkerAccounting
<1> SUFFICES ASSUME Init PROVE MarkerAccounting
  OBVIOUS
<1>1. Marked = {}
  BY SMT DEF Init, Marked, EndMarker
<1>2. Gets = 0
  BY ParameterAssumption, SMT DEF Init, Gets, Puts, Producer, Threads
<1> QED
  BY <1>1, <1>2, FS_EmptySet, ParameterAssumption, SMT DEF MarkerAccounting

\* A value taken is an end marker exactly when all data was taken before it, and
\* a consumer that takes one had none.
LEMMA MarkerStep ==
  Control /\ RingFIFO /\ MarkerAccounting /\ [Next]_vars => MarkerAccounting'
<1> SUFFICES ASSUME Control, RingFIFO, MarkerAccounting, [Next]_vars
             PROVE  MarkerAccounting'
  OBVIOUS
<1> USE ParameterAssumption DEF Control, TypeOK
<1>1. CASE Quiet
  BY <1>1 DEF Quiet, MarkerAccounting, Marked, Gets
<1>2. CASE PFill
  <2>1. Gets' = Gets /\ tmp' = tmp
    BY <1>2, SMT DEF PFill, DoFill, Puts, Gets, Goto, mainVars, Threads, Producer
  <2> QED
    BY <2>1 DEF MarkerAccounting, Marked
<1>3. ASSUME NEW c \in Consumers, CGet(c) PROVE MarkerAccounting'
  <2>1. num_full > 0 /\ num_full' = num_full - 1
    BY <1>3, SMT DEF CGet, AccessInv
  <2>2. Gets' = Gets + 1 /\ Gets \in Nat
    BY <1>3, <2>1, SMT DEF CGet, Puts, Gets, Goto, Producer, Consumers, Threads, RingFIFO
  <2>3. buffer[use_ptr] = Value(Gets)
    <3>1. Slot(0) = use_ptr /\ 0 \in 0 .. num_full - 1 /\ Gets + 0 = Gets
      BY <2>1, <2>2, ParameterAssumption, SMT DEF Slot
    <3> QED
      BY <3>1 DEF RingFIFO
  <2>4. tmp' = [tmp EXCEPT ![c] = Value(Gets)] /\ c \notin Marked
    BY <1>3, <2>3, SMT DEF CGet, MarkerInv, Marked
  <2>5. IsFiniteSet(Marked)
    BY FiniteConsumers DEF Marked
  <2>6. CASE Gets < loops
    <3>1. Marked' = Marked
      BY <2>2, <2>4, <2>6, SMT DEF Marked, Value, EndMarker
    <3> QED
      BY <2>2, <2>6, <3>1, ParameterAssumption, SMT DEF MarkerAccounting
  <2>7. CASE Gets >= loops
    <3>1. Marked' = Marked \cup {c}
      BY <2>2, <2>4, <2>7, ParameterAssumption, SMT DEF Marked, Value, EndMarker
    <3>2. Cardinality(Marked') = Cardinality(Marked) + 1
      BY <2>4, <2>5, <3>1, FS_AddElement
    <3> QED
      BY <2>2, <2>7, <3>2, ParameterAssumption, SMT DEF MarkerAccounting
  <2> QED
    BY <2>2, <2>6, <2>7, ParameterAssumption, SMT
<1> QED
  BY <1>1, <1>2, <1>3, ChannelSteps

\* End markers are neither shared nor lost: after the data, every value taken
\* ends one more consumer.
THEOREM MarkersCorrect == Spec => []MarkerAccounting
<1>1. Init => MarkerAccounting
  BY MarkerInit
<1>2. Control /\ RingFIFO /\ MarkerAccounting /\ [Next]_vars => MarkerAccounting'
  BY MarkerStep
<1> QED
  BY <1>1, <1>2, ControlInvariant, RingCorrect, PTL DEF Spec

\* When main returns, all values and markers were taken, the ring is empty, m is
\* free and every consumer has its marker.
THEOREM ExitIsClean == Spec => []CleanExit
<1>1. Control /\ RingFIFO /\ MarkerAccounting => CleanExit
  <2> SUFFICES ASSUME Control, RingFIFO, MarkerAccounting, joined = consumers + 1
               PROVE  Gets = Rounds /\ num_full = 0 /\ m = Nobody /\ Marked = Consumers
    BY DEF CleanExit
  <2> USE ParameterAssumption DEF Control, TypeOK
  <2>1. \A t \in Threads : pc[t] = "done"
    BY SMT DEF LifeInv, Threads
  <2>2. m = Nobody
    BY <2>1, SMT DEF MutexInv, Critical, Threads
  <2>3. Marked = Consumers
    BY <2>1, SMT DEF MarkerInv, Marked, Consumers, Threads
  <2>4. Cardinality(Consumers) = consumers
    BY FS_Interval, SMT DEF Consumers
  <2>5. Puts = Rounds
    BY <2>1, SMT DEF RoundsInv, Puts, Producer, Threads
  <2>6. Gets \in Int /\ Gets = Rounds - num_full
    BY <2>5, SMT DEF Gets, Rounds
  <2> QED
    BY <2>2, <2>3, <2>4, <2>6, SMT DEF MarkerAccounting, Rounds
<1> QED
  BY <1>1, ControlInvariant, RingCorrect, MarkersCorrect, PTL

-----------------------------------------------------------------------------
(***************************************************************************)
(* Why the program ends.  As long as main has not returned some thread can *)
(* go on, and each step uses up some of the work left, so there is a last  *)
(* step.                                                                   *)
(***************************************************************************)
\* main can create or join a thread, or has returned; or a thread is in the critical
\* section; or m is free and a thread wants it.
CanGoOn ==
  \/ created < consumers + 1
  \/ created = consumers + 1 /\ joined < created /\ pc[joined] = "done"
  \/ joined = consumers + 1
  \/ \E t \in Threads : pc[t] \in Critical
  \/ m = Nobody /\ \E t \in Threads : pc[t] = "lock"

LEMMA SomeoneGoesOn ==
  ASSUME Control, RingFIFO, NoLostWakeup, MarkerAccounting
  PROVE  CanGoOn
<1> SUFFICES ASSUME ~ CanGoOn PROVE FALSE
  OBVIOUS
<1> USE ParameterAssumption
<1>1. /\ created = consumers + 1 /\ joined \in Threads /\ pc[joined] # "done"
      /\ \A t \in Threads : pc[t] \notin Critical
  BY SMT DEF CanGoOn, Control, TypeOK, Threads
<1>2. m = Nobody
  BY <1>1 DEF Control, TypeOK, MutexInv
<1>3. \A t \in Threads : pc[t] \in {"wait", "done"}
  <2>1. \A t \in Threads : pc[t] # "lock"
    BY <1>2 DEF CanGoOn
  <2>2. \A t \in Threads : pc[t] # "unborn"
    BY <1>1, SMT DEF Control, LifeInv, Threads
  <2> QED
    BY <1>1, <2>1, <2>2 DEF Control, TypeOK, Labels, Critical
<1>4. Producer \in Threads /\ \A c \in Consumers : c \in Threads
  BY SMT DEF Threads, Consumers, Producer
<1>5. Awake = {} /\ pc[Producer] # "signal" /\ \A c \in Consumers : pc[c] # "signal"
  BY <1>3, <1>4 DEF Awake
<1>6. Sleepers # {} => num_full = 0
  <2>1. Cardinality(Awake) = 0
    BY <1>5, FS_EmptySet
  <2> QED
    BY <1>5, <2>1, SMT DEF NoLostWakeup, ConsumerWakeup, Control, TypeOK
<1>7. /\ Puts = n /\ n \in Nat /\ num_full \in Nat /\ Gets = n - num_full
      /\ loops \in Nat /\ consumers \in Nat \ {0} /\ Rounds = loops + consumers
      /\ IF pc[Producer] = "done" THEN n = Rounds ELSE n < Rounds
      /\ Cardinality(Marked) = IF Gets > loops THEN Gets - loops ELSE 0
  <2>1. pc[Producer] \notin {"signal", "unlock"}
    BY <1>3, <1>4
  <2> QED
    BY <2>1, SMT DEF Puts, Gets, Rounds, Control, TypeOK, RoundsInv, MarkerAccounting
<1>8. Cardinality(Consumers) = consumers /\ IsFiniteSet(Consumers)
  BY FS_Interval, SMT DEF Consumers
<1>9. CASE Sleepers = {}
  <2>1. \A c \in Consumers : pc[c] = "done"
    BY <1>3, <1>4, <1>9 DEF Sleepers
  <2>2. Marked = Consumers
    BY <2>1 DEF Marked, Control, MarkerInv
  <2>3. Gets = Rounds
    BY <1>7, <1>8, <2>2, SMT
  <2>4. pc[Producer] = "done"
    BY <1>7, <2>3, SMT
  <2>5. \A t \in Threads : pc[t] = "done"
    BY <2>1, <2>4, SMT DEF Threads, Consumers, Producer
  <2> QED
    BY <1>1, <2>5
<1>10. CASE Sleepers # {}
  <2>1. num_full = 0
    BY <1>6, <1>10
  <2>2. pc[Producer] = "done"
    <3>1. pc[Producer] = "wait" => num_full = max
      BY <1>5 DEF NoLostWakeup, ProducerWakeup
    <3> QED
      BY <1>3, <1>4, <2>1, <3>1
  <2>3. Cardinality(Marked) = Cardinality(Consumers)
    BY <1>7, <1>8, <2>1, <2>2, SMT
  <2>4. Marked = Consumers
    <3>1. Marked \in SUBSET Consumers
      BY DEF Marked
    <3> QED
      BY <1>8, <2>3, <3>1, FS_Subset
  <2>5. \A c \in Sleepers : c \in Consumers /\ c \notin Marked
    BY DEF Sleepers, Marked, Control, MarkerInv
  <2> QED
    BY <1>10, <2>4, <2>5
<1> QED
  BY <1>9, <1>10

\* There is no deadlock: until main has returned some thread can go on by itself,
\* even if Cond_wait never returns without a signal.
THEOREM NeverStuck == Spec => []CanGoOn
  BY ControlInvariant, RingCorrect, WakeupsArrive, MarkersCorrect, SomeoneGoesOn, PTL

\* The steps that are left, at most.  A value to be put costs the producer a round
\* and a wake-up of a consumer, and a value to be taken costs a consumer as much.
Ready == {t \in Threads : pc[t] = "lock"}

Cost(label) == IF label = "test" THEN 1
               ELSE IF label = "unlock" THEN 3
               ELSE IF label = "signal" THEN 6 ELSE 0

InSection == IF m = Nobody THEN 0 ELSE Cost(pc[m])

Values == 14 * (Rounds - Puts) + 7 * num_full
Main == 3 * (consumers + 1 - created) + (consumers + 1 - joined)

Work ==
  Values + InSection + 2 * Cardinality(Ready) + Main + 3 * (MaxSpurious - spurious)

LEMMA ReadyFinite ==
  /\ IsFiniteSet(Threads)
  /\ IsFiniteSet(Ready) /\ Cardinality(Ready) \in Nat
<1>1. IsFiniteSet(Threads)
  BY ParameterAssumption, FS_Interval, SMT DEF Threads
<1>2. Ready \in SUBSET Threads
  BY DEF Ready
<1> QED
  BY <1>1, <1>2, FS_Subset, FS_CardinalityType

LEMMA WorkIsNat == Control => Work \in Nat
<1> SUFFICES ASSUME Control PROVE Work \in Nat
  OBVIOUS
<1>1. Values \in Nat
  <2>1. Puts \in Nat /\ Puts <= Rounds /\ Rounds \in Nat /\ num_full \in Nat
    BY ParameterAssumption, SMT DEF Control, TypeOK, RoundsInv, Puts, Rounds
  <2> QED
    BY <2>1, SMT DEF Values
<1>2. InSection \in Nat
  BY DEF InSection, Cost
<1>3. Main \in Nat /\ MaxSpurious - spurious \in Nat
  BY ParameterAssumption, SMT DEF Main, Control, TypeOK
<1> QED
  BY <1>1, <1>2, <1>3, ReadyFinite, SMT DEF Work

IntegerParts ==
  /\ Values \in Int /\ Main \in Int /\ InSection \in Int
  /\ MaxSpurious \in Int /\ spurious \in Int

LEMMA WorkParts == Control => IntegerParts
  BY ParameterAssumption, SMT
     DEF IntegerParts, Values, Main, InSection, Cost, Puts, Rounds, Control, TypeOK

\* A sum of five parts, one of which changes by 2 * more.
LEMMA LessSum ==
  ASSUME NEW v \in Int, NEW i \in Int, NEW r \in Int, NEW w \in Int, NEW s \in Int,
         NEW v1 \in Int, NEW i1 \in Int, NEW w1 \in Int, NEW s1 \in Int, NEW more \in Int,
         v1 + i1 + 2 * more + w1 + 3 * s1 < v + i + w + 3 * s
  PROVE  v1 + i1 + 2 * (r + more) + w1 + 3 * s1 < v + i + 2 * r + w + 3 * s
  BY SMT

\* What a step does to the work: it changes Ready by the thread it makes ready, or
\* that takes m.
LEMMA LessWork ==
  ASSUME Control, Control', NEW more \in {-1, 0, 1},
         Cardinality(Ready') = Cardinality(Ready) + more,
         Values' + InSection' + 2 * more + Main' + 3 * (MaxSpurious - spurious')
           < Values + InSection + Main + 3 * (MaxSpurious - spurious)
  PROVE  Work' < Work
<1>1. Cardinality(Ready) \in Int /\ more \in Int
  BY ReadyFinite, SMT
<1>2. IntegerParts
  BY WorkParts
<1>3. IntegerParts'
  BY WorkParts, PTL
<1>4. /\ Values \in Int /\ Main \in Int /\ InSection \in Int
      /\ MaxSpurious - spurious \in Int
  BY <1>2, SMT DEF IntegerParts
<1>5. /\ Values' \in Int /\ Main' \in Int /\ InSection' \in Int
      /\ MaxSpurious - spurious' \in Int
  BY <1>2, <1>3, SMT DEF IntegerParts
<1>6. Work' = Values' + InSection' + 2 * (Cardinality(Ready) + more) + Main'
              + 3 * (MaxSpurious - spurious')
  BY DEF Work
<1>7. Values' + InSection' + 2 * (Cardinality(Ready) + more) + Main'
        + 3 * (MaxSpurious - spurious')
      < Values + InSection + 2 * Cardinality(Ready) + Main + 3 * (MaxSpurious - spurious)
  BY <1>1, <1>4, <1>5, LessSum
<1> QED
  BY <1>6, <1>7, Zenon DEF Work

LEMMA ReadyGrows ==
  ASSUME NEW t, t \notin Ready, Ready' = Ready \cup {t}
  PROVE  Cardinality(Ready') = Cardinality(Ready) + 1
  BY ReadyFinite, FS_AddElement

LEMMA ReadyShrinks ==
  ASSUME NEW t \in Ready, Ready' = Ready \ {t}
  PROVE  Cardinality(Ready') = Cardinality(Ready) + -1
<1>1. Cardinality(Ready') = Cardinality(Ready) - 1
  BY ReadyFinite, FS_RemoveElement
<1> QED
  BY <1>1, ReadyFinite, SMT

LEMMA WorkStep ==
  ASSUME Control, Control', Next
  PROVE  Work' < Work \/ UNCHANGED vars
<1> USE ParameterAssumption DEF Goto, ringVars, mainVars
<1>1. /\ pc \in [Threads -> Labels] /\ m \in Threads \cup {Nobody}
      /\ \A t \in Threads : pc[t] \in Critical => m = t
      /\ Producer \in Threads /\ Consumers \subseteq Threads
      /\ Producer \notin Consumers /\ Nobody \notin Threads
      /\ n \in Nat /\ num_full \in Nat /\ Rounds \in Nat
      /\ created \in Nat /\ joined \in Nat /\ spurious \in Nat /\ consumers \in Nat
      /\ MaxSpurious \in Nat
  <2>1. /\ pc \in [Threads -> Labels] /\ m \in Threads \cup {Nobody}
        /\ n \in Nat /\ num_full \in Nat
        /\ created \in Nat /\ joined \in Nat /\ spurious \in Nat
    BY SMT DEF Control, TypeOK
  <2>2. \A t \in Threads : pc[t] \in Critical => m = t
    BY DEF Control, MutexInv
  <2>3. /\ Producer \in Threads /\ Consumers \subseteq Threads
        /\ Producer \notin Consumers /\ Nobody \notin Threads
    BY SMT DEF Threads, Consumers, Producer, Nobody
  <2>4. Rounds \in Nat /\ consumers \in Nat /\ MaxSpurious \in Nat
    BY SMT DEF Rounds
  <2> QED
    BY <2>1, <2>2, <2>3, <2>4
<1>2. CASE Create
  <2>1. created \in Threads /\ pc[created] = "unborn"
    BY <1>2, SMT DEF Create, Control, LifeInv, TypeOK, Threads
  <2>2. Ready' = Ready \cup {created} /\ created \notin Ready
    BY <1>1, <1>2, <2>1 DEF Create, Ready
  <2>3. Values' = Values /\ InSection' = InSection
    <3>1. m # created
      BY <2>1 DEF Control, MutexInv, Critical
    <3>2. pc'[Producer] \in {"signal", "unlock"} <=> pc[Producer] \in {"signal", "unlock"}
      BY <1>1, <1>2, <2>1 DEF Create
    <3> QED
      BY <1>1, <1>2, <3>1, <3>2, SMT DEF Create, Values, InSection, Puts, Rounds
  <2>4. Main' = Main - 3 /\ spurious' = spurious
    BY <1>1, <1>2, SMT DEF Create, Main
  <2> QED
    BY <1>1, <2>2, <2>3, <2>4, ReadyGrows, LessWork, WorkParts, SMT DEF IntegerParts
<1>3. CASE Join
  <2>1. /\ Ready' = Ready /\ Values' = Values /\ InSection' = InSection
        /\ spurious' = spurious
    BY <1>3 DEF Join, Ready, Values, InSection, Puts
  <2>2. Main' = Main - 1
    BY <1>1, <1>3, SMT DEF Join, Main
  <2> QED
    BY <1>1, <2>1, <2>2, ReadyFinite, LessWork, WorkParts, SMT DEF IntegerParts
<1>4. ASSUME NEW t \in Threads, Lock(t) PROVE Work' < Work
  <2>1. t \in Ready /\ Ready' = Ready \ {t}
    BY <1>1, <1>4 DEF Lock, Ready
  <2>2. InSection = 0 /\ InSection' = 1
    BY <1>1, <1>4, SMT DEF Lock, InSection, Cost
  <2>3. Values' = Values /\ Main' = Main /\ spurious' = spurious
    BY <1>1, <1>4, SMT DEF Lock, Values, Main, Puts
  <2> QED
    BY <2>1, <2>2, <2>3, ReadyShrinks, LessWork, WorkParts, SMT DEF IntegerParts
<1>5. ASSUME NEW t \in Threads, pc[t] = "test", Wait(t) PROVE Work' < Work
  <2>1. Ready' = Ready
    BY <1>1, <1>5 DEF Wait, Ready
  <2>2. InSection = 1 /\ InSection' = 0
    <3>1. m = t /\ t # Nobody
      BY <1>1, <1>5 DEF Critical
    <3> QED
      BY <1>5, <3>1, SMT DEF Wait, InSection, Cost
  <2>3. Values' = Values /\ Main' = Main /\ spurious' = spurious
    BY <1>1, <1>5, SMT DEF Wait, Values, Main, Puts
  <2> QED
    BY <2>1, <2>2, <2>3, ReadyFinite, LessWork, WorkParts, SMT DEF IntegerParts
<1>6. ASSUME NEW t \in Threads, pc[t] = "test", Proceed(t), UNCHANGED num_full
      PROVE  Work' < Work
  <2>1. Ready' = Ready
    BY <1>1, <1>6 DEF Proceed, Ready
  <2>2. InSection = 1 /\ InSection' = 0
    <3>1. m = t /\ t # Nobody
      BY <1>1, <1>6 DEF Critical
    <3> QED
      BY <1>1, <1>6, <3>1, SMT DEF Proceed, InSection, Cost
  <2>3. Values' = Values /\ Main' = Main /\ spurious' = spurious
    BY <1>1, <1>6, SMT DEF Proceed, Values, Main, Puts
  <2> QED
    BY <2>1, <2>2, <2>3, ReadyFinite, LessWork, WorkParts, SMT DEF IntegerParts
<1>7. CASE PFill
  <2>1. Ready' = Ready
    BY <1>1, <1>7 DEF PFill, Ready
  <2>2. InSection = 0 /\ InSection' = 6
    <3>1. m = Producer /\ Producer # Nobody
      BY <1>1, <1>7 DEF PFill, Critical
    <3> QED
      BY <1>1, <1>7, <3>1, SMT DEF PFill, InSection, Cost
  <2>3. Puts' = Puts + 1 /\ num_full' = num_full + 1 /\ Puts \in Nat
    BY <1>1, <1>7, SMT DEF PFill, Puts, DoFill
  <2>4. Values' = Values - 7 /\ Main' = Main /\ spurious' = spurious
    BY <1>1, <1>7, <2>3, SMT DEF PFill, Values, Main, Rounds
  <2> QED
    BY <2>1, <2>2, <2>4, ReadyFinite, LessWork, WorkParts, SMT DEF IntegerParts
<1>8. CASE PSignal
  <2>1. m = Producer /\ Producer # Nobody /\ pc[Producer] = "signal"
    BY <1>1, <1>8 DEF PSignal, Critical
  <2>2. pc'[Producer] = "unlock" /\ InSection = 6 /\ InSection' = 3
    <3>1. pc'[Producer] = "unlock"
      BY <1>1, <1>8 DEF PSignal, Sleepers
    <3> QED
      BY <1>8, <2>1, <3>1, SMT DEF PSignal, InSection, Cost
  <2>3. Values' = Values /\ Main' = Main /\ spurious' = spurious
    BY <1>8, <2>1, <2>2 DEF PSignal, Values, Main, Puts
  <2>4. Ready' = Ready \/ \E c : c \notin Ready /\ Ready' = Ready \cup {c}
    <3>1. CASE Goto(Producer, "unlock")
      BY <1>1, <2>1, <3>1 DEF Ready
    <3>2. ASSUME NEW c \in Sleepers,
                 pc' = [pc EXCEPT ![Producer] = "unlock", ![c] = "lock"]
          PROVE  c \notin Ready /\ Ready' = Ready \cup {c}
      BY <1>1, <2>1, <3>2 DEF Ready, Sleepers
    <3> QED
      BY <1>8, <3>1, <3>2 DEF PSignal
  <2>5. CASE Ready' = Ready
    BY <2>2, <2>3, <2>5, ReadyFinite, LessWork, WorkParts, SMT DEF IntegerParts
  <2>6. ASSUME NEW c, c \notin Ready, Ready' = Ready \cup {c} PROVE Work' < Work
    BY <2>2, <2>3, <2>6, ReadyGrows, LessWork, WorkParts, SMT DEF IntegerParts
  <2> QED
    BY <2>4, <2>5, <2>6
<1>9. CASE PUnlock
  <2>1. /\ m = Producer /\ Producer # Nobody /\ pc[Producer] = "unlock" /\ m' = Nobody
        /\ n' = n + 1 /\ pc'[Producer] \in {"lock", "done"}
    BY <1>1, <1>9 DEF PUnlock, UnlockUntil, Critical
  <2>2. InSection = 3 /\ InSection' = 0
    BY <2>1, SMT DEF InSection, Cost
  <2>3. Values' = Values /\ Main' = Main /\ spurious' = spurious
    <3>1. Puts' = Puts
      BY <1>1, <2>1, SMT DEF Puts
    <3> QED
      BY <1>9, <3>1 DEF PUnlock, UnlockUntil, Values, Main, Rounds
  <2>4. Ready' = Ready \/ (Producer \notin Ready /\ Ready' = Ready \cup {Producer})
    BY <1>1, <1>9, <2>1 DEF PUnlock, UnlockUntil, Ready
  <2>5. CASE Ready' = Ready
    BY <2>2, <2>3, <2>5, ReadyFinite, LessWork, WorkParts, SMT DEF IntegerParts
  <2>6. CASE Producer \notin Ready /\ Ready' = Ready \cup {Producer}
    BY <2>2, <2>3, <2>6, ReadyGrows, LessWork, WorkParts, SMT DEF IntegerParts
  <2> QED
    BY <2>4, <2>5, <2>6
<1>10. ASSUME NEW c \in Consumers, CGet(c) PROVE Work' < Work
  <2>1. Ready' = Ready
    BY <1>1, <1>10 DEF CGet, Ready
  <2>2. InSection = 0 /\ InSection' = 6
    <3>1. m = c /\ c # Nobody
      BY <1>1, <1>10 DEF CGet, Critical
    <3> QED
      BY <1>1, <1>10, <3>1, SMT DEF CGet, InSection, Cost
  <2>3. Puts' = Puts /\ num_full' = num_full - 1 /\ Puts \in Nat
    BY <1>1, <1>10, SMT DEF CGet, Puts
  <2>4. Values' = Values - 7 /\ Main' = Main /\ spurious' = spurious
    BY <1>1, <1>10, <2>3, SMT DEF CGet, Values, Main, Rounds
  <2> QED
    BY <2>1, <2>2, <2>4, ReadyFinite, LessWork, WorkParts, SMT DEF IntegerParts
<1>11. ASSUME NEW c \in Consumers, CSignal(c) PROVE Work' < Work
  <2>1. m = c /\ c # Nobody /\ pc[c] = "signal" /\ c # Producer /\ m' = m
    BY <1>1, <1>11 DEF CSignal, Critical
  <2>2. InSection = 6 /\ InSection' = 3
    <3>1. pc'[c] = "unlock"
      BY <1>1, <1>11, <2>1 DEF CSignal
    <3> QED
      BY <2>1, <3>1, SMT DEF InSection, Cost
  <2>3. Values' = Values /\ Main' = Main /\ spurious' = spurious
    BY <1>1, <1>11, <2>1 DEF CSignal, Values, Main, Puts, Rounds
  <2>4. Ready' = Ready \/ (Producer \notin Ready /\ Ready' = Ready \cup {Producer})
    <3>1. CASE pc[Producer] = "wait"
      BY <1>1, <1>11, <2>1, <3>1 DEF CSignal, Ready
    <3>2. CASE pc[Producer] # "wait"
      BY <1>1, <1>11, <2>1, <3>2 DEF CSignal, Ready
    <3> QED
      BY <3>1, <3>2
  <2>5. CASE Ready' = Ready
    BY <2>2, <2>3, <2>5, ReadyFinite, LessWork, WorkParts, SMT DEF IntegerParts
  <2>6. CASE Producer \notin Ready /\ Ready' = Ready \cup {Producer}
    BY <2>2, <2>3, <2>6, ReadyGrows, LessWork, WorkParts, SMT DEF IntegerParts
  <2> QED
    BY <2>4, <2>5, <2>6
<1>12. ASSUME NEW c \in Consumers, CUnlock(c) PROVE Work' < Work
  <2>1. /\ m = c /\ c # Nobody /\ pc[c] = "unlock" /\ m' = Nobody /\ c # Producer
        /\ pc'[c] \in {"lock", "done"}
    BY <1>1, <1>12 DEF CUnlock, Critical
  <2>2. InSection = 3 /\ InSection' = 0
    BY <2>1, SMT DEF InSection, Cost
  <2>3. Values' = Values /\ Main' = Main /\ spurious' = spurious
    BY <1>1, <1>12, <2>1 DEF CUnlock, Values, Main, Puts, Rounds
  <2>4. Ready' = Ready \/ (c \notin Ready /\ Ready' = Ready \cup {c})
    BY <1>1, <1>12, <2>1 DEF CUnlock, Ready
  <2>5. CASE Ready' = Ready
    BY <2>2, <2>3, <2>5, ReadyFinite, LessWork, WorkParts, SMT DEF IntegerParts
  <2>6. CASE c \notin Ready /\ Ready' = Ready \cup {c}
    BY <2>2, <2>3, <2>6, ReadyGrows, LessWork, WorkParts, SMT DEF IntegerParts
  <2> QED
    BY <2>4, <2>5, <2>6
<1>13. ASSUME NEW t \in Threads, SpuriousWake(t) PROVE Work' < Work
  <2>1. t \notin Ready /\ Ready' = Ready \cup {t}
    BY <1>1, <1>13 DEF SpuriousWake, Ready
  <2>2. InSection' = InSection
    <3>1. m # t
      BY <1>13 DEF SpuriousWake, Control, MutexInv, Critical
    <3> QED
      BY <1>1, <1>13, <3>1 DEF SpuriousWake, InSection
  <2>3. Values' = Values /\ Main' = Main /\ spurious' = spurious + 1
    BY <1>1, <1>13 DEF SpuriousWake, Values, Main, Puts, Rounds
  <2> QED
    BY <1>1, <2>1, <2>2, <2>3, ReadyGrows, LessWork, WorkParts, SMT DEF IntegerParts
<1>14. CASE PTest
  BY <1>1, <1>5, <1>6, <1>14 DEF PTest, Wait, Proceed
<1>15. ASSUME NEW c \in Consumers, CTest(c) PROVE Work' < Work
  BY <1>1, <1>5, <1>6, <1>15 DEF CTest, Wait, Proceed
<1> HIDE DEF Goto, ringVars, mainVars
<1> QED
  BY <1>1, <1>2, <1>3, <1>4, <1>7, <1>8, <1>9, <1>10, <1>11, <1>12, <1>13, <1>14, <1>15
     DEF Next, MainStep, ProducerStep, ConsumerStep, Exited

\* The program ends: each step, by whichever thread, leaves less work, and the work
\* is a natural number.  At first it is 14 * (loops + consumers) + 4 * (consumers + 1)
\* + 3 * MaxSpurious, which bounds the steps of every run.
THEOREM WorkShrinks ==
  Spec => [](Work \in Nat) /\ [][Work' < Work]_vars
<1>1. Control => Work \in Nat
  BY WorkIsNat
<1>2. Control /\ Control' /\ [Next]_vars => [Work' < Work]_vars
  BY WorkStep
<1>3. Spec => [](Work \in Nat)
  BY <1>1, ControlInvariant, PTL
<1>4. Spec => [][Work' < Work]_vars
  BY <1>2, ControlInvariant, PTL DEF Spec
<1> QED
  BY <1>3, <1>4, PTL
=============================================================================
