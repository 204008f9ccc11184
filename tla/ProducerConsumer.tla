-------------------------- MODULE ProducerConsumer --------------------------
(***************************************************************************)
(* The producer/consumer program week-9/pc.c: one producer thread, a       *)
(* number of consumer threads, a ring buffer of max slots, one mutex m and *)
(* two condition variables (empty: the producer waits on it; fill: the     *)
(* consumers wait on it).  Every interleaving of the threads between two   *)
(* pthread calls is a behaviour.                                           *)
(*                                                                         *)
(* Abstractions.  printf and sleep are left out (sleep inside the critical *)
(* section only delays a thread).  The assert around every pthread call    *)
(* is taken to succeed.  The two loops of the producer (41-52 and 56-63)   *)
(* run the same statements on another value, so they share their actions,  *)
(* and n counts the rounds of both.  A thread woken from Cond_wait         *)
(* competes for m exactly like a thread about to call Mutex_lock, and both *)
(* evaluate the while condition next, so they share the label "lock".      *)
(***************************************************************************)
EXTENDS Integers, FiniteSets

CONSTANTS max,           \* size of the ring buffer (argv[1])
          loops,         \* how many values are produced (argv[2])
          consumers,     \* how many consumer threads there are (argv[3])
          MaxSpurious    \* bound: how often Cond_wait returns without a signal

ASSUME ParameterAssumption ==
  /\ max \in Nat \ {0}
  /\ loops \in Nat
  /\ consumers \in Nat \ {0}
  /\ MaxSpurious \in Nat

Producer == 0
Consumers == 1 .. consumers
Threads == 0 .. consumers
Nobody == -1               \* the owner of a free mutex
EndMarker == -1

VARIABLES
  buffer, fill_ptr, use_ptr, num_full,   \* the ring
  m,         \* which thread holds the mutex, or Nobody
  pc,        \* pc[t]: what thread t does next
  n,         \* rounds the producer has finished, in both of its loops
  tmp,       \* tmp[c]: the local variable of consumer c
  created,   \* how many threads main has created: producer, then consumers
  joined,    \* how many threads main has joined, in the same order
  spurious   \* spurious wake-ups so far (bounded by MaxSpurious)

vars == <<buffer, fill_ptr, use_ptr, num_full, m, pc, n, tmp,
          created, joined, spurious>>

ringVars == <<buffer, fill_ptr, use_ptr, num_full>>
mainVars == <<created, joined>>

\* "wait" is being asleep inside Cond_wait; the labels of Critical are those
\* at which a thread holds m.
Labels == {"unborn", "lock", "test", "wait", "access", "signal", "unlock", "done"}
Critical == {"test", "access", "signal", "unlock"}

Value(k) == IF k < loops THEN k ELSE EndMarker
Rounds == loops + consumers

Goto(t, label) == pc' = [pc EXCEPT ![t] = label]

-----------------------------------------------------------------------------
Init ==
  /\ buffer = [i \in 0 .. max - 1 |-> 0]
  /\ fill_ptr = 0
  /\ use_ptr = 0
  /\ num_full = 0
  /\ m = Nobody
  /\ pc = [t \in Threads |-> "unborn"]
  /\ n = 0
  /\ tmp = [c \in Consumers |-> 0]
  /\ created = 0
  /\ joined = 0
  /\ spurious = 0

\* main: Pthread_create, the producer first.
Create ==
  /\ created < consumers + 1
  /\ created' = created + 1
  /\ Goto(created, "lock")
  /\ UNCHANGED <<ringVars, m, n, tmp, joined, spurious>>

\* main: Pthread_join, in the order of creation, once every thread is created.
Join ==
  /\ created = consumers + 1
  /\ joined < created
  /\ pc[joined] = "done"
  /\ joined' = joined + 1
  /\ UNCHANGED <<ringVars, m, pc, n, tmp, created, spurious>>

\* main has joined every thread and returned.
Exited ==
  /\ joined = consumers + 1
  /\ UNCHANGED vars

-----------------------------------------------------------------------------
\* Mutant of Lock: the mutex excludes nobody.
LockRacy(t) ==
  /\ pc[t] = "lock"
  /\ m' = t
  /\ Goto(t, "test")
  /\ UNCHANGED <<ringVars, n, tmp, mainVars, spurious>>

\* Mutex_lock, and the part of Cond_wait that takes m back after a wake-up.
Lock(t) ==
  /\ pc[t] = "lock"
  /\ m = Nobody
  /\ m' = t
  /\ Goto(t, "test")
  /\ UNCHANGED <<ringVars, n, tmp, mainVars, spurious>>

\* Cond_wait releases m and goes to sleep in one step.
Wait(t) ==
  /\ m' = Nobody
  /\ Goto(t, "wait")
  /\ UNCHANGED <<ringVars, n, tmp, mainVars, spurious>>

Proceed(t) ==
  /\ Goto(t, "access")
  /\ UNCHANGED <<ringVars, m, n, tmp, mainVars, spurious>>

\* Cond_wait may return although nobody signalled.
SpuriousWake(t) ==
  /\ pc[t] = "wait"
  /\ spurious < MaxSpurious
  /\ spurious' = spurious + 1
  /\ Goto(t, "lock")
  /\ UNCHANGED <<ringVars, m, n, tmp, mainVars>>

-----------------------------------------------------------------------------
\* The producer: while (num_full == max) Cond_wait(&empty, &m).
PTest ==
  /\ pc[Producer] = "test"
  /\ \/ num_full = max /\ Wait(Producer)
     \/ num_full # max /\ Proceed(Producer)

\* Mutant of DoFill: fill_ptr is incremented without "% max".
DoFillNoWrap(v) ==
  /\ buffer' = [buffer EXCEPT ![fill_ptr] = v]
  /\ fill_ptr' = fill_ptr + 1
  /\ num_full' = num_full + 1
  /\ UNCHANGED use_ptr

\* Mutant of DoFill: fill_ptr moves before the value is stored.
DoFillLate(v) ==
  /\ buffer' = [buffer EXCEPT ![(fill_ptr + 1) % max] = v]
  /\ fill_ptr' = (fill_ptr + 1) % max
  /\ num_full' = num_full + 1
  /\ UNCHANGED use_ptr

\* do_fill(i) in the first loop, do_fill(-1) in the second.
DoFill(v) ==
  /\ buffer' = [buffer EXCEPT ![fill_ptr] = v]
  /\ fill_ptr' = (fill_ptr + 1) % max
  /\ num_full' = num_full + 1
  /\ UNCHANGED use_ptr

PFill ==
  /\ pc[Producer] = "access"
  /\ DoFill(Value(n))
  /\ Goto(Producer, "signal")
  /\ UNCHANGED <<m, n, tmp, mainVars, spurious>>

Sleepers == {c \in Consumers : pc[c] = "wait"}

\* Cond_signal(&fill): wakes one of the consumers waiting on fill, if any.
PSignal ==
  /\ pc[Producer] = "signal"
  /\ \/ /\ Sleepers = {}
        /\ Goto(Producer, "unlock")
     \/ \E c \in Sleepers :
          pc' = [pc EXCEPT ![Producer] = "unlock", ![c] = "lock"]
  /\ UNCHANGED <<ringVars, m, n, tmp, mainVars, spurious>>

\* The end of a producer round: n rounds are finished, last are enough.
UnlockUntil(last) ==
  /\ pc[Producer] = "unlock"
  /\ m' = Nobody
  /\ n' = n + 1
  /\ Goto(Producer, IF n + 1 < last THEN "lock" ELSE "done")
  /\ UNCHANGED <<ringVars, tmp, mainVars, spurious>>

\* Mutants of PUnlock: one end marker for all consumers; one too many.
PUnlockOneMarker == UnlockUntil(loops + 1)
PUnlockExtraMarker == UnlockUntil(Rounds + 1)

\* Mutex_unlock, and the tests of the two for loops.
PUnlock == UnlockUntil(Rounds)

-----------------------------------------------------------------------------
\* A consumer: while (num_full == 0) Cond_wait(&fill, &m).
CTest(c) ==
  /\ pc[c] = "test"
  /\ \/ num_full = 0 /\ Wait(c)
     \/ num_full # 0 /\ Proceed(c)

\* tmp = do_get().
CGet(c) ==
  /\ pc[c] = "access"
  /\ tmp' = [tmp EXCEPT ![c] = buffer[use_ptr]]
  /\ use_ptr' = (use_ptr + 1) % max
  /\ num_full' = num_full - 1
  /\ Goto(c, "signal")
  /\ UNCHANGED <<buffer, fill_ptr, m, n, mainVars, spurious>>

\* Mutant of CSignal: it signals fill, the condition consumers wait on.
CSignalFill(c) ==
  /\ pc[c] = "signal"
  /\ \/ /\ Sleepers = {}
        /\ Goto(c, "unlock")
     \/ \E d \in Sleepers :
          pc' = [pc EXCEPT ![c] = "unlock", ![d] = "lock"]
  /\ UNCHANGED <<ringVars, m, n, tmp, mainVars, spurious>>

\* Cond_signal(&empty): only the producer ever waits on empty.
CSignal(c) ==
  /\ pc[c] = "signal"
  /\ pc' = [pc EXCEPT ![c] = "unlock",
                      ![Producer] = IF @ = "wait" THEN "lock" ELSE @]
  /\ UNCHANGED <<ringVars, m, n, tmp, mainVars, spurious>>

\* Mutant of CUnlock: while (1).
CUnlockForever(c) ==
  /\ pc[c] = "unlock"
  /\ m' = Nobody
  /\ Goto(c, "lock")
  /\ UNCHANGED <<ringVars, n, tmp, mainVars, spurious>>

\* Mutex_unlock, and the test of while (tmp != -1) for the next round.
CUnlock(c) ==
  /\ pc[c] = "unlock"
  /\ m' = Nobody
  /\ Goto(c, IF tmp[c] # EndMarker THEN "lock" ELSE "done")
  /\ UNCHANGED <<ringVars, n, tmp, mainVars, spurious>>

-----------------------------------------------------------------------------
ProducerStep == Lock(Producer) \/ PTest \/ PFill \/ PSignal \/ PUnlock

ConsumerStep(c) == Lock(c) \/ CTest(c) \/ CGet(c) \/ CSignal(c) \/ CUnlock(c)

MainStep == Create \/ Join

Next ==
  \/ MainStep
  \/ ProducerStep
  \/ \E c \in Consumers : ConsumerStep(c)
  \/ \E t \in Threads : SpuriousWake(t)
  \/ Exited

Spec == Init /\ [][Next]_vars

\* Every thread that can go on goes on: the kernel schedules runnable threads,
\* and hands a mutex that stays free to some thread that wants it.  Nothing
\* obliges a condition variable to wake up spuriously.
Fairness ==
  /\ WF_vars(MainStep)
  /\ WF_vars(ProducerStep)
  /\ \A c \in Consumers : WF_vars(ConsumerStep(c))

FairSpec == Spec /\ Fairness

-----------------------------------------------------------------------------
\* How many values do_fill has put into the ring, and do_get taken out of it.
Puts == n + (IF pc[Producer] \in {"signal", "unlock"} THEN 1 ELSE 0)
Gets == Puts - num_full

\* The slot that holds the j-th oldest value.
Slot(j) == IF use_ptr + j < max THEN use_ptr + j ELSE use_ptr + j - max

Awake == {c \in Consumers : pc[c] \in {"lock", "test", "access"}}
Marked == {c \in Consumers : tmp[c] = EndMarker}

\* The type of every variable of pc.c's shared and per-thread state.
TypeOK ==
  /\ buffer \in [0 .. max - 1 -> Int]
  /\ fill_ptr \in 0 .. max - 1
  /\ use_ptr \in 0 .. max - 1
  /\ num_full \in 0 .. max
  /\ m \in Threads \cup {Nobody}
  /\ pc \in [Threads -> Labels]
  /\ n \in 0 .. Rounds
  /\ tmp \in [Consumers -> Int]
  /\ created \in 0 .. consumers + 1
  /\ joined \in 0 .. consumers + 1
  /\ spurious \in 0 .. MaxSpurious

\* The ring holds exactly the values put and not yet taken, oldest first, in
\* the slots from use_ptr on, and fill_ptr is the slot after the youngest:
\* nothing is overwritten before it is consumed, lost, or consumed twice.
RingFIFO ==
  /\ Gets >= 0
  /\ fill_ptr = Slot(num_full)
  /\ \A j \in 0 .. num_full - 1 : buffer[Slot(j)] = Value(Gets + j)

\* No wake-up of the producer is lost: it sleeps only while the ring is full or
\* while the consumer that made room is about to signal empty.
ProducerWakeup ==
  pc[Producer] = "wait" =>
    num_full = max \/ \E c \in Consumers : pc[c] = "signal"

\* No wake-up of a consumer is lost: while some consumer sleeps, every value in
\* the ring has an awake consumer of its own that will take it, or is the value
\* the producer is about to signal.
ConsumerWakeup ==
  Sleepers # {} =>
    num_full <= Cardinality(Awake)
                  + (IF pc[Producer] = "signal" THEN 1 ELSE 0)

\* No wake-up is lost, on either condition variable, although each signal wakes
\* at most one thread and is forgotten when nobody sleeps.
NoLostWakeup == ProducerWakeup /\ ConsumerWakeup

\* End markers are neither shared nor lost: after all data values were taken,
\* each further value taken has ended exactly one more consumer, and no
\* consumer has an end marker while data is left.
MarkerAccounting ==
  Cardinality(Marked) = IF Gets > loops THEN Gets - loops ELSE 0

\* When main returns, every value and every marker went through the ring,
\* nothing is left in it, m is free and every consumer saw its marker.
CleanExit ==
  joined = consumers + 1 =>
    /\ Gets = Rounds
    /\ num_full = 0
    /\ m = Nobody
    /\ Marked = Consumers

\* The program always finishes: nobody waits forever on a condition variable,
\* and main joins every thread.
Termination == <>(joined = consumers + 1)

\* pc.c implements the bounded channel: putting a value into the ring sends
\* it, taking it out receives it, and no other step changes the channel.
Channel == INSTANCE BoundedChannel WITH sent <- Puts, received <- Gets
ImplementsChannel == Channel!Spec
=============================================================================
