--------------------------- MODULE BoundedChannel ---------------------------
(***************************************************************************)
(* What week-9/pc.c promises, without threads, locks or a ring: a first-in *)
(* first-out channel of capacity max.  One sender sends the values         *)
(* 0 .. loops-1 followed by one end marker per consumer; any consumer may  *)
(* take the next value, and a consumer that has taken an end marker takes  *)
(* nothing more.  The k-th value ever sent is Value(k), so the contents of *)
(* the channel are determined by how many values went in and came out.     *)
(***************************************************************************)
EXTENDS Integers

CONSTANTS max,        \* capacity of the channel
          loops,      \* how many data values are sent
          consumers   \* how many receivers there are

VARIABLES sent,       \* how many values were sent so far
          received,   \* how many values were received so far
          tmp         \* tmp[c]: the value consumer c received last (0 at first)

chanVars == <<sent, received, tmp>>

Consumers == 1 .. consumers

EndMarker == -1

Value(k) == IF k < loops THEN k ELSE EndMarker

Init ==
  /\ sent = 0
  /\ received = 0
  /\ tmp = [c \in Consumers |-> 0]

Send ==
  /\ sent < loops + consumers
  /\ sent - received < max
  /\ sent' = sent + 1
  /\ UNCHANGED <<received, tmp>>

Receive(c) ==
  /\ received < sent
  /\ tmp[c] # EndMarker
  /\ received' = received + 1
  /\ tmp' = [tmp EXCEPT ![c] = Value(received)]
  /\ UNCHANGED sent

Next == Send \/ \E c \in Consumers : Receive(c)

Spec == Init /\ [][Next]_chanVars
=============================================================================
