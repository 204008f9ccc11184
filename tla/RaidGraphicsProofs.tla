------------------------- MODULE RaidGraphicsProofs -------------------------
(***************************************************************************)
(* Proofs about the simulator of lecture-15/raid-graphics.py: its          *)
(* inductive invariant, and what follows from it.                          *)
(***************************************************************************)
EXTENDS RaidShareProofs, WellFoundedInduction

\* The shares of request i that have been read or written, and those that are
\* being read or written now.
DidIO(i, op) == {k \in Shares(mapping) : <<op, request_queue[i].disks[k]>> \in ios[i]}
Did(i) == [op \in Ops |-> DidIO(i, op)]

Serves(d, i, op) ==
  disk_state[d] # "NULL" /\ current_target[d] = i /\ current_optype[d] = op
DoingIO(i, op) == {k \in Shares(mapping) : Serves(request_queue[i].disks[k], i, op)}
Doing(i) == [op \in Ops |-> DoingIO(i, op)]

Begun(i) == \E op \in Ops : DidIO(i, op) \cup DoingIO(i, op) # {}

OverSet == {i \in Queue : Over(mapping, request_queue[i], Did(i))}

\* What is set at start.
QueueInv ==
  /\ mapping \in Mappings
  /\ seek_speed \in {1, 2, 4, 5, 10, 20}
  /\ window_option \in (Nat \ {0}) \cup {-1}
  /\ Len(request_queue) \in Nat /\ Queue = 1 .. Len(request_queue)
  /\ \A i \in Queue :
       /\ IsRequest(mapping, request_queue[i])
       /\ request_queue[i].disks = PhysDisks(mapping, request_queue[i].addr)
       /\ request_queue[i].offset = PhysOffset(mapping, request_queue[i].addr)

\* The requests: the status list follows the I/Os, and every I/O is one of the
\* request's.
ShareInv ==
  /\ DOMAIN status = Queue /\ DOMAIN ios = Queue
  /\ \A i \in Queue :
       /\ StatusOK(mapping, request_queue[i], status[i], Did(i), Doing(i))
       /\ \A io \in ios[i] :
            \E op \in Ops, k \in Shares(mapping) : io = <<op, request_queue[i].disks[k]>>

\* The disks: one that is busy works for a request that has it.
DiskInv ==
  /\ disk_state \in [DiskIds -> DiskStates]
  /\ current_target \in [DiskIds -> Queue \cup {NoRequest}]
  /\ last_target \in [DiskIds -> Queue \cup {NoRequest}]
  /\ current_optype \in [DiskIds -> {Read, Write, "none"}]
  /\ \A d \in DiskIds :
       disk_state[d] # "NULL" =>
         /\ current_target[d] \in Queue
         /\ current_optype[d] \in Ops
         /\ \E k \in Shares(mapping) : request_queue[current_target[d]].disks[k] = d

\* The heads: they stand at multiples of the speed, and a seeking head moves
\* towards its row.
HeadInv ==
  /\ head \in [DiskIds -> Nat] /\ seek_delta \in [DiskIds -> Int]
  /\ transfer_count \in [DiskIds -> -1 .. 10]
  /\ \A d \in DiskIds :
       /\ head[d] % seek_speed = 0
       /\ disk_state[d] = "SEEK" =>
            LET row == RowHeight * request_queue[current_target[d]].offset
            IN /\ head[d] < row => seek_delta[d] = seek_speed
               /\ head[d] > row => seek_delta[d] = - seek_speed

\* The clock and the times of the requests.
TimeInv ==
  /\ timer \in 0 .. MaxTimer /\ latency_total \in Nat /\ underway_ticks \in Nat
  /\ start_time \in [Queue -> -1 .. MaxTimer]
  /\ \A i \in Queue : /\ start_time[i] <= timer
                      /\ start_time[i] # -1 <=> Begun(i)

\* The handlers: each callback and the handler that runs go back to a key.
ControlInv ==
  /\ do_animate \in BOOLEAN /\ is_done \in BOOLEAN
  /\ starts \in Nat /\ callbacks \in Nat
  /\ ctl \in {"none", "enter", "check", "schedule", "animate", "exited"}
  /\ callbacks + (IF ctl \in {"none", "exited"} THEN 0 ELSE 1) <= starts
  /\ caller \in {"Start", "Animate"}
  /\ adisk \in 0 .. disk_count /\ sdisk \in DiskIds
  /\ ctl \in {"check", "schedule"} /\ caller = "Animate" => adisk < disk_count

\* The counters, and the window that grows with the requests done.
CountInv ==
  /\ request_count \in Nat
  /\ logical_requests = Cardinality(OverSet)
  /\ window = IF window_option = -1 THEN -1 ELSE window_option + logical_requests
  /\ \A i \in Queue : Begun(i) => window = -1 \/ i <= window
  /\ count_reads \in [DiskIds -> Nat] /\ count_writes \in [DiskIds -> Nat]
  /\ request_queue_counts \in [Queue -> Nat]

Inv == QueueInv /\ ShareInv /\ DiskInv /\ HeadInv /\ TimeInv /\ ControlInv /\ CountInv
-----------------------------------------------------------------------------
\* Of the requests a disk could start, one comes first.
LEMMA FirstStartable ==
  ASSUME QueueInv, NEW d, Startable(d) # {}
  PROVE  /\ NextRequest(d) \in Startable(d)
         /\ \A j \in Startable(d) : NextRequest(d) <= j
<1>1. Startable(d) \subseteq Nat
  BY DEF QueueInv, Queue, Startable
<1>2. PICK i \in Startable(d) : \A j \in Startable(d) : ~ (<<j, i>> \in OpToRel(<, Nat))
  BY <1>1, WFMin, NatLessThanWellFounded
<1>3. \A j \in Startable(d) : i <= j
  <2>1. OpToRel(<, Nat) = {ss \in Nat \X Nat : ss[1] < ss[2]}
    BY Zenon DEF OpToRel
  <2>2. ASSUME NEW j \in Startable(d) PROVE i <= j
    <3>1. i \in Nat /\ j \in Nat /\ ~ (<<j, i>> \in {ss \in Nat \X Nat : ss[1] < ss[2]})
      BY <1>1, <1>2, <2>1
    <3> QED
      BY <3>1
  <2> QED
    BY <2>2
<1> QED
  BY <1>3 DEF NextRequest

\* The schedulers and the completions, without their CASE.
LEMMA OffersAre ==
  ASSUME mapping \in Mappings, NEW i, NEW d
  PROVE  Offers(i, d) = OffersOf(mapping, request_queue[i], status[i], d)
<1>1. /\ mapping = 0 \/ mapping = 1 \/ mapping = 4 \/ mapping = 5
      /\ 0 # 1 /\ 0 # 4 /\ 0 # 5 /\ 1 # 4 /\ 1 # 5 /\ 4 # 5
      /\ 1 # 0 /\ 4 # 0 /\ 5 # 0 /\ 4 # 1 /\ 5 # 1 /\ 5 # 4
  BY DEF Mappings
<1> QED
  BY <1>1, Zenon DEF Offers, OffersOf

LEMMA CompletionIs ==
  ASSUME QueueInv, NEW i \in Queue, NEW k \in Shares(mapping)
  PROVE  Completion(i, request_queue[i].disks[k])
           = CompletionOf(mapping, request_queue[i], status[i], k)
<1> DEFINE r == request_queue[i]
           j == CHOOSE j \in DOMAIN r.disks : r.disks[j] = r.disks[k]
<1>1. mapping \in Mappings /\ IsRequest(mapping, r)
  BY DEF QueueInv
<1>2. j = k
  BY <1>1 DEF IsRequest, Shares
<1>3. /\ mapping = 0 \/ mapping = 1 \/ mapping \in {4, 5}
      /\ 0 # 1 /\ 1 # 0 /\ 0 \notin {4, 5} /\ 1 \notin {4, 5}
  BY <1>1 DEF Mappings
<1>4. Completion(i, r.disks[k]) =
        CASE mapping = 0 -> RequestLevel0Done(r, status[i], j)
          [] mapping = 1 -> RequestLevel1Done(r, status[i], j)
          [] mapping \in {4, 5} -> RequestLevel4Done(r, status[i], j)
  BY Zenon DEF Completion
<1> HIDE DEF j
<1> QED
  BY <1>2, <1>3, <1>4, Zenon DEF CompletionOf

\* Nothing has begun at first.
LEMMA InitInv == Init => Inv
<1> SUFFICES ASSUME Init PROVE Inv
  OBVIOUS
<1>1. PICK in \in Inputs :
        /\ mapping = in.mapping
        /\ request_queue = Requests(in.mapping, in.addr)
        /\ seek_speed = in.seek_speed
        /\ window_option = in.window
        /\ window = in.window
        /\ status = [i \in DOMAIN in.addr |->
                   [k \in DOMAIN PhysDisks(in.mapping, in.addr[i].addr) |-> "NOT_STARTED"]]
        /\ request_queue_counts = [i \in DOMAIN in.addr |-> 0]
        /\ start_time = [i \in DOMAIN in.addr |-> -1]
        /\ ios = [i \in DOMAIN in.addr |-> {}]
  BY DEF Init
<1>2. /\ in.mapping \in Mappings
      /\ in.addr \in Seq([op : {Read, Write}, addr : Nat])
      /\ in.window \in (Nat \ {0}) \cup {-1}
      /\ in.seek_speed \in {1, 2, 4, 5, 10, 20}
  BY InputAssumption DEF Mappings
<1>3. QueueInv /\ Queue = DOMAIN in.addr
  <2>1. DOMAIN in.addr = 1 .. Len(in.addr) /\ Len(in.addr) \in Nat
    BY <1>2
  <2>2. /\ Queue = DOMAIN in.addr
        /\ Len(request_queue) = Len(in.addr)
        /\ \A i \in DOMAIN in.addr :
             /\ IsRequest(mapping, request_queue[i])
             /\ request_queue[i].addr = in.addr[i].addr
             /\ request_queue[i].disks = PhysDisks(mapping, in.addr[i].addr)
             /\ request_queue[i].offset = PhysOffset(mapping, in.addr[i].addr)
    <3>1. mapping \in Mappings /\ request_queue = Requests(mapping, in.addr)
      BY <1>1, <1>2
    <3>2. /\ DOMAIN request_queue = DOMAIN in.addr
          /\ Len(request_queue) = Len(in.addr)
          /\ \A i \in DOMAIN in.addr :
               /\ IsRequest(mapping, request_queue[i])
               /\ request_queue[i].addr = in.addr[i].addr
               /\ request_queue[i].disks = PhysDisks(mapping, in.addr[i].addr)
               /\ request_queue[i].offset = PhysOffset(mapping, in.addr[i].addr)
      <4> HIDE DEF Queue
      <4>1. in.addr \in Seq([op : {Read, Write}, addr : Nat])
        BY <1>2
      <4> QED
        BY <3>1, <4>1, RequestsOK
    <3> QED
      BY <3>2 DEF Queue
  <2> QED
    BY <1>1, <1>2, <2>1, <2>2 DEF QueueInv
<1>4. /\ disk_state = [d \in DiskIds |-> "NULL"]
      /\ current_target = [d \in DiskIds |-> NoRequest]
      /\ last_target = [d \in DiskIds |-> NoRequest]
      /\ current_optype = [d \in DiskIds |-> "none"]
  BY DEF Init
<1>5. \A i \in Queue : DOMAIN request_queue[i].disks = Shares(mapping)
                       /\ \A k \in Shares(mapping) : request_queue[i].disks[k] \in DiskIds
  BY <1>3 DEF QueueInv, IsRequest
<1>6. \A i \in Queue : /\ \A op \in Ops : Did(i)[op] = {} /\ Doing(i)[op] = {}
                       /\ Did(i) \in [Ops -> SUBSET Shares(mapping)]
                       /\ Doing(i) \in [Ops -> SUBSET Shares(mapping)]
                       /\ ~ Begun(i)
  BY <1>1, <1>3, <1>4, <1>5 DEF Did, DidIO, Doing, DoingIO, Serves, Begun
<1>7. ShareInv
  <2>1. DOMAIN status = Queue /\ DOMAIN ios = Queue /\ \A i \in Queue : ios[i] = {}
    BY <1>1, <1>3
  <2>2. ASSUME NEW i \in Queue
        PROVE  StatusOK(mapping, request_queue[i], status[i], Did(i), Doing(i))
    <3> DEFINE r == request_queue[i]
    <3>1. IsRequest(mapping, r) /\ r.disks = PhysDisks(mapping, in.addr[i].addr)
      BY <1>1, <1>2, <1>3, RequestsOK DEF QueueInv
    <3>2. status[i] = [k \in Shares(mapping) |-> "NOT_STARTED"]
      BY <1>1, <1>3, <1>5, <3>1
    <3>3. r.op \in Ops /\ Read \in Ops /\ Write \in Ops /\ Other(r.op) \in Ops
      BY <3>1 DEF IsRequest, Ops, Other
    <3>4. \A op \in Ops : Did(i)[op] = {} /\ Doing(i)[op] = {}
      BY <1>6
    <3>5. Kind(mapping, r) = "update" => Shares(mapping) = {1, 2}
      BY DEF Kind, Shares
    <3>6. 1 \in Shares(mapping) /\ (mapping # 0 => 2 \in Shares(mapping))
      BY DEF Shares
    <3>7. "NOT_STARTED" \in Statuses
      BY DEF Statuses
    <3> HIDE DEF r
    <3> QED
      BY <1>6, <3>2, <3>3, <3>4, <3>5, <3>6, <3>7 DEF StatusOK, r
  <2> QED
    BY <2>1, <2>2 DEF ShareInv
<1>8. DiskInv
  BY <1>4 DEF DiskInv, DiskStates
<1>9. HeadInv
  <2>1. /\ head = [d \in DiskIds |-> 0] /\ seek_delta = [d \in DiskIds |-> 0]
        /\ transfer_count = [d \in DiskIds |-> -1]
    BY DEF Init
  <2>2. 0 % seek_speed = 0
    BY <1>3 DEF QueueInv
  <2> QED
    BY <1>4, <2>1, <2>2 DEF HeadInv
<1>10. TimeInv
  <2>1. timer = 0 /\ latency_total = 0 /\ underway_ticks = 0
    BY DEF Init
  <2> QED
    BY <1>1, <1>3, <1>6, <2>1, InputAssumption DEF TimeInv
<1>11. ControlInv
  <2>1. /\ do_animate = TRUE /\ is_done = FALSE /\ callbacks = 0 /\ ctl = "none"
        /\ caller = "Start" /\ adisk = 0 /\ sdisk = 0 /\ starts = 0
    BY DEF Init
  <2> QED
    <3>1. callbacks + (IF ctl \in {"none", "exited"} THEN 0 ELSE 1) <= starts
      BY <2>1
    <3>2. adisk \in 0 .. disk_count /\ sdisk \in DiskIds
      BY <2>1 DEF DiskIds, disk_count
    <3> QED
      BY <2>1, <3>1, <3>2 DEF ControlInv
<1>12. CountInv
  <2>1. OverSet = {}
    BY <1>3, <1>6 DEF OverSet, Over, Ops, QueueInv, IsRequest
  <2>2. Cardinality(OverSet) = 0
    BY <2>1, FS_EmptySet
  <2>3. /\ request_count = 0 /\ logical_requests = 0
        /\ count_reads = [d \in DiskIds |-> 0] /\ count_writes = [d \in DiskIds |-> 0]
    BY DEF Init
  <2> QED
    BY <1>1, <1>2, <1>3, <1>6, <2>2, <2>3 DEF CountInv
<1> QED
  BY <1>3, <1>7, <1>8, <1>9, <1>10, <1>11, <1>12 DEF Inv
-----------------------------------------------------------------------------
(***************************************************************************)
(* The steps.  Only the start and the end of an I/O change what has been   *)
(* done for a request.                                                     *)
(***************************************************************************)
QuietStep ==
  /\ UNCHANGED <<inputVars, status, current_target, current_optype, ios>>
  /\ \A d \in DiskIds : disk_state'[d] = "NULL" <=> disk_state[d] = "NULL"

LEMMA QuietShares ==
  ASSUME Inv, QuietStep
  PROVE  /\ QueueInv' /\ ShareInv' /\ Queue' = Queue
         /\ OverSet' = OverSet
         /\ \A i \in Queue : Begun(i)' <=> Begun(i)
<1>1. UNCHANGED <<mapping, request_queue, seek_speed, window_option, status,
                  current_target, current_optype, ios>>
  BY DEF QuietStep, inputVars
<1>2. QueueInv' /\ Queue' = Queue
  BY <1>1 DEF Inv, QueueInv, Queue
<1>3. ASSUME NEW i \in Queue
      PROVE  Did(i)' = Did(i) /\ Doing(i)' = Doing(i)
  <2>1. \A k \in Shares(mapping) : request_queue[i].disks[k] \in DiskIds
    BY DEF Inv, QueueInv, IsRequest
  <2>2. ASSUME NEW op PROVE DidIO(i, op)' = DidIO(i, op)
    BY <1>1 DEF DidIO
  <2>3. ASSUME NEW op PROVE DoingIO(i, op)' = DoingIO(i, op)
    BY <1>1, <2>1 DEF DoingIO, Serves, QuietStep
  <2> QED
    BY <2>2, <2>3 DEF Did, Doing
<1>4. ShareInv'
  BY <1>1, <1>2, <1>3 DEF Inv, ShareInv
<1>5. OverSet' = OverSet
  BY <1>1, <1>2, <1>3 DEF OverSet
<1>6. ASSUME NEW i \in Queue PROVE Begun(i)' <=> Begun(i)
  <2>1. \A op \in Ops : /\ DidIO(i, op) = Did(i)[op] /\ DidIO(i, op)' = Did(i)'[op]
                        /\ DoingIO(i, op) = Doing(i)[op] /\ DoingIO(i, op)' = Doing(i)'[op]
    BY DEF Did, Doing
  <2> QED
    BY <1>3, <2>1 DEF Begun
<1> QED
  BY <1>2, <1>4, <1>5, <1>6

\* An offer goes to a disk of the request.
LEMMA OffersToOwnDisks ==
  ASSUME NEW m \in Mappings, NEW r, IsRequest(m, r), NEW st, NEW d,
         OffersOf(m, r, st, d) # {}
  PROVE  \E k \in Shares(m) : r.disks[k] = d
<1>1. \E S : Positions(r, st, d, S) # {}
  <2>1. CASE m = 0
    BY <2>1 DEF OffersOf, DoStripeScheduling
  <2>2. CASE m = 1
    BY <2>2 DEF OffersOf, DoMirrorScheduling
  <2>3. CASE m \in {4, 5}
    BY <2>3 DEF OffersOf, DoRaid4Scheduling, DoRaid5Scheduling, ParityRead,
                FullStripeWrite, SmallWrite
  <2> QED
    BY <2>1, <2>2, <2>3 DEF Mappings
<1> QED
  BY <1>1 DEF Positions, IsRequest

\* The start of an I/O.
LEMMA StartEffect ==
  ASSUME Inv, NEW d \in DiskIds, disk_state[d] = "NULL", NEW i \in Queue,
         NEW offer \in Offers(i, d), StartRequest(d, i, offer),
         UNCHANGED <<inputVars, ios>>
  PROVE  \E k \in Shares(mapping) :
           /\ request_queue[i].disks[k] = d
           /\ offer \in OffersOf(mapping, request_queue[i], status[i], d)
           /\ offer.op \in Ops
           /\ k \notin Did(i)[offer.op] \cup Doing(i)[offer.op]
           /\ Kind(mapping, request_queue[i]) # "update" => offer.op = request_queue[i].op
           /\ Kind(mapping, request_queue[i]) = "either" => ~ Begun(i)
           /\ Kind(mapping, request_queue[i]) = "update" /\ offer.op = Write =>
                Did(i)[Read] = {1, 2}
           /\ i \notin OverSet
           /\ QueueInv' /\ Queue' = Queue /\ ShareInv' /\ OverSet' = OverSet
           /\ \A j \in Queue : Did(j)' = Did(j)
           /\ Doing(i)' = With(Doing(i), offer.op, k)
           /\ \A j \in Queue \ {i} : Doing(j)' = Doing(j)
<1> DEFINE r == request_queue[i]
           m == mapping
<1>1. /\ m \in Mappings /\ IsRequest(m, r)
      /\ \A j \in Queue : IsRequest(m, request_queue[j])
  BY DEF Inv, QueueInv
<1>2. offer \in OffersOf(m, r, status[i], d)
  BY <1>1, OffersAre
<1>3. PICK k \in Shares(m) : r.disks[k] = d
  BY <1>1, <1>2, OffersToOwnDisks
<1>4. StatusOK(m, r, status[i], Did(i), Doing(i))
  BY DEF Inv, ShareInv
<1>5. /\ offer.op \in Ops /\ k \notin Did(i)[offer.op] \cup Doing(i)[offer.op]
      /\ StatusOK(m, r, offer.status, Did(i), With(Doing(i), offer.op, k))
      /\ Kind(m, r) # "update" => offer.op = r.op
      /\ Kind(m, r) = "either" => Did(i)[r.op] \cup Doing(i)[r.op] = {}
      /\ Kind(m, r) = "update" /\ offer.op = Write => Did(i)[Read] = {1, 2}
      /\ ~ Over(m, r, Did(i))
  BY <1>1, <1>2, <1>3, <1>4, StartShare
<1>6. /\ UNCHANGED <<mapping, request_queue, seek_speed, window_option, ios>>
      /\ status' = [status EXCEPT ![i] = offer.status]
      /\ current_optype' = [current_optype EXCEPT ![d] = offer.op]
      /\ disk_state' = [disk_state EXCEPT ![d] = "SEEK"]
      /\ current_target' = [current_target EXCEPT ![d] = i]
  BY DEF inputVars, StartRequest
<1>7. QueueInv' /\ Queue' = Queue
  BY <1>6 DEF Inv, QueueInv, Queue
<1>8. \A j \in Queue : Did(j)' = Did(j)
  BY <1>6 DEF Did, DidIO
<1>9. /\ disk_state \in [DiskIds -> DiskStates]
      /\ current_target \in [DiskIds -> Queue \cup {NoRequest}]
      /\ current_optype \in [DiskIds -> {Read, Write, "none"}]
      /\ DOMAIN status = Queue
  BY DEF Inv, DiskInv, ShareInv
<1>10. ASSUME NEW x \in DiskIds, NEW j \in Queue, NEW op \in Ops
       PROVE  /\ x = d => (Serves(x, j, op)' <=> j = i /\ op = offer.op)
              /\ x # d => (Serves(x, j, op)' <=> Serves(x, j, op))
  <2>1. CASE x = d
    BY <1>6, <1>9, <2>1 DEF Serves
  <2>2. CASE x # d
    BY <1>6, <1>9, <2>2 DEF Serves
  <2> QED
    BY <2>1, <2>2
<1>11. ASSUME NEW j \in Queue \ {i} PROVE Doing(j)' = Doing(j)
  <2>1. \A x \in Shares(m) : request_queue[j].disks[x] \in DiskIds
    BY <1>1 DEF IsRequest
  <2>2. \A x \in Shares(m), op \in Ops :
           Serves(request_queue[j].disks[x], j, op)' <=> Serves(request_queue[j].disks[x], j, op)
    <3> SUFFICES ASSUME NEW x \in Shares(m), NEW op \in Ops
                 PROVE  Serves(request_queue[j].disks[x], j, op)'
                          <=> Serves(request_queue[j].disks[x], j, op)
      OBVIOUS
    <3> DEFINE y == request_queue[j].disks[x]
    <3>1. y \in DiskIds /\ y' = y
      BY <1>6, <2>1
    <3>2. ~ Serves(d, j, op)
      BY DEF Serves
    <3> QED
      BY <1>10, <3>1, <3>2
  <2> QED
    BY <1>6, <2>2 DEF Doing, DoingIO
<1>12. Doing(i)' = With(Doing(i), offer.op, k)
  <2>1. \A x \in Shares(m) : r.disks[x] \in DiskIds /\ (r.disks[x] = d <=> x = k)
    BY <1>1, <1>3 DEF IsRequest, Shares
  <2>2. ASSUME NEW op \in Ops
        PROVE  DoingIO(i, op)' = IF op = offer.op THEN DoingIO(i, op) \cup {k} ELSE DoingIO(i, op)
    <3>1. ASSUME NEW x \in Shares(m)
          PROVE  x \in DoingIO(i, op)' <=> (x = k /\ op = offer.op) \/ x \in DoingIO(i, op)
      <4>1. x \in DoingIO(i, op) <=> Serves(r.disks[x], i, op)
        BY DEF DoingIO
      <4>2. x \in DoingIO(i, op)' <=> Serves(r.disks[x], i, op)'
        BY <1>6 DEF DoingIO
      <4>3. CASE x = k
        <5>1. r.disks[x] = d /\ r.disks'[x] = d /\ ~ Serves(d, i, op)
          BY <1>3, <1>6, <4>3 DEF Serves
        <5> QED
          BY <1>10, <4>1, <4>2, <4>3, <5>1
      <4>4. CASE x # k
        <5>1. r.disks[x] \in DiskIds /\ r.disks[x] # d /\ r.disks'[x] = r.disks[x]
          BY <1>6, <2>1, <4>4
        <5> QED
          BY <1>10, <4>1, <4>2, <4>4, <5>1
      <4> QED
        BY <4>3, <4>4
    <3>2. DoingIO(i, op)' \subseteq Shares(m) /\ DoingIO(i, op) \subseteq Shares(m)
      BY <1>6 DEF DoingIO
    <3> QED
      BY <3>1, <3>2
  <2>3. /\ Doing(i) = [op \in Ops |-> DoingIO(i, op)]
        /\ Doing(i)' = [op \in Ops |-> DoingIO(i, op)']
    BY DEF Doing
  <2> QED
    BY <1>5, <2>2, <2>3 DEF With
<1>13. ShareInv'
  <2>1. DOMAIN status' = Queue' /\ DOMAIN ios' = Queue'
    BY <1>6, <1>7, <1>9 DEF Inv, ShareInv
  <2>2. ASSUME NEW j \in Queue
        PROVE  StatusOK(m, request_queue[j], status'[j], Did(j)', Doing(j)')
    <3>1. CASE j = i
      <4>1. status'[i] = offer.status
        BY <1>6, <1>9
      <4> QED
        BY <1>5, <1>8, <1>12, <3>1, <4>1
    <3>2. CASE j # i
      <4>1. status'[j] = status[j]
        BY <1>6, <1>9, <3>2
      <4> QED
        BY <1>8, <1>11, <3>2, <4>1 DEF Inv, ShareInv
    <3> QED
      BY <3>1, <3>2
  <2>3. \A j \in Queue : \A io \in ios'[j] :
            \E op \in Ops, x \in Shares(m) : io = <<op, request_queue[j].disks[x]>>
    BY <1>6 DEF Inv, ShareInv
  <2> QED
    BY <1>6, <1>7, <2>1, <2>2, <2>3 DEF ShareInv
<1>14. OverSet' = OverSet /\ i \notin OverSet
  BY <1>5, <1>6, <1>7, <1>8 DEF OverSet
<1>15. Kind(m, r) = "either" => ~ Begun(i)
  <2>1. ASSUME Kind(m, r) = "either", NEW op \in Ops
        PROVE  Did(i)[op] \cup Doing(i)[op] = {}
    <3>1. Did(i)[Other(r.op)] = {} /\ Doing(i)[Other(r.op)] = {}
      BY <1>4, <2>1 DEF StatusOK
    <3>2. op = r.op \/ op = Other(r.op)
      BY <1>1 DEF Ops, Other, IsRequest
    <3> QED
      BY <1>5, <2>1, <3>1, <3>2
  <2> QED
    BY <2>1 DEF Begun, Did, Doing
<1> QED
  BY <1>2, <1>3, <1>5, <1>7, <1>8, <1>11, <1>12, <1>13, <1>14, <1>15

\* The end of an I/O: disk d has finished share k of request i.
FinishesShare(d, i, op, k) ==
  /\ d = adisk /\ i = current_target[d] /\ op = current_optype[d]
  /\ request_queue[i].disks[k] = d
  /\ k \in Doing(i)[op] /\ k \notin Did(i)[op]
  /\ <<op, d>> \notin ios[i] /\ ios' = [ios EXCEPT ![i] = @ \cup {<<op, d>>}]
  /\ ~ Over(mapping, request_queue[i], Did(i))
  /\ Completion(i, d).done <=> Over(mapping, request_queue[i], Did(i)')
  /\ OverSet' = IF Completion(i, d).done THEN OverSet \cup {i} ELSE OverSet
  /\ Did(i)' = With(Did(i), op, k) /\ Doing(i)' = Without(Doing(i), op, k)
  /\ \A j \in Queue \ {i} : Did(j)' = Did(j) /\ Doing(j)' = Doing(j)

LEMMA FinishEffect ==
  ASSUME Inv, FinishIO
  PROVE  /\ QueueInv' /\ Queue' = Queue /\ ShareInv'
         /\ \E d \in DiskIds, i \in Queue, op \in Ops, k \in Shares(mapping) :
              FinishesShare(d, i, op, k)
<1> SUFFICES ASSUME NEW d, d = adisk, NEW i, i = current_target[d],
                    NEW op, op = current_optype[d]
             PROVE  /\ d \in DiskIds /\ i \in Queue /\ op \in Ops
                    /\ QueueInv' /\ Queue' = Queue /\ ShareInv'
                    /\ \E k \in Shares(mapping) : FinishesShare(d, i, op, k)
  OBVIOUS
<1> DEFINE r == request_queue[i]
           m == mapping
           end == Completion(i, d)
<1>1. /\ m \in Mappings
      /\ \A j \in Queue : IsRequest(m, request_queue[j])
  BY DEF Inv, QueueInv
<1>2. d \in DiskIds /\ disk_state[d] # "NULL"
  BY DEF FinishIO, Inv, ControlInv, DiskIds, disk_count
<1>3. i \in Queue /\ op \in Ops /\ \E k \in Shares(m) : r.disks[k] = d
  BY <1>2 DEF Inv, DiskInv
<1>4. PICK k \in Shares(m) : r.disks[k] = d
  BY <1>3
<1>5. k \in Doing(i)[op]
  BY <1>2, <1>3, <1>4 DEF Doing, DoingIO, Serves
<1>6. StatusOK(m, r, status[i], Did(i), Doing(i))
  BY <1>3 DEF Inv, ShareInv
<1>7. end = CompletionOf(m, r, status[i], k)
  BY <1>3, <1>4, CompletionIs DEF Inv
<1>8. IsRequest(m, r)
  BY <1>1, <1>3
<1> HIDE DEF end
<1>9. /\ k \notin Did(i)[op]
      /\ StatusOK(m, r, end.status, With(Did(i), op, k), Without(Doing(i), op, k))
      /\ end.done <=> Over(m, r, With(Did(i), op, k))
      /\ ~ Over(m, r, Did(i))
  BY <1>1, <1>3, <1>5, <1>6, <1>7, <1>8, FinishShare
<1>10. /\ UNCHANGED <<mapping, request_queue, seek_speed, window_option,
                      current_target, current_optype>>
       /\ status' = [status EXCEPT ![i] = end.status]
       /\ ios' = [ios EXCEPT ![i] = @ \cup {<<op, d>>}]
       /\ disk_state' = [disk_state EXCEPT ![d] = "NULL"]
  BY DEF FinishIO, inputVars, targetVars, end
<1>11. QueueInv' /\ Queue' = Queue
  BY <1>10 DEF Inv, QueueInv, Queue
<1>12. /\ disk_state \in [DiskIds -> DiskStates]
       /\ DOMAIN status = Queue /\ DOMAIN ios = Queue
  BY DEF Inv, DiskInv, ShareInv
<1>13. \A x \in Shares(m) : r.disks[x] \in DiskIds /\ (r.disks[x] = d <=> x = k)
  BY <1>4, <1>8 DEF IsRequest, Shares
<1>14. ASSUME NEW j \in Queue \ {i} PROVE Did(j)' = Did(j) /\ Doing(j)' = Doing(j)
  <2>1. ios'[j] = ios[j]
    BY <1>10, <1>12
  <2>2. ASSUME NEW x \in Shares(m), NEW o \in Ops
        PROVE  Serves(request_queue[j].disks[x], j, o)' <=> Serves(request_queue[j].disks[x], j, o)
    <3> DEFINE y == request_queue[j].disks[x]
    <3>1. y \in DiskIds /\ y' = y
      BY <1>1, <1>10 DEF IsRequest
    <3>2. CASE y = d
      BY <1>10, <1>12, <3>1, <3>2 DEF Serves
    <3>3. CASE y # d
      BY <1>10, <1>12, <3>1, <3>3 DEF Serves
    <3> QED
      BY <3>2, <3>3
  <2>3. Did(j)' = Did(j)
    BY <1>10, <2>1 DEF Did, DidIO
  <2>4. Doing(j)' = Doing(j)
    BY <1>10, <2>2 DEF Doing, DoingIO
  <2> QED
    BY <2>3, <2>4
<1>15. ios'[i] = ios[i] \cup {<<op, d>>}
  BY <1>3, <1>10, <1>12
<1>16. Did(i)' = With(Did(i), op, k)
  <2>1. ASSUME NEW o \in Ops
        PROVE  DidIO(i, o)' = IF o = op THEN DidIO(i, o) \cup {k} ELSE DidIO(i, o)
    <3>1. DidIO(i, o)' = {x \in Shares(m) : <<o, r.disks[x]>> \in ios'[i]}
      BY <1>10 DEF DidIO
    <3>2. DidIO(i, o) = {x \in Shares(m) : <<o, r.disks[x]>> \in ios[i]}
      BY DEF DidIO
    <3>3. \A x \in Shares(m) : <<o, r.disks[x]>> = <<op, d>> <=> o = op /\ x = k
      BY <1>13
    <3> QED
      BY <1>15, <3>1, <3>2, <3>3
  <2>2. /\ Did(i) = [o \in Ops |-> DidIO(i, o)]
        /\ Did(i)' = [o \in Ops |-> DidIO(i, o)']
    BY DEF Did
  <2>3. \A o \in Ops : Did(i)'[o] = IF o = op THEN Did(i)[o] \cup {k} ELSE Did(i)[o]
    BY <2>1, <2>2
  <2>4. Did(i) = [o \in Ops |-> Did(i)[o]] /\ Did(i)' = [o \in Ops |-> Did(i)'[o]]
    BY <2>2
  <2> QED
    BY <1>3, <2>3, <2>4 DEF With
<1>17. Doing(i)' = Without(Doing(i), op, k)
  <2>1. ASSUME NEW o \in Ops
        PROVE  DoingIO(i, o)' = IF o = op THEN DoingIO(i, o) \ {k} ELSE DoingIO(i, o)
    <3>1. ASSUME NEW x \in Shares(m)
          PROVE  x \in DoingIO(i, o)' <=> x \in DoingIO(i, o) /\ ~ (o = op /\ x = k)
      <4>1. x \in DoingIO(i, o) <=> Serves(r.disks[x], i, o)
        BY DEF DoingIO
      <4>2. x \in DoingIO(i, o)' <=> Serves(r.disks[x], i, o)'
        BY <1>10 DEF DoingIO
      <4>3. r.disks[x] \in DiskIds /\ r.disks'[x] = r.disks[x]
        BY <1>10, <1>13
      <4>4. CASE x = k
        BY <1>10, <1>12, <1>13, <4>1, <4>2, <4>3, <4>4 DEF Serves
      <4>5. CASE x # k
        <5>1. r.disks[x] # d
          BY <1>13, <4>5
        <5> QED
          BY <1>10, <1>12, <4>1, <4>2, <4>3, <4>5, <5>1 DEF Serves
      <4> QED
        BY <4>4, <4>5
    <3>2. DoingIO(i, o)' \subseteq Shares(m) /\ DoingIO(i, o) \subseteq Shares(m)
      BY <1>10 DEF DoingIO
    <3> QED
      BY <3>1, <3>2
  <2>2. /\ Doing(i) = [o \in Ops |-> DoingIO(i, o)]
        /\ Doing(i)' = [o \in Ops |-> DoingIO(i, o)']
    BY DEF Doing
  <2>3. \A o \in Ops : Doing(i)'[o] = IF o = op THEN Doing(i)[o] \ {k} ELSE Doing(i)[o]
    BY <2>1, <2>2
  <2>4. Doing(i) = [o \in Ops |-> Doing(i)[o]] /\ Doing(i)' = [o \in Ops |-> Doing(i)'[o]]
    BY <2>2
  <2> QED
    BY <1>3, <2>3, <2>4 DEF Without
<1>18. ShareInv'
  <2>1. DOMAIN status' = Queue' /\ DOMAIN ios' = Queue'
    BY <1>10, <1>11, <1>12
  <2>2. ASSUME NEW j \in Queue
        PROVE  StatusOK(m, request_queue[j], status'[j], Did(j)', Doing(j)')
    <3>1. CASE j = i
      <4>1. status'[i] = end.status
        BY <1>3, <1>10, <1>12
      <4> QED
        BY <1>9, <1>16, <1>17, <3>1, <4>1
    <3>2. CASE j # i
      <4>1. status'[j] = status[j]
        BY <1>10, <1>12, <3>2
      <4> QED
        BY <1>14, <3>2, <4>1 DEF Inv, ShareInv
    <3> QED
      BY <3>1, <3>2
  <2>3. ASSUME NEW j \in Queue, NEW io \in ios'[j]
        PROVE  \E o \in Ops, x \in Shares(m) : io = <<o, request_queue[j].disks[x]>>
    <3>1. CASE io \in ios[j]
      BY <3>1 DEF Inv, ShareInv
    <3>2. CASE io \notin ios[j]
      <4>1. j = i /\ io = <<op, d>>
        BY <1>10, <1>12, <2>3, <3>2
      <4> QED
        BY <1>3, <1>4, <4>1
    <3> QED
      BY <3>1, <3>2
  <2> QED
    BY <1>10, <1>11, <2>1, <2>2, <2>3 DEF ShareInv
<1>19. end.done <=> Over(m, r, Did(i)')
  BY <1>9, <1>16
<1>20. OverSet' = IF end.done THEN OverSet \cup {i} ELSE OverSet
  <2>1. OverSet' = {j \in Queue : Over(m, request_queue[j], Did(j)')}
    BY <1>10, <1>11 DEF OverSet
  <2>2. \A j \in Queue \ {i} :
          Over(m, request_queue[j], Did(j)') <=> Over(m, request_queue[j], Did(j))
    BY <1>14
  <2>3. \A j \in Queue : Over(m, request_queue[j], Did(j)') <=>
          (j # i /\ Over(m, request_queue[j], Did(j))) \/ (j = i /\ end.done)
    BY <1>19, <2>2
  <2>4. i \notin OverSet
    BY <1>9 DEF OverSet
  <2> QED
    BY <1>3, <2>1, <2>3, <2>4 DEF OverSet
<1>21. <<op, d>> \notin ios[i]
  BY <1>3, <1>4, <1>9 DEF Did, DidIO
<1> QED
  BY <1>2, <1>3, <1>4, <1>5, <1>9, <1>10, <1>11, <1>14, <1>16, <1>17, <1>18, <1>19, <1>20,
     <1>21 DEF end, FinishesShare

\* Disk d starts the share that request i offers it.
Starts(d, i, offer) ==
  /\ ctl = "schedule" /\ d = sdisk
  /\ disk_state[d] = "NULL"
  /\ i = NextRequest(d) /\ i \in Startable(d)
  /\ offer \in Offers(i, d)
  /\ StartRequest(d, i, offer)
  /\ UNCHANGED <<inputVars, motionVars, countVars, clockVars, guiVars, caller, keyVars>>

LEMMA ScheduleCases ==
  ASSUME Inv, ScheduleDisk
  PROVE  \/ UNCHANGED <<inputVars, status, disk_state, targetVars, motionVars, countVars, clockVars>>
         \/ \E d \in DiskIds, i \in Queue : \E offer \in Offers(i, d) : Starts(d, i, offer)
<1>1. CASE disk_state[sdisk] = "NULL" /\ Startable(sdisk) # {}
  <2>1. PICK offer \in Offers(NextRequest(sdisk), sdisk) :
          StartRequest(sdisk, NextRequest(sdisk), offer)
    BY <1>1 DEF ScheduleDisk
  <2>2. NextRequest(sdisk) \in Startable(sdisk) /\ sdisk \in DiskIds
    BY <1>1, FirstStartable DEF Inv, ControlInv
  <2>3. NextRequest(sdisk) \in Queue
    BY <2>2 DEF Startable, Queue
  <2>4. Starts(sdisk, NextRequest(sdisk), offer)
    BY <1>1, <2>1, <2>2 DEF Starts, ScheduleDisk
  <2> QED
    BY <2>2, <2>3, <2>4
<1>2. CASE ~ (disk_state[sdisk] = "NULL" /\ Startable(sdisk) # {})
  BY <1>2 DEF ScheduleDisk
<1> QED
  BY <1>1, <1>2

\* The other actions leave the I/Os alone.
QuietAction ==
  \/ UNCHANGED vars
  \/ Start \/ Pause \/ Exit \/ Tick
  \/ CheckDone \/ CheckNotDone \/ AnimatePaused \/ AdvanceClock \/ IdleDisk \/ MoveHead
  \/ Transfer \/ EndAnimate

LEMMA QuietActions ==
  ASSUME Inv, QuietAction
  PROVE  QuietStep
<1>1. CASE UNCHANGED vars
  BY <1>1 DEF vars, QuietStep, targetVars, countVars
<1>2. CASE Start \/ Pause \/ Exit \/ Tick
  BY <1>2 DEF Start, Pause, Exit, Tick, QuietStep, targetVars, countVars
<1>3. CASE CheckDone \/ CheckNotDone \/ AnimatePaused \/ AdvanceClock \/ IdleDisk \/ EndAnimate
  BY <1>3 DEF CheckDone, CheckNotDone, AnimatePaused, AdvanceClock, IdleDisk, EndAnimate,
              QuietStep, targetVars, countVars
<1>4. CASE MoveHead
  BY <1>4 DEF MoveHead, QuietStep, targetVars, countVars
<1>5. CASE Transfer
  <2>1. /\ disk_state' = [disk_state EXCEPT ![adisk] = "XFER"]
        /\ disk_state[adisk] # "NULL"
    BY <1>5 DEF Transfer
  <2>2. disk_state \in [DiskIds -> DiskStates]
    BY DEF Inv, DiskInv
  <2>3. \A d \in DiskIds : disk_state'[d] = "NULL" <=> disk_state[d] = "NULL"
    BY <2>1, <2>2
  <2> QED
    BY <1>5, <2>3 DEF Transfer, QuietStep, targetVars, countVars
<1> QED
  BY <1>1, <1>2, <1>3, <1>4, <1>5 DEF QuietAction

\* Every step is the start of an I/O, the end of one, or leaves the I/Os alone.
LEMMA StepCases ==
  ASSUME Inv, [Next]_vars
  PROVE  \/ QuietStep
         \/ \E d \in DiskIds, i \in Queue : \E offer \in Offers(i, d) : Starts(d, i, offer)
         \/ FinishIO
<1>1. CASE QuietAction
  BY <1>1, QuietActions
<1>2. CASE ScheduleDisk
  BY <1>2, ScheduleCases DEF QuietStep, targetVars, countVars
<1> QED
  BY <1>1, <1>2 DEF Next, HandlerStep, QuietAction

\* The requests keep their shares in step.
LEMMA ShareStep ==
  ASSUME Inv, [Next]_vars
  PROVE  QueueInv' /\ ShareInv' /\ Queue' = Queue
<1>1. CASE QuietStep
  BY <1>1, QuietShares
<1>2. CASE \E d \in DiskIds, i \in Queue : \E offer \in Offers(i, d) : Starts(d, i, offer)
  <2>1. PICK d \in DiskIds, i \in Queue : \E offer \in Offers(i, d) : Starts(d, i, offer)
    BY <1>2
  <2>2. PICK offer \in Offers(i, d) : Starts(d, i, offer)
    BY <2>1
  <2>3. disk_state[d] = "NULL" /\ StartRequest(d, i, offer) /\ UNCHANGED <<inputVars, ios>>
    BY <2>2 DEF Starts, countVars
  <2> QED
    BY <2>3, StartEffect
<1>3. CASE FinishIO
  BY <1>3, FinishEffect
<1> QED
  BY <1>1, <1>2, <1>3, StepCases

LEMMA DiskStep ==
  ASSUME Inv, [Next]_vars
  PROVE  DiskInv'
<1>0. /\ Queue' = Queue
      /\ \A i \in Queue : IsRequest(mapping, request_queue[i])
      /\ UNCHANGED <<mapping, request_queue>>
  <2>1. Queue' = Queue
    BY ShareStep
  <2>2. UNCHANGED <<mapping, request_queue>>
    BY DEF Next, HandlerStep, vars, inputVars, Start, Pause, Exit, Tick, CheckDone,
           CheckNotDone, AnimatePaused, AdvanceClock, IdleDisk, EndAnimate, MoveHead, Transfer,
           ScheduleDisk, FinishIO
  <2> QED
    BY <2>1, <2>2 DEF Inv, QueueInv
<1>1. /\ disk_state \in [DiskIds -> DiskStates]
      /\ current_target \in [DiskIds -> Queue \cup {NoRequest}]
      /\ last_target \in [DiskIds -> Queue \cup {NoRequest}]
      /\ current_optype \in [DiskIds -> {Read, Write, "none"}]
      /\ \A d \in DiskIds :
           disk_state[d] # "NULL" =>
             /\ current_target[d] \in Queue
             /\ current_optype[d] \in Ops
             /\ \E k \in Shares(mapping) : request_queue[current_target[d]].disks[k] = d
  BY DEF Inv, DiskInv
<1>2. CASE UNCHANGED <<disk_state, current_target, last_target, current_optype>>
  BY <1>0, <1>1, <1>2 DEF DiskInv
<1>3. CASE Transfer
  <2>1. /\ disk_state' = [disk_state EXCEPT ![adisk] = "XFER"] /\ disk_state[adisk] # "NULL"
        /\ UNCHANGED <<current_target, last_target, current_optype>>
    BY <1>3 DEF Transfer, targetVars
  <2>2. /\ disk_state' \in [DiskIds -> DiskStates]
        /\ \A d \in DiskIds : disk_state'[d] # "NULL" => disk_state[d] # "NULL"
    BY <1>1, <2>1 DEF DiskStates
  <2> QED
    BY <1>0, <1>1, <2>1, <2>2 DEF DiskInv
<1>4. CASE FinishIO
  <2>1. /\ disk_state' = [disk_state EXCEPT ![adisk] = "NULL"]
        /\ UNCHANGED <<current_target, last_target, current_optype>>
    BY <1>4 DEF FinishIO, targetVars
  <2>2. /\ disk_state' \in [DiskIds -> DiskStates]
        /\ \A d \in DiskIds : disk_state'[d] # "NULL" => disk_state[d] # "NULL"
    BY <1>1, <2>1 DEF DiskStates
  <2> QED
    BY <1>0, <1>1, <2>1, <2>2 DEF DiskInv
<1>5. CASE \E d \in DiskIds, i \in Queue : \E offer \in Offers(i, d) : Starts(d, i, offer)
  <2>1. PICK d \in DiskIds, i \in Queue : \E offer \in Offers(i, d) : Starts(d, i, offer)
    BY <1>5
  <2>2. PICK offer \in Offers(i, d) : Starts(d, i, offer)
    BY <2>1
  <2>3. /\ current_optype' = [current_optype EXCEPT ![d] = offer.op]
        /\ disk_state' = [disk_state EXCEPT ![d] = "SEEK"]
        /\ last_target' = [last_target EXCEPT ![d] = current_target[d]]
        /\ current_target' = [current_target EXCEPT ![d] = i]
        /\ disk_state[d] = "NULL" /\ StartRequest(d, i, offer) /\ UNCHANGED <<inputVars, ios>>
    BY <2>2 DEF Starts, StartRequest, countVars
  <2>4. offer.op \in Ops /\ \E k \in Shares(mapping) : request_queue[i].disks[k] = d
    BY <2>3, StartEffect
  <2>5. /\ disk_state' \in [DiskIds -> DiskStates]
        /\ current_target' \in [DiskIds -> Queue \cup {NoRequest}]
        /\ last_target' \in [DiskIds -> Queue \cup {NoRequest}]
        /\ current_optype' \in [DiskIds -> {Read, Write, "none"}]
    BY <1>1, <2>3, <2>4 DEF DiskStates, Ops
  <2>6. ASSUME NEW x \in DiskIds, disk_state'[x] # "NULL"
        PROVE  /\ current_target'[x] \in Queue
               /\ current_optype'[x] \in Ops
               /\ \E k \in Shares(mapping) : request_queue[current_target'[x]].disks[k] = x
    <3>1. CASE x = d
      <4>1. current_target'[x] = i /\ current_optype'[x] = offer.op
        BY <1>1, <2>3, <3>1
      <4> QED
        BY <2>4, <3>1, <4>1
    <3>2. CASE x # d
      <4>1. /\ current_target'[x] = current_target[x] /\ current_optype'[x] = current_optype[x]
            /\ disk_state[x] # "NULL"
        BY <1>1, <2>3, <2>6, <3>2
      <4> QED
        BY <1>1, <4>1
    <3> QED
      BY <3>1, <3>2
  <2> QED
    BY <1>0, <2>5, <2>6 DEF DiskInv
<1>6. CASE ScheduleDisk
  BY <1>2, <1>5, <1>6, ScheduleCases DEF targetVars
<1>7. CASE UNCHANGED vars \/ Start \/ Pause \/ Exit \/ Tick \/ CheckDone \/ CheckNotDone
             \/ AnimatePaused \/ AdvanceClock \/ IdleDisk \/ EndAnimate \/ MoveHead
  BY <1>2, <1>7 DEF vars, targetVars, Start, Pause, Exit, Tick, CheckDone, CheckNotDone,
       AnimatePaused, AdvanceClock, IdleDisk, EndAnimate, MoveHead
<1> QED
  BY <1>3, <1>4, <1>6, <1>7 DEF Next, HandlerStep

\* Rows and heads are multiples of the speed apart.
LEMMA Aligned ==
  ASSUME NEW v \in {1, 2, 4, 5, 10, 20}, NEW h \in Nat, h % v = 0, NEW o \in Nat
  PROVE  /\ h < RowHeight * o => /\ h + v <= RowHeight * o /\ h + v \in Nat
                                /\ (h + v) % v = 0
         /\ h > RowHeight * o => /\ h - v >= RowHeight * o /\ h - v \in Nat
                                /\ (h - v) % v = 0
<1>0. RowHeight = 20
  BY DEF RowHeight
<1>1. CASE v = 1
  BY <1>0, <1>1
<1>2. CASE v = 2
  BY <1>0, <1>2
<1>3. CASE v = 4
  BY <1>0, <1>3
<1>4. CASE v = 5
  BY <1>0, <1>4
<1>5. CASE v = 10
  BY <1>0, <1>5
<1>6. CASE v = 20
  BY <1>0, <1>6
<1> QED
  BY <1>1, <1>2, <1>3, <1>4, <1>5, <1>6

\* The row disk d seeks, and the step of a head, which the invariant keeps in
\* its direction.
Row(d) == RowHeight * request_queue[current_target[d]].offset

LEMMA Seeking ==
  ASSUME Inv, NEW d \in DiskIds, disk_state[d] = "SEEK"
  PROVE  /\ head[d] \in Nat /\ head[d] % seek_speed = 0
         /\ current_target[d] \in Queue
         /\ request_queue[current_target[d]].offset \in Nat /\ Row(d) \in Nat
         /\ seek_speed \in {1, 2, 4, 5, 10, 20}
         /\ head[d] < Row(d) => seek_delta[d] = seek_speed
         /\ head[d] > Row(d) => seek_delta[d] = - seek_speed
<1>1. current_target[d] \in Queue
  BY DEF Inv, DiskInv
<1>2. request_queue[current_target[d]].offset \in Nat
  BY <1>1 DEF Inv, QueueInv, IsRequest
<1>3. Row(d) \in Nat
  BY <1>2 DEF Row, RowHeight
<1> QED
  BY <1>1, <1>2, <1>3 DEF Inv, HeadInv, QueueInv, Row

\* Where a moving head goes.
LEMMA HeadMoves ==
  ASSUME Inv, MoveHead, NEW d, d = adisk
  PROVE  /\ d \in DiskIds /\ disk_state[d] = "SEEK"
         /\ head' = [head EXCEPT ![d] = head[d] + seek_delta[d]]
         /\ UNCHANGED <<inputVars, disk_state, transfer_count, targetVars>>
         /\ head'[d] \in Nat /\ head'[d] % seek_speed = 0
         /\ \/ head[d] < Row(d) /\ head[d] < head'[d] /\ head'[d] <= Row(d)
            \/ head[d] > Row(d) /\ head[d] > head'[d] /\ head'[d] >= Row(d)
<1>1. /\ d \in DiskIds /\ disk_state[d] = "SEEK" /\ head[d] # Row(d)
      /\ head' = [head EXCEPT ![d] = head[d] + seek_delta[d]]
      /\ UNCHANGED <<inputVars, disk_state, transfer_count, targetVars>>
  BY DEF MoveHead, Inv, ControlInv, DiskIds, disk_count, OnTarget, Row
<1>2. head \in [DiskIds -> Nat]
  BY DEF Inv, HeadInv
<1>3. /\ head[d] \in Nat /\ head[d] % seek_speed = 0 /\ Row(d) \in Nat
      /\ request_queue[current_target[d]].offset \in Nat
      /\ seek_speed \in {1, 2, 4, 5, 10, 20}
      /\ head[d] < Row(d) => seek_delta[d] = seek_speed
      /\ head[d] > Row(d) => seek_delta[d] = - seek_speed
  BY <1>1, Seeking
<1>4. head'[d] = head[d] + seek_delta[d]
  BY <1>1, <1>2
<1>5. CASE head[d] < Row(d)
  <2>1. /\ head[d] + seek_speed <= Row(d) /\ head[d] + seek_speed \in Nat
        /\ (head[d] + seek_speed) % seek_speed = 0
    <3> DEFINE o == request_queue[current_target[d]].offset
    <3>1. Row(d) = RowHeight * o
      BY DEF Row
    <3>2. o \in Nat /\ head[d] < RowHeight * o
      BY <1>3, <1>5, <3>1
    <3> HIDE DEF o
    <3> QED
      BY <1>3, <3>1, <3>2, Aligned
  <2>2. head'[d] = head[d] + seek_speed
    BY <1>3, <1>4, <1>5
  <2>3. head[d] < head'[d]
    BY <1>3, <2>2
  <2> QED
    BY <1>1, <1>5, <2>1, <2>2, <2>3
<1>6. CASE head[d] > Row(d)
  <2>1. /\ head[d] - seek_speed >= Row(d) /\ head[d] - seek_speed \in Nat
        /\ (head[d] - seek_speed) % seek_speed = 0
    <3> DEFINE o == request_queue[current_target[d]].offset
    <3>1. Row(d) = RowHeight * o
      BY DEF Row
    <3>2. o \in Nat /\ head[d] > RowHeight * o
      BY <1>3, <1>6, <3>1
    <3> HIDE DEF o
    <3> QED
      BY <1>3, <3>1, <3>2, Aligned
  <2>2. head'[d] = head[d] - seek_speed
    BY <1>3, <1>4, <1>6
  <2>3. head[d] > head'[d]
    BY <1>3, <2>2
  <2> QED
    BY <1>1, <1>6, <2>1, <2>2, <2>3
<1>7. head[d] < Row(d) \/ head[d] > Row(d)
  BY <1>1, <1>3
<1> QED
  BY <1>5, <1>6, <1>7

LEMMA HeadStep ==
  ASSUME Inv, [Next]_vars
  PROVE  HeadInv'
<1>0. UNCHANGED <<mapping, request_queue, seek_speed>>
  BY DEF Next, HandlerStep, vars, inputVars, Start, Pause, Exit, Tick, CheckDone,
         CheckNotDone, AnimatePaused, AdvanceClock, IdleDisk, EndAnimate, MoveHead, Transfer,
         ScheduleDisk, FinishIO
<1>1. /\ head \in [DiskIds -> Nat] /\ seek_delta \in [DiskIds -> Int]
      /\ transfer_count \in [DiskIds -> -1 .. 10]
      /\ \A d \in DiskIds :
           /\ head[d] % seek_speed = 0
           /\ disk_state[d] = "SEEK" =>
                /\ head[d] < Row(d) => seek_delta[d] = seek_speed
                /\ head[d] > Row(d) => seek_delta[d] = - seek_speed
  BY DEF Inv, HeadInv, Row
<1>2. SUFFICES
      /\ head' \in [DiskIds -> Nat] /\ seek_delta' \in [DiskIds -> Int]
      /\ transfer_count' \in [DiskIds -> -1 .. 10]
      /\ \A d \in DiskIds :
           /\ head'[d] % seek_speed = 0
           /\ disk_state'[d] = "SEEK" =>
                /\ head'[d] < Row(d)' => seek_delta'[d] = seek_speed
                /\ head'[d] > Row(d)' => seek_delta'[d] = - seek_speed
  BY <1>0 DEF HeadInv, Row
<1>3. CASE UNCHANGED <<head, seek_delta, transfer_count, disk_state, current_target>>
  BY <1>0, <1>1, <1>3 DEF Row
<1>4. ASSUME Transfer \/ FinishIO, NEW c \in -1 .. 10,
             transfer_count' = [transfer_count EXCEPT ![adisk] = c]
      PROVE  HeadInv'
  <2>1. /\ UNCHANGED <<head, seek_delta, current_target>>
        /\ disk_state[adisk] # "NULL"
        /\ \/ disk_state' = [disk_state EXCEPT ![adisk] = "XFER"]
           \/ disk_state' = [disk_state EXCEPT ![adisk] = "NULL"]
    BY <1>4 DEF Transfer, FinishIO, targetVars
  <2>2. disk_state \in [DiskIds -> DiskStates]
    BY DEF Inv, DiskInv
  <2>3. \A d \in DiskIds : disk_state'[d] = "SEEK" => disk_state[d] = "SEEK"
    BY <2>1, <2>2
  <2>4. transfer_count' \in [DiskIds -> -1 .. 10]
    BY <1>1, <1>4
  <2> QED
    BY <1>0, <1>1, <2>1, <2>3, <2>4 DEF Row, HeadInv
<1>5. CASE FinishIO
  <2>1. transfer_count' = [transfer_count EXCEPT ![adisk] = 0]
    BY <1>5 DEF FinishIO
  <2> QED
    BY <1>0, <1>4, <1>5, <2>1 DEF HeadInv, Row
<1>6. CASE Transfer
  <2>1. transfer_count' = [transfer_count EXCEPT ![adisk] = TicksLeft(adisk) - 1]
        /\ TicksLeft(adisk) > 1 /\ adisk \in DiskIds
    BY <1>6 DEF Transfer, Inv, ControlInv, DiskIds, disk_count
  <2>2. TransferTime(adisk) \in {1, 10}
    BY DEF TransferTime
  <2>3. TicksLeft(adisk) \in {transfer_count[adisk], TransferTime(adisk)}
    <3>1. CASE disk_state[adisk] = "XFER"
      BY <3>1, Zenon DEF TicksLeft
    <3>2. CASE disk_state[adisk] = "SEEK" /\ OnTarget(adisk)
      <4>1. disk_state[adisk] # "XFER"
        BY <3>2
      <4> QED
        BY <3>2, <4>1, Zenon DEF TicksLeft
    <3> QED
      BY <1>6, <3>1, <3>2 DEF Transfer
  <2>4. transfer_count[adisk] \in -1 .. 10
    BY <1>1, <2>1
  <2>5. TicksLeft(adisk) - 1 \in -1 .. 10
    BY <2>1, <2>2, <2>3, <2>4
  <2> QED
    BY <1>0, <1>4, <1>6, <2>1, <2>5 DEF HeadInv, Row
<1>7. CASE MoveHead
  <2> DEFINE d == adisk
  <2>1. /\ d \in DiskIds /\ disk_state[d] = "SEEK"
        /\ head' = [head EXCEPT ![d] = head[d] + seek_delta[d]]
        /\ UNCHANGED <<inputVars, disk_state, transfer_count, targetVars>>
        /\ head'[d] \in Nat /\ head'[d] % seek_speed = 0
        /\ \/ head[d] < Row(d) /\ head[d] < head'[d] /\ head'[d] <= Row(d)
           \/ head[d] > Row(d) /\ head[d] > head'[d] /\ head'[d] >= Row(d)
    BY <1>7, HeadMoves
  <2>2. UNCHANGED <<disk_state, transfer_count, seek_delta, current_target>>
    BY <2>1 DEF targetVars
  <2>3. \A x \in DiskIds : x # d => head'[x] = head[x]
    BY <1>1, <2>1
  <2>4. head' \in [DiskIds -> Nat]
    BY <1>1, <2>1, <2>3
  <2>5. \A x \in DiskIds : Row(x)' = Row(x)
    BY <1>0, <2>2 DEF Row
  <2>6. head[d] \in Nat /\ Row(d) \in Nat
    BY <2>1, Seeking
  <2>7. /\ head'[d] < Row(d) => seek_delta[d] = seek_speed
        /\ head'[d] > Row(d) => seek_delta[d] = - seek_speed
    BY <1>1, <2>1, <2>6
  <2> HIDE DEF d
  <2>8. \A x \in DiskIds :
           /\ head'[x] % seek_speed = 0
           /\ disk_state'[x] = "SEEK" =>
                /\ head'[x] < Row(x)' => seek_delta'[x] = seek_speed
                /\ head'[x] > Row(x)' => seek_delta'[x] = - seek_speed
    BY <1>1, <2>1, <2>2, <2>3, <2>5, <2>7
  <2> QED
    BY <1>1, <2>2, <2>4, <2>8
<1>8. CASE \E d \in DiskIds, i \in Queue : \E offer \in Offers(i, d) : Starts(d, i, offer)
  <2>1. PICK d \in DiskIds, i \in Queue : \E offer \in Offers(i, d) : Starts(d, i, offer)
    BY <1>8
  <2>2. PICK offer \in Offers(i, d) : Starts(d, i, offer)
    BY <2>1
  <2>3. /\ disk_state' = [disk_state EXCEPT ![d] = "SEEK"]
        /\ current_target' = [current_target EXCEPT ![d] = i]
        /\ seek_delta' = [seek_delta EXCEPT ![d] = SeekDirection(d, i)]
        /\ UNCHANGED <<head, transfer_count>>
    BY <2>2 DEF Starts, StartRequest, motionVars
  <2>4. disk_state \in [DiskIds -> DiskStates]
        /\ current_target \in [DiskIds -> Queue \cup {NoRequest}]
    BY DEF Inv, DiskInv
  <2>5. seek_speed \in Nat /\ request_queue[i].offset \in Nat /\ head[d] \in Nat
    BY <1>1 DEF Inv, QueueInv, IsRequest
  <2>6. SeekDirection(d, i) = IF head[d] < RowHeight * request_queue[i].offset
                                THEN seek_speed ELSE - seek_speed
    BY DEF SeekDirection
  <2>7. SeekDirection(d, i) \in Int /\ - seek_speed \in Int
    BY <2>5, <2>6
  <2>8. seek_delta' \in [DiskIds -> Int] /\ seek_delta'[d] = SeekDirection(d, i)
    BY <1>1, <2>3, <2>7
  <2>9. /\ Row(d)' = RowHeight * request_queue[i].offset
        /\ \A x \in DiskIds \ {d} : /\ Row(x)' = Row(x) /\ seek_delta'[x] = seek_delta[x]
                                    /\ disk_state'[x] = disk_state[x]
    BY <1>0, <1>1, <2>3, <2>4 DEF Row
  <2>10. RowHeight * request_queue[i].offset \in Nat
    BY <2>5 DEF RowHeight
  <2>11. /\ head'[d] < Row(d)' => seek_delta'[d] = seek_speed
         /\ head'[d] > Row(d)' => seek_delta'[d] = - seek_speed
    BY <2>3, <2>5, <2>6, <2>8, <2>9, <2>10
  <2> QED
    BY <1>1, <2>3, <2>8, <2>9, <2>11
<1>9. CASE ScheduleDisk
  BY <1>3, <1>8, <1>9, ScheduleCases DEF targetVars, motionVars
<1>10. CASE UNCHANGED vars \/ Start \/ Pause \/ Exit \/ Tick \/ CheckDone \/ CheckNotDone
             \/ AnimatePaused \/ AdvanceClock \/ IdleDisk \/ EndAnimate
  BY <1>3, <1>10 DEF vars, targetVars, motionVars, Start, Pause, Exit, Tick, CheckDone,
       CheckNotDone, AnimatePaused, AdvanceClock, IdleDisk, EndAnimate
<1> QED
  BY <1>5, <1>6, <1>7, <1>9, <1>10 DEF Next, HandlerStep

\* What has begun, after the start and after the end of an I/O.
LEMMA BegunIs ==
  ASSUME NEW i
  PROVE  Begun(i) <=> \E op \in Ops : Did(i)[op] \cup Doing(i)[op] # {}
  BY DEF Begun, Did, Doing

LEMMA BegunStart ==
  ASSUME Inv, NEW d \in DiskIds, NEW i \in Queue, NEW offer \in Offers(i, d),
         Starts(d, i, offer)
  PROVE  /\ Begun(i)' /\ \A j \in Queue \ {i} : Begun(j)' <=> Begun(j)
         /\ OverSet' = OverSet
<1>1. /\ disk_state[d] = "NULL" /\ StartRequest(d, i, offer)
      /\ UNCHANGED <<inputVars, ios>>
  BY DEF Starts, countVars
<1>2. PICK k \in Shares(mapping) :
        /\ offer.op \in Ops /\ k \notin Did(i)[offer.op] \cup Doing(i)[offer.op]
        /\ OverSet' = OverSet
        /\ \A j \in Queue : Did(j)' = Did(j)
        /\ Doing(i)' = With(Doing(i), offer.op, k)
        /\ \A j \in Queue \ {i} : Doing(j)' = Doing(j)
  BY <1>1, StartEffect
<1>3. \A j : Begun(j)' <=> \E op \in Ops : Did(j)'[op] \cup Doing(j)'[op] # {}
  BY DEF Begun, Did, Doing
<1>4. k \in Doing(i)'[offer.op]
  BY <1>2 DEF With, Doing
<1> QED
  BY <1>2, <1>3, <1>4, BegunIs

LEMMA BegunFinish ==
  ASSUME Inv, FinishIO
  PROVE  \A j \in Queue : Begun(j)' <=> Begun(j)
<1>1. PICK d \in DiskIds, i \in Queue, op \in Ops, k \in Shares(mapping) :
        FinishesShare(d, i, op, k)
  BY FinishEffect
<1>2. /\ k \in Doing(i)[op]
      /\ Did(i)' = With(Did(i), op, k) /\ Doing(i)' = Without(Doing(i), op, k)
      /\ \A j \in Queue \ {i} : Did(j)' = Did(j) /\ Doing(j)' = Doing(j)
  BY <1>1 DEF FinishesShare
<1>3. \A j : Begun(j)' <=> \E o \in Ops : Did(j)'[o] \cup Doing(j)'[o] # {}
  BY DEF Begun, Did, Doing
<1>4. k \in Did(i)'[op]
  BY <1>1, <1>2 DEF With, Did
<1>5. Begun(i) /\ (\E o \in Ops : Did(i)'[o] \cup Doing(i)'[o] # {})
  BY <1>1, <1>2, <1>4, BegunIs
<1>6. ASSUME NEW j \in Queue PROVE Begun(j)' <=> Begun(j)
  <2>1. CASE j = i
    BY <1>3, <1>5, <2>1
  <2>2. CASE j # i
    BY <1>2, <1>3, <2>2, BegunIs
  <2> QED
    BY <2>1, <2>2
<1> QED
  BY <1>6

LEMMA TimeStep ==
  ASSUME Inv, [Next]_vars
  PROVE  TimeInv'
<1>0. Queue' = Queue
  BY ShareStep
<1>1. /\ timer \in 0 .. MaxTimer /\ latency_total \in Nat /\ underway_ticks \in Nat
      /\ start_time \in [Queue -> -1 .. MaxTimer]
      /\ \A i \in Queue : start_time[i] <= timer /\ (start_time[i] # -1 <=> Begun(i))
      /\ MaxTimer \in Nat
  BY InputAssumption DEF Inv, TimeInv
<1>2. ASSUME UNCHANGED <<timer, latency_total, underway_ticks, start_time>>, QuietStep
      PROVE  TimeInv'
  BY <1>0, <1>1, <1>2, QuietShares DEF TimeInv
<1>3. CASE AdvanceClock
  <2>1. /\ IF timer < MaxTimer
             THEN timer' = timer + 1 /\ underway_ticks' = underway_ticks + Cardinality(Underway)
             ELSE UNCHANGED <<timer, underway_ticks>>
        /\ UNCHANGED <<start_time, latency_total>> /\ QuietStep
    BY <1>3 DEF AdvanceClock, targetVars, countVars, clockVars, QuietStep
  <2>2. IsFiniteSet(Queue)
    BY FS_Interval DEF Inv, QueueInv
  <2>3. Underway \in SUBSET Queue
    BY DEF Underway
  <2>4. Cardinality(Underway) \in Nat
    BY <2>2, <2>3, FS_Subset, FS_CardinalityType
  <2>5. underway_ticks' \in Nat
    BY <1>1, <2>1, <2>4
  <2>6. timer' \in 0 .. MaxTimer /\ timer <= timer'
    BY <1>1, <2>1
  <2>7. \A i \in Queue : start_time[i] <= timer'
    BY <1>1, <2>6
  <2> QED
    BY <1>0, <1>1, <2>1, <2>5, <2>6, <2>7, QuietShares DEF TimeInv
<1>4. CASE FinishIO
  <2>1. /\ UNCHANGED <<timer, underway_ticks, start_time>>
        /\ latency_total' = latency_total
             + (IF Completion(current_target[adisk], adisk).done
                  THEN timer - start_time[current_target[adisk]] ELSE 0)
    BY <1>4 DEF FinishIO, clockVars, targetVars
  <2>2. current_target[adisk] \in Queue
    BY <1>4, FinishEffect DEF FinishesShare
  <2>3. timer - start_time[current_target[adisk]] \in Nat
    BY <1>1, <2>2
  <2>4. latency_total' \in Nat
    BY <1>1, <2>1, <2>3
  <2> QED
    BY <1>0, <1>1, <1>4, <2>1, <2>4, BegunFinish DEF TimeInv
<1>5. CASE \E d \in DiskIds, i \in Queue : \E offer \in Offers(i, d) : Starts(d, i, offer)
  <2>1. PICK d \in DiskIds, i \in Queue : \E offer \in Offers(i, d) : Starts(d, i, offer)
    BY <1>5
  <2>2. PICK offer \in Offers(i, d) : Starts(d, i, offer)
    BY <2>1
  <2>3. /\ start_time' = [start_time EXCEPT ![i] = IF @ = -1 THEN timer ELSE @]
        /\ UNCHANGED <<timer, latency_total, underway_ticks>>
    BY <2>2 DEF Starts, StartRequest, MarkStart, countVars, clockVars
  <2>4. Begun(i)' /\ \A j \in Queue \ {i} : Begun(j)' <=> Begun(j)
    BY <2>2, BegunStart
  <2>5. /\ start_time' \in [Queue -> -1 .. MaxTimer]
        /\ start_time'[i] # -1 /\ start_time'[i] <= timer
        /\ \A j \in Queue \ {i} : start_time'[j] = start_time[j]
    BY <1>1, <2>3
  <2> QED
    BY <1>0, <1>1, <2>3, <2>4, <2>5 DEF TimeInv
<1>6. CASE ScheduleDisk
  BY <1>2, <1>5, <1>6, ScheduleCases DEF targetVars, countVars, clockVars, QuietStep
<1>7. CASE UNCHANGED vars \/ Start \/ Pause \/ Exit \/ Tick \/ CheckDone \/ CheckNotDone
             \/ AnimatePaused \/ IdleDisk \/ EndAnimate \/ MoveHead \/ Transfer
  <2>1. UNCHANGED <<timer, latency_total, underway_ticks, start_time>>
    BY <1>7 DEF vars, targetVars, countVars, clockVars, Start, Pause, Exit, Tick,
         CheckDone, CheckNotDone, AnimatePaused, IdleDisk, EndAnimate, MoveHead, Transfer
  <2>2. QuietStep
    BY <1>7, QuietActions DEF QuietAction
  <2> QED
    BY <1>2, <2>1, <2>2
<1> QED
  BY <1>3, <1>4, <1>6, <1>7 DEF Next, HandlerStep

LEMMA ControlStep ==
  ASSUME Inv, [Next]_vars
  PROVE  ControlInv'
<1>0. disk_count = 4 /\ DiskIds = 0 .. 3
  BY DEF disk_count, DiskIds
<1>1. /\ do_animate \in BOOLEAN /\ is_done \in BOOLEAN
      /\ starts \in Nat /\ callbacks \in Nat
      /\ ctl \in {"none", "enter", "check", "schedule", "animate", "exited"}
      /\ callbacks + (IF ctl \in {"none", "exited"} THEN 0 ELSE 1) <= starts
      /\ caller \in {"Start", "Animate"}
      /\ adisk \in 0 .. 4 /\ sdisk \in 0 .. 3
      /\ ctl \in {"check", "schedule"} /\ caller = "Animate" => adisk < 4
  BY <1>0 DEF Inv, ControlInv
<1>2. SUFFICES
      /\ do_animate' \in BOOLEAN /\ is_done' \in BOOLEAN
      /\ starts' \in Nat /\ callbacks' \in Nat
      /\ ctl' \in {"none", "enter", "check", "schedule", "animate", "exited"}
      /\ callbacks' + (IF ctl' \in {"none", "exited"} THEN 0 ELSE 1) <= starts'
      /\ caller' \in {"Start", "Animate"}
      /\ adisk' \in 0 .. 4 /\ sdisk' \in 0 .. 3
      /\ ctl' \in {"check", "schedule"} /\ caller' = "Animate" => adisk' < 4
  BY <1>0 DEF ControlInv
<1> USE DEF guiVars, ctlVars, keyVars
<1>3. CASE UNCHANGED vars
  BY <1>1, <1>3 DEF vars
<1>4. CASE Start
  BY <1>1, <1>4 DEF Start
<1>5. CASE Pause
  BY <1>1, <1>5 DEF Pause
<1>6. CASE Exit
  BY <1>1, <1>6 DEF Exit
<1>7. CASE Tick
  BY <1>1, <1>7 DEF Tick
<1>8. CASE CheckDone
  <2>1. CASE logical_requests = 0
    BY <1>1, <1>8, <2>1 DEF CheckDone
  <2>2. CASE logical_requests # 0
    <3>1. /\ do_animate' = FALSE /\ is_done' = TRUE /\ ReturnFromGetNextIOs
          /\ ctl = "check" /\ UNCHANGED <<callbacks, caller, sdisk, starts>>
      BY <1>8, <2>2 DEF CheckDone
    <3>2. ctl' \in {"enter", "animate"} /\ adisk' \in 0 .. 4
      BY <1>1, <3>1 DEF ReturnFromGetNextIOs
    <3> QED
      BY <1>1, <3>1, <3>2
  <2> QED
    BY <2>1, <2>2
<1>9. CASE CheckNotDone
  BY <1>1, <1>9 DEF CheckNotDone, FirstDisk
<1>10. CASE ScheduleDisk
  BY <1>0, <1>1, <1>10 DEF ScheduleDisk, ReturnFromGetNextIOs
<1>11. CASE AnimatePaused
  BY <1>1, <1>11 DEF AnimatePaused, AskAgain
<1>12. CASE AdvanceClock
  BY <1>1, <1>12 DEF AdvanceClock
<1>13. CASE IdleDisk \/ MoveHead \/ Transfer
  BY <1>0, <1>1, <1>13 DEF IdleDisk, MoveHead, Transfer, NextDisk
<1>14. CASE FinishIO
  BY <1>0, <1>1, <1>14 DEF FinishIO
<1>15. CASE EndAnimate
  BY <1>1, <1>15 DEF EndAnimate, KeepGoing
<1> QED
  BY <1>3, <1>4, <1>5, <1>6, <1>7, <1>8, <1>9, <1>10, <1>11, <1>12, <1>13, <1>14, <1>15
     DEF Next, HandlerStep

\* The requests that are over are some of the queue.
LEMMA OverSetFinite ==
  ASSUME QueueInv
  PROVE  /\ IsFiniteSet(Queue) /\ Cardinality(Queue) = Len(request_queue)
         /\ IsFiniteSet(OverSet) /\ Cardinality(OverSet) \in 0 .. Len(request_queue)
<1>1. IsFiniteSet(Queue) /\ Cardinality(Queue) = Len(request_queue)
      /\ Len(request_queue) \in Nat
  BY FS_Interval DEF QueueInv
<1>2. OverSet \in SUBSET Queue
  BY DEF OverSet
<1>3. IsFiniteSet(OverSet) /\ Cardinality(OverSet) <= Cardinality(Queue)
  BY <1>1, <1>2, FS_Subset
<1>4. Cardinality(OverSet) \in Nat
  BY <1>3, FS_CardinalityType
<1> QED
  BY <1>1, <1>3, <1>4

LEMMA CountStep ==
  ASSUME Inv, [Next]_vars
  PROVE  CountInv'
<1>0. Queue' = Queue /\ UNCHANGED window_option
  <2>1. UNCHANGED window_option
    BY DEF Next, HandlerStep, vars, inputVars, Start, Pause, Exit, Tick, CheckDone,
           CheckNotDone, AnimatePaused, AdvanceClock, IdleDisk, EndAnimate, MoveHead, Transfer,
           ScheduleDisk, FinishIO
  <2> QED
    BY <2>1, ShareStep
<1>1. /\ request_count \in Nat
      /\ logical_requests = Cardinality(OverSet)
      /\ window = IF window_option = -1 THEN -1 ELSE window_option + logical_requests
      /\ \A i \in Queue : Begun(i) => window = -1 \/ i <= window
      /\ count_reads \in [DiskIds -> Nat] /\ count_writes \in [DiskIds -> Nat]
      /\ request_queue_counts \in [Queue -> Nat]
      /\ window_option \in (Nat \ {0}) \cup {-1}
  BY DEF Inv, CountInv, QueueInv
<1>2. IsFiniteSet(OverSet) /\ Cardinality(OverSet) \in Nat /\ Queue \subseteq Nat
  BY OverSetFinite DEF Inv, QueueInv
<1>3. ASSUME UNCHANGED countVars, UNCHANGED request_queue_counts, QuietStep
      PROVE  CountInv'
  BY <1>0, <1>1, <1>3, QuietShares DEF CountInv, countVars
<1>4. CASE QuietAction
  <2>1. UNCHANGED <<countVars, request_queue_counts>>
    BY <1>4 DEF QuietAction, vars, targetVars, Start, Pause, Exit, Tick, CheckDone,
         CheckNotDone, AnimatePaused, AdvanceClock, IdleDisk, EndAnimate, MoveHead, Transfer
  <2> QED
    BY <1>3, <1>4, <2>1, QuietActions
<1>5. CASE \E d \in DiskIds, i \in Queue : \E offer \in Offers(i, d) : Starts(d, i, offer)
  <2>1. PICK d \in DiskIds, i \in Queue : \E offer \in Offers(i, d) : Starts(d, i, offer)
    BY <1>5
  <2>2. PICK offer \in Offers(i, d) : Starts(d, i, offer)
    BY <2>1
  <2>3. /\ request_queue_counts' = [request_queue_counts EXCEPT ![i] = @ + 1]
        /\ UNCHANGED countVars
        /\ window = -1 \/ i <= window
    BY <2>2 DEF Starts, StartRequest, Startable
  <2>4. (\A j \in Queue \ {i} : Begun(j)' <=> Begun(j)) /\ OverSet' = OverSet
    BY <2>2, BegunStart
  <2>5. request_queue_counts' \in [Queue -> Nat]
    BY <1>1, <2>3
  <2>6. \A j \in Queue : Begun(j)' => window = -1 \/ j <= window
    BY <1>1, <2>3, <2>4
  <2> QED
    BY <1>0, <1>1, <2>3, <2>4, <2>5, <2>6 DEF CountInv, countVars
<1>6. CASE FinishIO
  <2>1. PICK d \in DiskIds, i \in Queue, op \in Ops, k \in Shares(mapping) :
          FinishesShare(d, i, op, k)
    BY <1>6, FinishEffect
  <2> DEFINE done == Completion(i, d).done
  <2>2. /\ d = adisk /\ i = current_target[d]
        /\ OverSet' = IF done THEN OverSet \cup {i} ELSE OverSet
        /\ i \notin OverSet
    BY <2>1 DEF FinishesShare, OverSet
  <2>3. /\ logical_requests' = logical_requests + (IF done THEN 1 ELSE 0)
        /\ window' = WindowAfter(done)
        /\ request_count' = request_count + 1
        /\ UNCHANGED request_queue_counts /\ CountIO(d)
    BY <1>6, <2>2 DEF FinishIO, targetVars
  <2> HIDE DEF done
  <2>4. Cardinality(OverSet') = logical_requests'
    <3>1. Cardinality(OverSet \cup {i}) = Cardinality(OverSet) + 1
      BY <1>2, <2>2, FS_AddElement
    <3>2. CASE done
      <4>1. OverSet' = OverSet \cup {i}
        BY <2>2, <3>2
      <4> QED
        BY <1>1, <2>3, <3>1, <3>2, <4>1
    <3>3. CASE ~ done
      BY <1>1, <1>2, <2>2, <2>3, <3>3
    <3> QED
      BY <3>2, <3>3
  <2>5. /\ window' = IF window_option = -1 THEN -1 ELSE window_option + logical_requests'
        /\ window = -1 => window' = -1
        /\ window # -1 => window \in Nat /\ window' \in Nat /\ window <= window'
    <3>1. CASE window_option = -1
      BY <1>1, <2>3, <3>1 DEF WindowAfter
    <3>2. CASE window_option # -1
      <4>1. window \in Nat /\ window > 0
        BY <1>1, <1>2, <3>2
      <4>2. CASE done
        BY <1>1, <1>2, <2>3, <3>2, <4>1, <4>2 DEF WindowAfter
      <4>3. CASE ~ done
        BY <1>1, <1>2, <2>3, <3>2, <4>1, <4>3 DEF WindowAfter
      <4> QED
        BY <4>2, <4>3
    <3> QED
      BY <3>1, <3>2
  <2>6. \A j \in Queue : Begun(j)' => window' = -1 \/ j <= window'
    <3> SUFFICES ASSUME NEW j \in Queue, Begun(j)'
                 PROVE  window' = -1 \/ j <= window'
      OBVIOUS
    <3>1. window = -1 \/ j <= window
      BY <1>1, <1>6, BegunFinish
    <3>2. CASE window = -1
      BY <2>5, <3>2
    <3>3. CASE window # -1
      BY <1>2, <2>5, <3>1, <3>3
    <3> QED
      BY <3>2, <3>3
  <2>7. count_reads' \in [DiskIds -> Nat] /\ count_writes' \in [DiskIds -> Nat]
    <3> DEFINE read == IF current_optype[d] = Read THEN 1 ELSE 0
    <3>1. /\ count_reads' = [count_reads EXCEPT ![d] = @ + read]
          /\ count_writes' = [count_writes EXCEPT ![d] = @ + 1 - read]
      BY <2>3 DEF CountIO
    <3>2. count_reads[d] + read \in Nat /\ count_writes[d] + 1 - read \in Nat
      BY <1>1
    <3> HIDE DEF read
    <3> QED
      BY <1>1, <3>1, <3>2
  <2> QED
    BY <1>0, <1>1, <2>3, <2>4, <2>5, <2>6, <2>7 DEF CountInv
<1>7. CASE ScheduleDisk
  BY <1>3, <1>5, <1>7, ScheduleCases DEF QuietStep, targetVars, countVars
<1> QED
  BY <1>4, <1>6, <1>7 DEF Next, HandlerStep, QuietAction

LEMMA InvStep == Inv /\ [Next]_vars => Inv'
  BY ShareStep, DiskStep, HeadStep, TimeStep, ControlStep, CountStep DEF Inv

\* The inductive invariant: the status list of every request, the busy disks,
\* the heads, the clock, the handlers and the counters agree.
THEOREM InvAlways == Spec => []Inv
  BY InitInv, InvStep, PTL DEF Spec
-----------------------------------------------------------------------------
(***************************************************************************)
(* What follows from the invariant.                                        *)
(***************************************************************************)
LEMMA InvTypeOK == Inv => TypeOK
<1> SUFFICES ASSUME Inv PROVE TypeOK
  OBVIOUS
<1>1. ASSUME NEW i \in Queue
      PROVE  /\ request_queue[i].disks \in Seq(DiskIds)
             /\ status[i] \in [DOMAIN request_queue[i].disks -> Statuses]
             /\ ios[i] \subseteq {Read, Write} \X DiskIds
  <2>1. /\ mapping \in Mappings /\ IsRequest(mapping, request_queue[i])
        /\ request_queue[i].disks = PhysDisks(mapping, request_queue[i].addr)
    BY DEF Inv, QueueInv
  <2>2. request_queue[i].disks \in Seq(DiskIds)
    BY <2>1, DiskList DEF IsRequest
  <2>3. status[i] \in [Shares(mapping) -> Statuses]
    BY DEF Inv, ShareInv, StatusOK
  <2>4. ios[i] \subseteq {Read, Write} \X DiskIds
    <3> SUFFICES ASSUME NEW io \in ios[i] PROVE io \in {Read, Write} \X DiskIds
      OBVIOUS
    <3>1. PICK op \in Ops, k \in Shares(mapping) : io = <<op, request_queue[i].disks[k]>>
      BY DEF Inv, ShareInv
    <3> QED
      BY <2>1, <3>1 DEF IsRequest, Ops
  <2> QED
    BY <2>1, <2>2, <2>3, <2>4 DEF IsRequest
<1>2. /\ logical_requests \in 0 .. Len(request_queue) /\ request_count \in Nat
      /\ window \in Nat \cup {-1}
      /\ count_reads \in [DiskIds -> Nat] /\ count_writes \in [DiskIds -> Nat]
      /\ request_queue_counts \in [Queue -> Nat]
  <2>1. Cardinality(OverSet) \in 0 .. Len(request_queue) /\ Len(request_queue) \in Nat
    BY OverSetFinite DEF Inv, QueueInv
  <2> QED
    BY <2>1 DEF Inv, CountInv, QueueInv
<1>3. /\ do_animate \in BOOLEAN /\ is_done \in BOOLEAN
      /\ callbacks \in 0 .. starts
      /\ ctl \in {"none", "enter", "check", "schedule", "animate", "exited"}
      /\ adisk \in 0 .. disk_count /\ sdisk \in DiskIds
  BY DEF Inv, ControlInv
<1>4. /\ disk_state \in [DiskIds -> DiskStates]
      /\ current_target \in [DiskIds -> Queue \cup {NoRequest}]
      /\ last_target \in [DiskIds -> Queue \cup {NoRequest}]
      /\ current_optype \in [DiskIds -> {Read, Write, "none"}]
  BY DEF Inv, DiskInv
<1>5. /\ head \in [DiskIds -> Nat] /\ seek_delta \in [DiskIds -> Int]
      /\ transfer_count \in [DiskIds -> -1 .. 10]
  BY DEF Inv, HeadInv
<1>6. /\ start_time \in [Queue -> -1 .. MaxTimer]
      /\ latency_total \in Nat /\ timer \in 0 .. MaxTimer /\ underway_ticks \in Nat
  BY DEF Inv, TimeInv
<1> QED
  BY <1>1, <1>2, <1>3, <1>4, <1>5, <1>6 DEF TypeOK

\* Every variable of the simulator keeps its type, and no handler asks Tk for
\* more callbacks than s was pressed.
THEOREM TypeCorrect == Spec => []TypeOK
  BY InvAlways, InvTypeOK, PTL

\* A seeking head never moves away from its row, nor past it: the speeds divide
\* the height of a row, and every head stands at a multiple of the speed.
THEOREM HeadsApproach == Spec => SeekApproaches
<1> DEFINE Approach ==
      \A d \in DiskIds :
        disk_state[d] = "SEEK" /\ head'[d] # head[d] =>
          LET row == RowHeight * request_queue[current_target[d]].offset
              far(y) == IF y < row THEN row - y ELSE y - row
          IN far(head'[d]) < far(head[d])
<1>1. ASSUME Inv, [Next]_vars PROVE Approach
  <2> SUFFICES ASSUME NEW d \in DiskIds, disk_state[d] = "SEEK", head'[d] # head[d]
               PROVE  LET row == Row(d)
                          far(y) == IF y < row THEN row - y ELSE y - row
                      IN far(head'[d]) < far(head[d])
    BY DEF Row
  <2>1. MoveHead
    BY <1>1 DEF Next, HandlerStep, vars, motionVars, Start, Pause, Exit, Tick, CheckDone,
           CheckNotDone, AnimatePaused, AdvanceClock, IdleDisk, EndAnimate, Transfer,
           ScheduleDisk, FinishIO
  <2>2. head \in [DiskIds -> Nat]
    BY <1>1 DEF Inv, HeadInv
  <2>3. /\ head' = [head EXCEPT ![adisk] = head[adisk] + seek_delta[adisk]]
        /\ head'[adisk] \in Nat
        /\ \/ head[adisk] < Row(adisk) /\ head[adisk] < head'[adisk] /\ head'[adisk] <= Row(adisk)
           \/ head[adisk] > Row(adisk) /\ head[adisk] > head'[adisk] /\ head'[adisk] >= Row(adisk)
    BY <1>1, <2>1, HeadMoves
  <2>4. d = adisk
    BY <2>2, <2>3
  <2>5. Row(d) \in Nat /\ head[d] \in Nat
    BY <1>1, Seeking
  <2> QED
    BY <2>3, <2>4, <2>5
<1> QED
  BY <1>1, InvAlways, PTL DEF Spec, SeekApproaches

\* The I/Os of one request, those of one type on one disk, and the disks at work
\* for a request.
Shown(op, d) == {i \in Queue : <<op, d>> \in ios[i]}
Workers(i) == {d \in DiskIds : disk_state[d] # "NULL" /\ current_target[d] = i}

LEMMA CountersFinite ==
  ASSUME Inv
  PROVE  /\ \A op, d : IsFiniteSet(Shown(op, d)) /\ Cardinality(Shown(op, d)) \in Nat
         /\ \A i : IsFiniteSet(Workers(i)) /\ Cardinality(Workers(i)) \in Nat
         /\ \A i \in Queue : IsFiniteSet(ios[i]) /\ Cardinality(ios[i]) \in Nat
<1>1. IsFiniteSet(Queue)
  BY OverSetFinite DEF Inv
<1>2. IsFiniteSet(DiskIds)
  <2>1. DiskIds = 0 .. 3 /\ 0 \in Int /\ 3 \in Int
    BY DEF DiskIds, disk_count
  <2> QED
    BY <2>1, FS_Interval
<1>3. IsFiniteSet({Read, Write} \X DiskIds)
  <2>1. IsFiniteSet({Read, Write})
    <3>1. IsFiniteSet({Read}) /\ {Read, Write} = {Read} \cup {Write}
      BY FS_Singleton
    <3> QED
      BY <3>1, FS_AddElement
  <2> QED
    BY <1>2, <2>1, FS_Product
<1>4. ASSUME NEW op, NEW d
      PROVE  IsFiniteSet(Shown(op, d)) /\ Cardinality(Shown(op, d)) \in Nat
  <2>1. Shown(op, d) \in SUBSET Queue
    BY DEF Shown
  <2> QED
    BY <1>1, <2>1, FS_Subset, FS_CardinalityType
<1>5. ASSUME NEW i
      PROVE  IsFiniteSet(Workers(i)) /\ Cardinality(Workers(i)) \in Nat
  <2>1. Workers(i) \in SUBSET DiskIds
    BY DEF Workers
  <2> QED
    BY <1>2, <2>1, FS_Subset, FS_CardinalityType
<1>6. ASSUME NEW i \in Queue
      PROVE  IsFiniteSet(ios[i]) /\ Cardinality(ios[i]) \in Nat
  <2>1. ios[i] \in SUBSET ({Read, Write} \X DiskIds)
    BY InvTypeOK DEF TypeOK
  <2> QED
    BY <1>3, <2>1, FS_Subset, FS_CardinalityType
<1> QED
  BY <1>4, <1>5, <1>6

LEMMA CountersAre ==
  CountersShown <=>
    /\ \A d \in DiskIds : /\ count_reads[d] = Cardinality(Shown(Read, d))
                          /\ count_writes[d] = Cardinality(Shown(Write, d))
    /\ \A i \in Queue :
         request_queue_counts[i] = Cardinality(ios[i]) + Cardinality(Workers(i))
  BY DEF CountersShown, Shown, Workers

LEMMA CountersStep ==
  ASSUME Inv, CountersShown, [Next]_vars
  PROVE  CountersShown'
<1>1. /\ \A d \in DiskIds : /\ count_reads[d] = Cardinality(Shown(Read, d))
                            /\ count_writes[d] = Cardinality(Shown(Write, d))
      /\ \A i \in Queue :
           request_queue_counts[i] = Cardinality(ios[i]) + Cardinality(Workers(i))
  BY CountersAre
<1>2. SUFFICES
      /\ \A d \in DiskIds : /\ count_reads'[d] = Cardinality(Shown(Read, d)')
                            /\ count_writes'[d] = Cardinality(Shown(Write, d)')
      /\ \A i \in Queue :
           request_queue_counts'[i] = Cardinality(ios'[i]) + Cardinality(Workers(i)')
  BY ShareStep DEF CountersShown, Shown, Workers
<1>3. /\ \A op, d : IsFiniteSet(Shown(op, d)) /\ Cardinality(Shown(op, d)) \in Nat
      /\ \A i : IsFiniteSet(Workers(i)) /\ Cardinality(Workers(i)) \in Nat
      /\ \A i \in Queue : IsFiniteSet(ios[i]) /\ Cardinality(ios[i]) \in Nat
  BY CountersFinite
<1>4. /\ count_reads \in [DiskIds -> Nat] /\ count_writes \in [DiskIds -> Nat]
      /\ request_queue_counts \in [Queue -> Nat]
      /\ disk_state \in [DiskIds -> DiskStates]
      /\ current_target \in [DiskIds -> Queue \cup {NoRequest}]
      /\ DOMAIN ios = Queue /\ Queue' = Queue
  BY ShareStep DEF Inv, CountInv, DiskInv, ShareInv
<1>5. CASE QuietStep /\ UNCHANGED <<count_reads, count_writes, request_queue_counts>>
  <2>1. \A op, d : Shown(op, d)' = Shown(op, d)
    BY <1>4, <1>5 DEF Shown, QuietStep
  <2>2. \A i : Workers(i)' = Workers(i)
    BY <1>5 DEF Workers, QuietStep
  <2>3. ios' = ios
    BY <1>5 DEF QuietStep
  <2> QED
    BY <1>1, <1>5, <2>1, <2>2, <2>3
<1>6. CASE QuietAction
  <2>1. UNCHANGED <<count_reads, count_writes, request_queue_counts>>
    BY <1>6 DEF QuietAction, vars, targetVars, countVars, Start, Pause, Exit, Tick, CheckDone,
         CheckNotDone, AnimatePaused, AdvanceClock, IdleDisk, EndAnimate, MoveHead, Transfer
  <2> QED
    BY <1>5, <1>6, <2>1, QuietActions
<1>7. CASE \E d \in DiskIds, i \in Queue : \E offer \in Offers(i, d) : Starts(d, i, offer)
  <2>1. PICK d \in DiskIds, i \in Queue : \E offer \in Offers(i, d) : Starts(d, i, offer)
    BY <1>7
  <2>2. PICK offer \in Offers(i, d) : Starts(d, i, offer)
    BY <2>1
  <2>3. /\ disk_state[d] = "NULL"
        /\ disk_state' = [disk_state EXCEPT ![d] = "SEEK"]
        /\ current_target' = [current_target EXCEPT ![d] = i]
        /\ request_queue_counts' = [request_queue_counts EXCEPT ![i] = @ + 1]
        /\ UNCHANGED <<count_reads, count_writes, ios>>
    BY <2>2 DEF Starts, StartRequest, countVars
  <2>4. \A op, x : Shown(op, x)' = Shown(op, x)
    BY <1>4, <2>3 DEF Shown
  <2>5. Workers(i)' = Workers(i) \cup {d} /\ d \notin Workers(i)
    BY <1>4, <2>3 DEF Workers
  <2>6. \A j \in Queue \ {i} : Workers(j)' = Workers(j)
    BY <1>4, <2>3 DEF Workers
  <2>7. Cardinality(Workers(i)') = Cardinality(Workers(i)) + 1
    BY <1>3, <2>5, FS_AddElement
  <2>8. \A j \in Queue :
           request_queue_counts'[j] = Cardinality(ios'[j]) + Cardinality(Workers(j)')
    BY <1>1, <1>3, <1>4, <2>3, <2>6, <2>7
  <2> QED
    BY <1>1, <2>3, <2>4, <2>8
<1>8. CASE FinishIO
  <2>1. PICK d \in DiskIds, i \in Queue, op \in Ops, k \in Shares(mapping) :
          FinishesShare(d, i, op, k)
    BY <1>8, FinishEffect
  <2>2. /\ d = adisk /\ i = current_target[d] /\ op = current_optype[d]
        /\ <<op, d>> \notin ios[i] /\ ios' = [ios EXCEPT ![i] = ios[i] \cup {<<op, d>>}]
    BY <2>1 DEF FinishesShare
  <2>3. /\ disk_state[d] # "NULL"
        /\ disk_state' = [disk_state EXCEPT ![d] = "NULL"]
        /\ UNCHANGED <<request_queue_counts, current_target>>
        /\ CountIO(d)
    BY <1>8, <2>2 DEF FinishIO, targetVars
  <2>4. ASSUME NEW o \in Ops, NEW x \in DiskIds
        PROVE  Cardinality(Shown(o, x)') =
                 Cardinality(Shown(o, x)) + (IF o = op /\ x = d THEN 1 ELSE 0)
    <3>1. CASE o = op /\ x = d
      <4>1. Shown(o, x)' = Shown(o, x) \cup {i} /\ i \notin Shown(o, x)
        BY <1>4, <2>2, <3>1 DEF Shown
      <4> QED
        BY <1>3, <3>1, <4>1, FS_AddElement
    <3>2. CASE ~ (o = op /\ x = d)
      <4>1. Shown(o, x)' = Shown(o, x)
        BY <1>4, <2>2, <3>2 DEF Shown
      <4> QED
        BY <1>3, <3>2, <4>1
    <3> QED
      BY <3>1, <3>2
  <2>5. ASSUME NEW x \in DiskIds
        PROVE  /\ count_reads'[x] = Cardinality(Shown(Read, x)')
               /\ count_writes'[x] = Cardinality(Shown(Write, x)')
    <3>1. Read \in Ops /\ Write \in Ops /\ Read # Write /\ (op = Read \/ op = Write)
      BY DEF Ops, Read, Write
    <3> DEFINE read == IF current_optype[d] = Read THEN 1 ELSE 0
    <3>2. /\ count_reads' = [count_reads EXCEPT ![d] = @ + read]
          /\ count_writes' = [count_writes EXCEPT ![d] = @ + 1 - read]
      BY <2>3 DEF CountIO
    <3>3. CASE x = d
      <4>1. count_reads'[x] = count_reads[x] + read /\ count_writes'[x] = count_writes[x] + 1 - read
        BY <1>4, <3>2, <3>3
      <4> QED
        BY <1>1, <1>4, <2>2, <2>4, <3>1, <3>3, <4>1
    <3>4. CASE x # d
      <4>1. count_reads'[x] = count_reads[x] /\ count_writes'[x] = count_writes[x]
        BY <1>4, <3>2, <3>4
      <4> QED
        BY <1>1, <1>3, <2>4, <3>1, <3>4, <4>1
    <3> QED
      BY <3>3, <3>4
  <2>6. Workers(i)' = Workers(i) \ {d} /\ d \in Workers(i)
    BY <1>4, <2>2, <2>3 DEF Workers
  <2>7. \A j \in Queue \ {i} : Workers(j)' = Workers(j) /\ ios'[j] = ios[j]
    BY <1>4, <2>2, <2>3 DEF Workers
  <2>8. Cardinality(Workers(i)') = Cardinality(Workers(i)) - 1
    BY <1>3, <2>6, FS_RemoveElement
  <2>9. Cardinality(ios'[i]) = Cardinality(ios[i]) + 1
    BY <1>3, <1>4, <2>2, FS_AddElement
  <2>10. \A j \in Queue :
           request_queue_counts'[j] = Cardinality(ios'[j]) + Cardinality(Workers(j)')
    BY <1>1, <1>3, <2>3, <2>7, <2>8, <2>9
  <2> QED
    BY <2>5, <2>10
<1>9. CASE ScheduleDisk
  BY <1>5, <1>7, <1>9, ScheduleCases DEF QuietStep, targetVars, countVars
<1> QED
  BY <1>6, <1>8, <1>9 DEF Next, HandlerStep, QuietAction

\* The counters beside the disks and in the queue show what the disks did,
\* whichever I/Os overlap: no I/O is counted twice and none is missed.
THEOREM CountersCorrect == Spec => []CountersShown
<1>1. Init => CountersShown
  <2> SUFFICES ASSUME Init PROVE CountersShown
    OBVIOUS
  <2>1. PICK in \in Inputs :
          /\ request_queue_counts = [i \in DOMAIN in.addr |-> 0]
          /\ ios = [i \in DOMAIN in.addr |-> {}]
    BY DEF Init
  <2>2. /\ count_reads = [d \in DiskIds |-> 0] /\ count_writes = [d \in DiskIds |-> 0]
        /\ disk_state = [d \in DiskIds |-> "NULL"]
    BY DEF Init
  <2>3. DOMAIN ios = Queue
    BY InitInv DEF Inv, ShareInv
  <2>4. \A op, d : Shown(op, d) = {}
    BY <2>1, <2>3 DEF Shown
  <2>5. \A i : Workers(i) = {}
    BY <2>2 DEF Workers
  <2>6. Cardinality({}) = 0
    BY FS_EmptySet
  <2> QED
    BY <2>1, <2>2, <2>3, <2>4, <2>5, <2>6, CountersAre
<1>2. Inv /\ CountersShown /\ [Next]_vars => CountersShown'
  BY CountersStep
<1> QED
  BY <1>1, <1>2, InvAlways, PTL DEF Spec
-----------------------------------------------------------------------------
(***************************************************************************)
(* The simulator implements the array of RaidIO.                           *)
(***************************************************************************)
\* The disks of a request, and the job it stands for.
AllDisks(m, r) == {r.disks[k] : k \in Shares(m)}

JobOf(m, r) ==
  IF r.op = Read
    THEN IF m = 1 THEN [reads |-> AllDisks(m, r), writes |-> {}, any |-> TRUE]
                  ELSE [reads |-> {r.disks[1]}, writes |-> {}, any |-> FALSE]
  ELSE IF m \in {0, 1} THEN [reads |-> {}, writes |-> AllDisks(m, r), any |-> FALSE]
  ELSE IF ~ r.full_stripe_write
    THEN [reads |-> AllDisks(m, r), writes |-> AllDisks(m, r), any |-> FALSE]
  ELSE IF r.full_stripe_write_parity
    THEN [reads |-> {}, any |-> FALSE, writes |-> AllDisks(m, r)]
    ELSE [reads |-> {}, any |-> FALSE, writes |-> {r.disks[1]}]

LEMMA JobIs ==
  ASSUME QueueInv, NEW i \in Queue
  PROVE  Job(i) = JobOf(mapping, request_queue[i])
<1> DEFINE r == request_queue[i]
           all == AllDisks(mapping, r)
<1>1. /\ mapping \in Mappings /\ IsRequest(mapping, r)
  BY DEF QueueInv
<1>2. /\ DOMAIN r.disks = Shares(mapping) /\ all = {r.disks[k] : k \in DOMAIN r.disks}
      /\ r.op = Read \/ r.op = Write
      /\ Read # Write
      /\ r.full_stripe_write \in BOOLEAN /\ (r.full_stripe_write => mapping = 4)
  BY <1>1 DEF IsRequest, AllDisks, Ops, Read, Write
<1>3. Job(i) =
        CASE r.op = Read /\ mapping = 1 -> [reads |-> all, writes |-> {}, any |-> TRUE]
          [] r.op = Read /\ mapping # 1 -> [reads |-> {r.disks[1]}, writes |-> {}, any |-> FALSE]
          [] r.op = Write /\ mapping \in {0, 1} -> [reads |-> {}, writes |-> all, any |-> FALSE]
          [] r.op = Write /\ mapping \in {4, 5} /\ r.full_stripe_write ->
               [reads |-> {}, any |-> FALSE,
                writes |-> IF r.full_stripe_write_parity THEN all ELSE {r.disks[1]}]
          [] OTHER -> [reads |-> all, writes |-> all, any |-> FALSE]
  BY <1>2, Zenon DEF Job
<1>4. /\ mapping \in {0, 1} \/ mapping \in {4, 5}
      /\ ~ (mapping \in {0, 1} /\ mapping \in {4, 5})
  BY <1>1 DEF Mappings
<1> HIDE DEF all, r
<1>5. CASE r.op = Read
  BY <1>2, <1>3, <1>5, Zenon DEF JobOf, all, r
<1>6. CASE r.op = Write /\ mapping \in {0, 1}
  BY <1>2, <1>3, <1>4, <1>6, Zenon DEF JobOf, all, r
<1>7. CASE r.op = Write /\ mapping \in {4, 5} /\ r.full_stripe_write
  BY <1>2, <1>3, <1>4, <1>7, Zenon DEF JobOf, all, r
<1>8. CASE r.op = Write /\ mapping \in {4, 5} /\ ~ r.full_stripe_write
  BY <1>2, <1>3, <1>4, <1>8, Zenon DEF JobOf, all, r
<1> QED
  BY <1>2, <1>4, <1>5, <1>6, <1>7, <1>8

\* What a request of each kind has to do.
JobFits(m, r, job, all) ==
  /\ Array!IsJob(job)
  /\ Kind(m, r) = "single" =>
       /\ ~ job.any /\ Array!IOs(job) = {<<r.op, r.disks[1]>>}
       /\ r.op = Write => job.reads = {}
  /\ Kind(m, r) = "either" /\ r.op = Read =>
       job.any /\ Array!IOs(job) = {Read} \X all
  /\ Kind(m, r) = "either" /\ r.op = Write =>
       /\ ~ job.any /\ job.reads = {} /\ Array!IOs(job) = {<<Write, r.disks[1]>>}
       /\ r.full_stripe_write /\ ~ r.full_stripe_write_parity
  /\ Kind(m, r) = "both" =>
       /\ ~ job.any /\ job.reads = {} /\ Array!IOs(job) = {Write} \X all
       /\ r.op = Write
  /\ Kind(m, r) = "update" =>
       /\ ~ job.any /\ job.reads = all
       /\ Array!IOs(job) = ({Read} \X all) \cup ({Write} \X all)
       /\ r.op = Write

LEMMA JobByKind ==
  ASSUME NEW m \in Mappings, NEW r, IsRequest(m, r)
  PROVE  JobFits(m, r, JobOf(m, r), AllDisks(m, r))
<1> DEFINE job == JobOf(m, r)
           all == AllDisks(m, r)
<1>1. /\ r.op = Read \/ r.op = Write
      /\ Read # Write /\ Array!Read = Read /\ Array!Write = Write
      /\ r.full_stripe_write => m = 4
      /\ r.full_stripe_write_parity => r.full_stripe_write
      /\ r.full_stripe_write \in BOOLEAN /\ r.full_stripe_write_parity \in BOOLEAN
  BY DEF IsRequest, Ops, Read, Write, Array!Read, Array!Write
<1>2. /\ all \subseteq DiskIds /\ r.disks[1] \in all
      /\ m = 0 => all = {r.disks[1]}
  BY DEF IsRequest, AllDisks, Shares
<1> HIDE DEF all
<1>9. ASSUME NEW j, j = [reads |-> j.reads, writes |-> j.writes, any |-> j.any],
             j.reads \subseteq DiskIds, j.writes \subseteq DiskIds, j.any \in BOOLEAN,
             j.reads \cup j.writes # {}, j.any => j.writes = {}
      PROVE  /\ Array!IsJob(j)
             /\ Array!IOs(j) = ({Read} \X j.reads) \cup ({Write} \X j.writes)
  BY <1>1, <1>9 DEF Array!IsJob, Array!IOs
<1> SUFFICES ASSUME NEW j, j = job PROVE JobFits(m, r, j, all)
  BY DEF all
<1>3. CASE r.op = Read /\ m = 1
  <2>1. job = [reads |-> all, writes |-> {}, any |-> TRUE] /\ Kind(m, r) = "either"
    BY <1>1, <1>3 DEF JobOf, Kind, all
  <2> HIDE DEF job
  <2>2. /\ j.reads = all /\ j.writes = {} /\ j.any = TRUE
        /\ j = [reads |-> j.reads, writes |-> j.writes, any |-> j.any]
    BY <2>1
  <2>3. /\ Array!IsJob(j)
        /\ Array!IOs(j) = ({Read} \X j.reads) \cup ({Write} \X j.writes)
    BY <1>2, <1>9, <2>2
  <2> QED
    BY <1>1, <1>2, <1>3, <2>1, <2>2, <2>3 DEF JobFits
<1>4. CASE r.op = Read /\ m # 1
  <2>1. job = [reads |-> {r.disks[1]}, writes |-> {}, any |-> FALSE] /\ Kind(m, r) = "single"
    BY <1>1, <1>4 DEF JobOf, Kind, all
  <2> HIDE DEF job
  <2>2. /\ j.reads = {r.disks[1]} /\ j.writes = {} /\ j.any = FALSE
        /\ j = [reads |-> j.reads, writes |-> j.writes, any |-> j.any]
    BY <2>1
  <2>3. /\ Array!IsJob(j)
        /\ Array!IOs(j) = ({Read} \X j.reads) \cup ({Write} \X j.writes)
    BY <1>2, <1>9, <2>2
  <2>4. Array!IOs(j) = {<<r.op, r.disks[1]>>}
    <3>1. \A x, y : {x} \X {y} = {<<x, y>>} /\ {x} \X {} = {}
      OBVIOUS
    <3> QED
      BY <1>2, <1>4, <2>2, <2>3, <3>1
  <2> QED
    BY <1>1, <1>2, <1>4, <2>1, <2>2, <2>3, <2>4 DEF JobFits
<1>5. CASE r.op = Write /\ m = 0
  <2>1. job = [reads |-> {}, writes |-> all, any |-> FALSE] /\ Kind(m, r) = "single"
    BY <1>1, <1>5 DEF JobOf, Kind, all
  <2> HIDE DEF job
  <2>2. /\ j.reads = {} /\ j.writes = all /\ j.any = FALSE
        /\ j = [reads |-> j.reads, writes |-> j.writes, any |-> j.any]
    BY <2>1
  <2>3. /\ Array!IsJob(j)
        /\ Array!IOs(j) = ({Read} \X j.reads) \cup ({Write} \X j.writes)
    BY <1>2, <1>9, <2>2
  <2>4. Array!IOs(j) = {<<r.op, r.disks[1]>>}
    <3>1. \A x, y : {x} \X {y} = {<<x, y>>} /\ {x} \X {} = {}
      OBVIOUS
    <3> QED
      BY <1>2, <1>5, <2>2, <2>3, <3>1
  <2> QED
    BY <1>1, <1>2, <1>5, <2>1, <2>2, <2>3, <2>4 DEF JobFits
<1>6. CASE r.op = Write /\ m = 1
  <2>1. job = [reads |-> {}, writes |-> all, any |-> FALSE] /\ Kind(m, r) = "both"
    BY <1>1, <1>6 DEF JobOf, Kind, all
  <2> HIDE DEF job
  <2>2. /\ j.reads = {} /\ j.writes = all /\ j.any = FALSE
        /\ j = [reads |-> j.reads, writes |-> j.writes, any |-> j.any]
    BY <2>1
  <2>3. /\ Array!IsJob(j)
        /\ Array!IOs(j) = ({Read} \X j.reads) \cup ({Write} \X j.writes)
    BY <1>2, <1>9, <2>2
  <2> QED
    BY <1>1, <1>2, <1>6, <2>1, <2>2, <2>3 DEF JobFits
<1>7. CASE r.op = Write /\ m \in {4, 5} /\ ~ r.full_stripe_write
  <2>1. job = [reads |-> all, writes |-> all, any |-> FALSE] /\ Kind(m, r) = "update"
    BY <1>1, <1>7 DEF JobOf, Kind, all
  <2> HIDE DEF job
  <2>2. /\ j.reads = all /\ j.writes = all /\ j.any = FALSE
        /\ j = [reads |-> j.reads, writes |-> j.writes, any |-> j.any]
    BY <2>1
  <2>3. /\ Array!IsJob(j)
        /\ Array!IOs(j) = ({Read} \X j.reads) \cup ({Write} \X j.writes)
    BY <1>2, <1>9, <2>2
  <2> QED
    BY <1>1, <1>2, <1>7, <2>1, <2>2, <2>3 DEF JobFits
<1>8. CASE r.op = Write /\ m \in {4, 5} /\ r.full_stripe_write /\ r.full_stripe_write_parity
  <2>1. job = [reads |-> {}, writes |-> all, any |-> FALSE] /\ Kind(m, r) = "both"
    BY <1>1, <1>8 DEF JobOf, Kind, all
  <2> HIDE DEF job
  <2>2. /\ j.reads = {} /\ j.writes = all /\ j.any = FALSE
        /\ j = [reads |-> j.reads, writes |-> j.writes, any |-> j.any]
    BY <2>1
  <2>3. /\ Array!IsJob(j)
        /\ Array!IOs(j) = ({Read} \X j.reads) \cup ({Write} \X j.writes)
    BY <1>2, <1>9, <2>2
  <2> QED
    BY <1>1, <1>2, <1>8, <2>1, <2>2, <2>3 DEF JobFits
<1>10. CASE r.op = Write /\ m \in {4, 5} /\ r.full_stripe_write /\ ~ r.full_stripe_write_parity
  <2>1. job = [reads |-> {}, writes |-> {r.disks[1]}, any |-> FALSE] /\ Kind(m, r) = "either"
    BY <1>1, <1>10 DEF JobOf, Kind, all
  <2> HIDE DEF job
  <2>2. /\ j.reads = {} /\ j.writes = {r.disks[1]} /\ j.any = FALSE
        /\ j = [reads |-> j.reads, writes |-> j.writes, any |-> j.any]
    BY <2>1
  <2>3. /\ Array!IsJob(j)
        /\ Array!IOs(j) = ({Read} \X j.reads) \cup ({Write} \X j.writes)
    BY <1>2, <1>9, <2>2
  <2>4. Array!IOs(j) = {<<r.op, r.disks[1]>>}
    <3>1. \A x, y : {x} \X {y} = {<<x, y>>} /\ {x} \X {} = {}
      OBVIOUS
    <3> QED
      BY <1>2, <1>10, <2>2, <2>3, <3>1
  <2> QED
    BY <1>1, <1>2, <1>10, <2>1, <2>2, <2>3, <2>4 DEF JobFits
<1> QED
  BY <1>1, <1>3, <1>4, <1>5, <1>6, <1>7, <1>8, <1>10 DEF Mappings

\* A full-stripe write that does not carry the parity leaves its parity disk
\* alone.
SkipsParity(r, did) ==
  r.op = Write /\ r.full_stripe_write /\ ~ r.full_stripe_write_parity => 2 \notin did[Write]

\* io are the I/Os of the shares did.
AreShares(m, r, io, did) ==
  /\ \A x \in io : \E op \in Ops, k \in Shares(m) : x = <<op, r.disks[k]>>
  /\ \A op \in Ops, k \in Shares(m) : <<op, r.disks[k]>> \in io <=> k \in did[op]

\* A request is over exactly when its job is complete.
LEMMA OverIsComplete ==
  ASSUME NEW m \in Mappings, NEW r, IsRequest(m, r), NEW st, NEW did, NEW doing,
         StatusOK(m, r, st, did, doing), SkipsParity(r, did),
         NEW io, AreShares(m, r, io, did)
  PROVE  Array!Complete(JobOf(m, r), io) <=> Over(m, r, did)
<1> DEFINE all == AllDisks(m, r)
<1> SUFFICES ASSUME NEW job, job = JobOf(m, r)
             PROVE  Array!Complete(job, io) <=> Over(m, r, did)
  OBVIOUS
<1>1. JobFits(m, r, job, all)
  BY JobByKind
<1>2. /\ \A x \in io : \E op \in Ops, k \in Shares(m) : x = <<op, r.disks[k]>> /\ k \in did[op]
      /\ \A op \in Ops, k \in Shares(m) : <<op, r.disks[k]>> \in io <=> k \in did[op]
  BY DEF AreShares
<1>3. /\ r.op = Read \/ r.op = Write
      /\ Read # Write /\ Ops = {Read, Write} /\ Other(Read) = Write /\ Other(Write) = Read
  BY DEF IsRequest, Ops, Other, Read, Write
<1>4. /\ did \in [Ops -> SUBSET Shares(m)]
      /\ Kind(m, r) # "update" => did[Other(r.op)] = {}
  BY DEF StatusOK
<1>5. /\ \A x : x \in all <=> \E k \in Shares(m) : x = r.disks[k]
      /\ 1 \in Shares(m)
  BY DEF AllDisks, Shares
<1>6. Kind(m, r) \in {"single", "either", "both", "update"}
  BY DEF Kind
<1> HIDE DEF all
<1>12. ASSUME NEW op \in Ops, did[op] \subseteq {1}, did[Other(op)] = {}
       PROVE  io = {<<op, r.disks[1]>>} <=> did[op] # {}
  <2>1. ASSUME io = {<<op, r.disks[1]>>} PROVE did[op] # {}
    <3>1. 1 \in did[op]
      BY <1>2, <1>5, <2>1
    <3> QED
      BY <3>1
  <2>2. ASSUME did[op] # {} PROVE io = {<<op, r.disks[1]>>}
    <3>1. 1 \in did[op]
      BY <1>12, <2>2
    <3>2. <<op, r.disks[1]>> \in io
      BY <1>2, <1>5, <3>1
    <3>3. ASSUME NEW x \in io PROVE x = <<op, r.disks[1]>>
      <4>1. PICK o \in Ops, k \in Shares(m) : x = <<o, r.disks[k]>> /\ k \in did[o]
        BY <1>2
      <4>2. o = op \/ o = Other(op)
        BY <1>3
      <4>3. o = op /\ k = 1
        BY <1>12, <4>1, <4>2
      <4> QED
        BY <4>1, <4>3
    <3> QED
      BY <3>2, <3>3
  <2> QED
    BY <2>1, <2>2
<1>7. CASE Kind(m, r) = "single"
  <2>1. did[r.op] \subseteq {1} /\ did[Other(r.op)] = {}
    BY <1>4, <1>7 DEF StatusOK
  <2>2. ~ job.any /\ Array!IOs(job) = {<<r.op, r.disks[1]>>}
    BY <1>1, <1>7 DEF JobFits
  <2>3. io = {<<r.op, r.disks[1]>>} <=> did[r.op] # {}
    BY <1>3, <1>12, <2>1
  <2> QED
    BY <1>7, <2>2, <2>3 DEF Array!Complete, Over
<1>8. CASE Kind(m, r) = "either" /\ r.op = Read
  <2>1. job.any /\ did[Write] = {}
    BY <1>1, <1>3, <1>4, <1>8 DEF JobFits
  <2>2. io # {} <=> did[Read] # {}
    BY <1>2, <1>3, <1>4, <2>1
  <2> QED
    BY <1>8, <2>1, <2>2 DEF Array!Complete, Over
<1>9. CASE Kind(m, r) = "either" /\ r.op = Write
  <2>1. /\ ~ job.any /\ Array!IOs(job) = {<<Write, r.disks[1]>>}
        /\ did[Read] = {} /\ 2 \notin did[Write]
    BY <1>1, <1>3, <1>4, <1>9 DEF JobFits, SkipsParity
  <2>2. did[Write] \subseteq {1}
    BY <1>3, <1>4, <2>1 DEF Shares
  <2>3. io = {<<Write, r.disks[1]>>} <=> did[Write] # {}
    BY <1>3, <1>12, <2>1, <2>2
  <2> QED
    BY <1>9, <2>1, <2>3 DEF Array!Complete, Over
<1>10. CASE Kind(m, r) = "both"
  <2>1. /\ ~ job.any /\ Array!IOs(job) = {Write} \X all
        /\ r.op = Write /\ did[Read] = {}
    BY <1>1, <1>3, <1>4, <1>10 DEF JobFits
  <2>2. Shares(m) = {1, 2}
    BY <1>10 DEF Kind, Shares
  <2>3. io = {Write} \X all <=> did[Write] = {1, 2}
    <3>1. ASSUME io = {Write} \X all PROVE did[Write] = {1, 2}
      <4>1. ASSUME NEW k \in {1, 2} PROVE k \in did[Write]
        <5>1. <<Write, r.disks[k]>> \in {Write} \X all
          BY <1>5, <2>2
        <5> QED
          BY <1>2, <1>3, <2>2, <3>1, <5>1
      <4> QED
        BY <1>3, <1>4, <2>2, <4>1
    <3>2. ASSUME did[Write] = {1, 2} PROVE io = {Write} \X all
      <4>1. ASSUME NEW x \in io PROVE x \in {Write} \X all
        BY <1>2, <1>3, <1>5, <2>1
      <4>2. ASSUME NEW x \in {Write} \X all PROVE x \in io
        <5>1. PICK y \in all : x = <<Write, y>>
          OBVIOUS
        <5>2. PICK k \in Shares(m) : y = r.disks[k]
          BY <1>5
        <5> QED
          BY <1>2, <1>3, <2>2, <3>2, <5>1, <5>2
      <4> QED
        BY <4>1, <4>2
    <3> QED
      BY <3>1, <3>2
  <2> QED
    BY <1>10, <2>1, <2>3 DEF Array!Complete, Over
<1>11. CASE Kind(m, r) = "update"
  <2>1. ~ job.any /\ Array!IOs(job) = ({Read} \X all) \cup ({Write} \X all)
    BY <1>1, <1>11 DEF JobFits
  <2>2. Shares(m) = {1, 2} /\ (did[Write] # {} => did[Read] = {1, 2})
    BY <1>11 DEF Kind, Shares, StatusOK
  <2>3. io = ({Read} \X all) \cup ({Write} \X all) <=> did[Write] = {1, 2}
    <3>1. ASSUME io = ({Read} \X all) \cup ({Write} \X all) PROVE did[Write] = {1, 2}
      <4>1. ASSUME NEW k \in {1, 2} PROVE k \in did[Write]
        <5>1. <<Write, r.disks[k]>> \in {Write} \X all
          BY <1>5, <2>2
        <5> QED
          BY <1>2, <1>3, <2>2, <3>1, <5>1
      <4> QED
        BY <1>3, <1>4, <2>2, <4>1
    <3>2. ASSUME did[Write] = {1, 2} PROVE io = ({Read} \X all) \cup ({Write} \X all)
      <4>1. ASSUME NEW x \in io PROVE x \in ({Read} \X all) \cup ({Write} \X all)
        BY <1>2, <1>3, <1>5
      <4>2. ASSUME NEW x \in ({Read} \X all) \cup ({Write} \X all) PROVE x \in io
        <5>1. PICK op \in Ops, y \in all : x = <<op, y>>
          BY <1>3
        <5>2. PICK k \in Shares(m) : y = r.disks[k]
          BY <1>5
        <5>3. k \in did[op]
          BY <1>3, <2>2, <3>2, <5>2
        <5> QED
          BY <1>2, <5>1, <5>2, <5>3
      <4> QED
        BY <4>1, <4>2
    <3> QED
      BY <3>1, <3>2
  <2> QED
    BY <1>11, <2>1, <2>3 DEF Array!Complete, Over
<1> QED
  BY <1>3, <1>6, <1>7, <1>8, <1>9, <1>10, <1>11

\* The I/Os of the abstract array are the shares begun.
ServingNow == [d \in DiskIds |-> Serving(d)]
Jobs == [i \in Queue |-> Job(i)]

LEMMA ServingIs ==
  ASSUME NEW d, NEW i, NEW op
  PROVE  Serving(d) = <<i, op>> <=> Serves(d, i, op)
<1>1. CASE disk_state[d] = "NULL"
  <2>1. Serving(d) = <<"idle">>
    BY <1>1 DEF Serving
  <2>2. <<"idle">> # <<i, op>>
    <3>1. Len(<<"idle">>) = 1 /\ Len(<<i, op>>) = 2
      OBVIOUS
    <3> QED
      BY <3>1
  <2> QED
    BY <1>1, <2>1, <2>2 DEF Serves
<1>2. CASE disk_state[d] # "NULL"
  <2>1. Serving(d) = <<current_target[d], current_optype[d]>>
    BY <1>2 DEF Serving
  <2> QED
    BY <1>2, <2>1 DEF Serves
<1> QED
  BY <1>1, <1>2

LEMMA UnderwayIs ==
  ASSUME NEW i, NEW op \in Ops, NEW d \in DiskIds
  PROVE  <<op, d>> \in Array!Underway(i) <=> Serves(d, i, op)
<1>1. Array!Underway(i) = {io \in {Read, Write} \X DiskIds : ServingNow[io[2]] = <<i, io[1]>>}
  BY DEF Array!Underway, ServingNow, Array!Read, Array!Write, Read, Write
<1>2. <<op, d>> \in {Read, Write} \X DiskIds /\ ServingNow[d] = Serving(d)
  BY DEF Ops, ServingNow
<1> HIDE DEF ServingNow
<1>3. <<op, d>> \in Array!Underway(i) <=> Serving(d) = <<i, op>>
  BY <1>1, <1>2
<1> QED
  BY <1>3, ServingIs

LEMMA SharesAre ==
  ASSUME Inv, NEW i \in Queue
  PROVE  AreShares(mapping, request_queue[i], ios[i], Did(i))
<1>1. \A x \in ios[i] : \E op \in Ops, k \in Shares(mapping) : x = <<op, request_queue[i].disks[k]>>
  BY DEF Inv, ShareInv
<1>2. \A op \in Ops, k \in Shares(mapping) :
        <<op, request_queue[i].disks[k]>> \in ios[i] <=> k \in Did(i)[op]
  BY DEF Did, DidIO
<1> QED
  BY <1>1, <1>2 DEF AreShares

\* A request that has not begun has no I/O.
LEMMA NotBegun ==
  ASSUME Inv, NEW i \in Queue, ~ Begun(i)
  PROVE  Array!Begun(i) = {}
<1>1. ASSUME NEW x \in ios[i] PROVE FALSE
  <2>1. PICK op \in Ops, k \in Shares(mapping) : x = <<op, request_queue[i].disks[k]>>
    BY <1>1 DEF Inv, ShareInv
  <2>2. k \in DidIO(i, op)
    BY <1>1, <2>1 DEF DidIO
  <2> QED
    BY <2>2 DEF Begun
<1>2. ASSUME NEW x \in Array!Underway(i) PROVE FALSE
  <2>1. PICK op \in Ops, d \in DiskIds : x = <<op, d>>
    BY <1>2 DEF Array!Underway, Array!Read, Array!Write, Ops, Read, Write
  <2>2. Serves(d, i, op)
    BY <1>2, <2>1, UnderwayIs
  <2>3. PICK k \in Shares(mapping) : request_queue[i].disks[k] = d
    BY <2>2 DEF Serves, Inv, DiskInv
  <2>4. k \in DoingIO(i, op)
    BY <2>2, <2>3 DEF DoingIO
  <2> QED
    BY <2>4 DEF Begun
<1> QED
  BY <1>1, <1>2 DEF Array!Begun

\* What full-stripe writes do without the parity disk.
StripeInv == \A i \in Queue : SkipsParity(request_queue[i], Did(i))

LEMMA StartImplements ==
  ASSUME Inv, FullStripeSkipsParity', NEW d \in DiskIds, NEW i \in Queue,
         NEW offer \in Offers(i, d), Starts(d, i, offer)
  PROVE  Array!Start(i, offer.op, d)
<1> DEFINE r == request_queue[i]
           m == mapping
           op == offer.op
           job == JobOf(m, r)
           all == AllDisks(m, r)
<1>1. /\ disk_state[d] = "NULL" /\ StartRequest(d, i, offer)
      /\ UNCHANGED <<inputVars, ios, logical_requests>>
  BY DEF Starts, countVars
<1>2. PICK k \in Shares(m) :
        /\ r.disks[k] = d
        /\ op \in Ops
        /\ k \notin Did(i)[op] \cup Doing(i)[op]
        /\ Kind(m, r) # "update" => op = r.op
        /\ Kind(m, r) = "either" => ~ Begun(i)
        /\ Kind(m, r) = "update" /\ op = Write => Did(i)[Read] = {1, 2}
        /\ QueueInv' /\ Queue' = Queue /\ ShareInv'
        /\ Doing(i)' = With(Doing(i), op, k)
  BY <1>1, StartEffect
<1>3. /\ m \in Mappings /\ IsRequest(m, r) /\ Job(i) = job
      /\ r.op = Read \/ r.op = Write
      /\ Read # Write /\ Ops = {Read, Write} /\ Array!Read = Read /\ Array!Write = Write
      /\ Kind(m, r) \in {"single", "either", "both", "update"}
  BY JobIs DEF Inv, QueueInv, IsRequest, Ops, Read, Write, Array!Read, Array!Write, Kind
<1>4. JobFits(m, r, job, all) /\ d \in all
  BY <1>2, <1>3, JobByKind DEF AllDisks
<1>5. /\ UNCHANGED <<mapping, request_queue>>
      /\ disk_state' = [disk_state EXCEPT ![d] = "SEEK"]
      /\ current_target' = [current_target EXCEPT ![d] = i]
      /\ current_optype' = [current_optype EXCEPT ![d] = op]
      /\ disk_state \in [DiskIds -> DiskStates]
      /\ current_target \in [DiskIds -> Queue \cup {NoRequest}]
      /\ current_optype \in [DiskIds -> {Read, Write, "none"}]
  BY <1>1 DEF StartRequest, inputVars, Inv, DiskInv
<1>6. <<op, d>> \in Array!IOs(job)
  <2>1. CASE Kind(m, r) = "single"
    <3>1. k \in Doing(i)'[op]
      BY <1>2 DEF With, Doing
    <3>2. StatusOK(m, r, status'[i], Did(i)', Doing(i)')
      BY <1>2, <1>5 DEF ShareInv
    <3>3. k = 1
      BY <1>2, <2>1, <3>1, <3>2 DEF StatusOK
    <3> QED
      BY <1>2, <1>4, <2>1, <3>3 DEF JobFits
  <2>2. CASE Kind(m, r) = "either" /\ r.op = Read
    BY <1>2, <1>4, <2>2 DEF JobFits
  <2>3. CASE Kind(m, r) = "either" /\ r.op = Write
    <3>1. /\ r.full_stripe_write /\ ~ r.full_stripe_write_parity
          /\ Array!IOs(job) = {<<Write, r.disks[1]>>}
      BY <1>4, <2>3 DEF JobFits
    <3>2. disk_state'[d] # "NULL" /\ current_target'[d] = i
      BY <1>5
    <3>3. d # r.disks[2]
      BY <1>5, <3>1, <3>2 DEF FullStripeSkipsParity
    <3>4. k = 1
      BY <1>2, <3>3 DEF Shares
    <3> QED
      BY <1>2, <2>3, <3>1, <3>4
  <2>4. CASE Kind(m, r) = "both"
    BY <1>2, <1>4, <2>4 DEF JobFits
  <2>5. CASE Kind(m, r) = "update"
    BY <1>2, <1>3, <1>4, <2>5 DEF JobFits
  <2> QED
    BY <1>3, <2>1, <2>2, <2>3, <2>4, <2>5
<1>7. <<op, d>> \notin Array!Begun(i)
  <2>1. <<op, d>> \notin ios[i]
    BY <1>2, <1>3, SharesAre DEF AreShares
  <2>2. ~ Serves(d, i, op)
    BY <1>1 DEF Serves
  <2> QED
    BY <1>2, <2>1, <2>2, UnderwayIs DEF Array!Begun
<1>8. job.any => Array!Begun(i) = {}
  <2>1. job.any => Kind(m, r) = "either"
    BY <1>3, <1>4 DEF JobFits
  <2> QED
    BY <1>2, <2>1, NotBegun
<1>9. op = Write => {Read} \X job.reads \subseteq ios[i]
  <2> SUFFICES ASSUME op = Write, NEW x \in job.reads
               PROVE  <<Read, x>> \in ios[i]
    OBVIOUS
  <2>1. Kind(m, r) = "update" /\ x \in all
    BY <1>2, <1>3, <1>4 DEF JobFits
  <2>2. PICK l \in Shares(m) : r.disks[l] = x
    BY <2>1 DEF AllDisks
  <2>3. l \in Did(i)[Read]
    BY <1>2, <2>1, <2>2 DEF Shares
  <2> QED
    BY <1>3, <2>2, <2>3, SharesAre DEF AreShares
<1> HIDE DEF job, op
<1>10. Array!Wants(i, op, d)
  <2>1. Jobs[i] = job
    BY <1>3 DEF Jobs
  <2> QED
    BY <1>3, <1>6, <1>7, <1>8, <1>9, <2>1 DEF Array!Wants, Jobs
<1>11. /\ ServingNow[d] = Array!Idle
       /\ ServingNow' = [ServingNow EXCEPT ![d] = <<i, op>>]
  <2>1. ServingNow[d] = <<"idle">>
    BY <1>1 DEF ServingNow, Serving
  <2>2. ASSUME NEW x \in DiskIds
        PROVE  Serving(x)' = IF x = d THEN <<i, op>> ELSE Serving(x)
    <3>1. CASE x = d
      BY <1>5, <3>1 DEF Serving
    <3>2. CASE x # d
      BY <1>5, <3>2 DEF Serving
    <3> QED
      BY <3>1, <3>2
  <2> QED
    BY <2>1, <2>2 DEF ServingNow, Array!Idle
<1>12. Jobs' = Jobs
  BY <1>2, <1>5 DEF Jobs, Job
<1> QED
  BY <1>1, <1>10, <1>11, <1>12 DEF Array!Start, ServingNow, Jobs, op

\* What has been done changes only with the I/Os.
LEMMA DidSame ==
  ASSUME UNCHANGED <<mapping, request_queue, ios>>, NEW i
  PROVE  Did(i)' = Did(i)
<1>1. \A op : DidIO(i, op)' = DidIO(i, op)
  BY DEF DidIO
<1> QED
  BY <1>1 DEF Did

\* As long as the parity disk is left to the request that carries the parity,
\* the others have not written it.
LEMMA StripeInit == Init => StripeInv
<1> SUFFICES ASSUME Init, NEW i \in Queue PROVE 2 \notin Did(i)[Write]
  BY DEF StripeInv, SkipsParity
<1>1. PICK in \in Inputs : /\ mapping = in.mapping
                           /\ request_queue = Requests(in.mapping, in.addr)
                           /\ ios = [j \in DOMAIN in.addr |-> {}]
  BY DEF Init
<1>2. Queue = DOMAIN in.addr
  BY <1>1 DEF Queue, Requests
<1>3. DidIO(i, Write) = {}
  BY <1>1, <1>2 DEF DidIO
<1>4. Write \in Ops
  BY DEF Ops
<1> QED
  BY <1>3, <1>4 DEF Did

LEMMA StripeStep ==
  ASSUME Inv, StripeInv, FullStripeSkipsParity, [Next]_vars
  PROVE  StripeInv'
<1> SUFFICES ASSUME NEW i \in Queue'
             PROVE  SkipsParity(request_queue[i], Did(i))'
  BY DEF StripeInv
<1>1. CASE UNCHANGED <<mapping, request_queue, ios>>
  <2>1. Did(i)' = Did(i) /\ Queue' = Queue
    BY <1>1, DidSame DEF Queue
  <2> QED
    BY <1>1, <2>1 DEF StripeInv, SkipsParity
<1>2. CASE FinishIO
  <2>1. PICK d \in DiskIds, j \in Queue, op \in Ops, k \in Shares(mapping) :
          FinishesShare(d, j, op, k)
    BY <1>2, FinishEffect
  <2>2. Queue' = Queue /\ request_queue' = request_queue
    BY <1>2 DEF FinishIO, inputVars, Queue
  <2>3. CASE i # j
    BY <2>1, <2>2, <2>3 DEF FinishesShare, StripeInv, SkipsParity
  <2>4. CASE i = j
    <3> DEFINE r == request_queue[i]
    <3> SUFFICES ASSUME r.op = Write, r.full_stripe_write, ~ r.full_stripe_write_parity
                 PROVE  2 \notin Did(i)'[Write]
      BY <2>2 DEF SkipsParity
    <3>1. 2 \notin Did(i)[Write]
      BY <2>2 DEF StripeInv, SkipsParity
    <3>2. r.disks[k] = d /\ Did(i)' = With(Did(i), op, k) /\ i = current_target[d] /\ d = adisk
      BY <2>1, <2>4 DEF FinishesShare
    <3>3. d # r.disks[2]
      BY <1>2, <3>2 DEF FinishIO, FullStripeSkipsParity
    <3>4. k # 2
      BY <3>2, <3>3
    <3>5. Did(i) \in [Ops -> SUBSET Shares(mapping)] /\ Write \in Ops
      BY <2>4 DEF Inv, ShareInv, StatusOK, Ops
    <3> QED
      BY <3>1, <3>2, <3>4, <3>5 DEF With
  <2> QED
    BY <2>3, <2>4
<1>3. CASE QuietStep
  BY <1>1, <1>3 DEF QuietStep, inputVars
<1>4. CASE \E d \in DiskIds, j \in Queue : \E offer \in Offers(j, d) : Starts(d, j, offer)
  BY <1>1, <1>4 DEF Starts, inputVars, countVars
<1> QED
  BY <1>2, <1>3, <1>4, StepCases

\* The end of an I/O is the end of one in the abstract array.
LEMMA FinishImplements ==
  ASSUME Inv, StripeInv', FinishIO
  PROVE  \E i \in Queue, op \in Ops, d \in DiskIds : Array!Finish(i, op, d)
<1>1. PICK d \in DiskIds, i \in Queue, op \in Ops, k \in Shares(mapping) :
        FinishesShare(d, i, op, k)
  BY FinishEffect
<1>2. Queue' = Queue /\ ShareInv' /\ QueueInv
  BY FinishEffect DEF Inv
<1> DEFINE r == request_queue[i]
           m == mapping
           end == Completion(i, d)
<1>3. /\ UNCHANGED <<mapping, request_queue, current_target, current_optype>>
      /\ disk_state' = [disk_state EXCEPT ![d] = "NULL"]
      /\ disk_state[d] # "NULL" /\ current_target[d] = i /\ current_optype[d] = op
      /\ logical_requests' = logical_requests + (IF end.done THEN 1 ELSE 0)
  BY <1>1 DEF FinishIO, FinishesShare, inputVars, targetVars
<1>4. m \in Mappings /\ IsRequest(m, r) /\ Job(i) = JobOf(m, r)
  BY <1>2, JobIs DEF QueueInv
<1>5. /\ StatusOK(m, r, status'[i], Did(i)', Doing(i)')
      /\ \A x \in ios'[i] : \E o \in Ops, l \in Shares(m) : x = <<o, r.disks[l]>>
  BY <1>2, <1>3 DEF ShareInv
<1>6. AreShares(m, r, ios'[i], Did(i)')
  <2>1. \A o \in Ops : Did(i)'[o] = {l \in Shares(m) : <<o, r.disks[l]>> \in ios'[i]}
    BY <1>3 DEF Did, DidIO
  <2> QED
    BY <1>5, <2>1 DEF AreShares
<1>7. SkipsParity(r, Did(i)')
  BY <1>2, <1>3 DEF StripeInv, SkipsParity
<1>8. Array!Complete(Job(i), ios'[i]) <=> Over(m, r, Did(i)')
  BY <1>4, <1>5, <1>6, <1>7, OverIsComplete
<1>9. end.done <=> Over(m, r, Did(i)')
  BY <1>1 DEF FinishesShare
<1>10. Jobs' = Jobs /\ Jobs[i] = Job(i)
  BY <1>2, <1>3 DEF Jobs, Job
<1>11. logical_requests' =
         logical_requests + (IF Array!Complete(Jobs[i], ios'[i]) THEN 1 ELSE 0)
  BY <1>3, <1>8, <1>9, <1>10
<1>12. ios' = [ios EXCEPT ![i] = @ \cup {<<op, d>>}]
  BY <1>1 DEF FinishesShare
<1>13. /\ ServingNow[d] = <<i, op>>
       /\ ServingNow' = [ServingNow EXCEPT ![d] = Array!Idle]
  <2>1. Serving(d) = <<i, op>>
    BY <1>3 DEF Serving
  <2>2. disk_state \in [DiskIds -> DiskStates]
    BY DEF Inv, DiskInv
  <2>3. ASSUME NEW x \in DiskIds
        PROVE  Serving(x)' = IF x = d THEN <<"idle">> ELSE Serving(x)
    BY <1>3, <2>2 DEF Serving
  <2> QED
    BY <2>1, <2>3 DEF ServingNow, Array!Idle
<1>14. Array!Finish(i, op, d)
  BY <1>10, <1>11, <1>12, <1>13 DEF Array!Finish, ServingNow, Jobs
<1> QED
  BY <1>14

LEMMA QuietImplements ==
  ASSUME Inv, QuietStep, logical_requests' = logical_requests
  PROVE  UNCHANGED Array!ioVars
<1>1. /\ UNCHANGED <<mapping, request_queue, current_target, current_optype, ios>>
      /\ \A d \in DiskIds : disk_state'[d] = "NULL" <=> disk_state[d] = "NULL"
  BY DEF QuietStep, inputVars
<1>2. Jobs' = Jobs
  BY <1>1 DEF Jobs, Job, Queue
<1>3. \A d \in DiskIds : Serving(d)' = Serving(d)
  BY <1>1 DEF Serving
<1>4. ServingNow' = ServingNow
  BY <1>3 DEF ServingNow
<1> QED
  BY <1>1, <1>2, <1>4 DEF Array!ioVars, Jobs, ServingNow

LEMMA InitImplements ==
  ASSUME Init
  PROVE  Array!Init
<1>1. Inv
  BY InitInv
<1>2. ASSUME NEW i \in Queue PROVE Array!IsJob(Job(i))
  <2>1. mapping \in Mappings /\ IsRequest(mapping, request_queue[i])
        /\ Job(i) = JobOf(mapping, request_queue[i])
    BY <1>1, JobIs DEF Inv, QueueInv
  <2>2. JobFits(mapping, request_queue[i], JobOf(mapping, request_queue[i]),
                AllDisks(mapping, request_queue[i]))
    BY <2>1, JobByKind
  <2> QED
    BY <2>1, <2>2 DEF JobFits
<1>3. PICK in \in Inputs : /\ request_queue = Requests(in.mapping, in.addr)
                           /\ ios = [j \in DOMAIN in.addr |-> {}]
  BY DEF Init
<1>4. Queue = DOMAIN in.addr
  BY <1>3 DEF Queue, Requests
<1>5. \A d \in DiskIds : disk_state[d] = "NULL"
  BY DEF Init
<1>6. ServingNow = [d \in DiskIds |-> Array!Idle] /\ logical_requests = 0
  BY <1>5 DEF ServingNow, Serving, Array!Idle, Init
<1>7. Jobs = [i \in Queue |-> Job(i)] /\ DOMAIN Jobs = Queue
      /\ \A i \in DOMAIN Jobs : Array!IsJob(Jobs[i])
  BY <1>2 DEF Jobs
<1>8. ios = [j \in DOMAIN Jobs |-> {}]
  BY <1>3, <1>4, <1>7
<1> QED
  BY <1>6, <1>7, <1>8 DEF Array!Init, ServingNow, Jobs

\* Only the end of an I/O completes a request.
LEMMA QuietRequests ==
  ASSUME Inv, QuietAction \/ ScheduleDisk
  PROVE  logical_requests' = logical_requests
<1>1. CASE UNCHANGED vars \/ ScheduleDisk
  BY <1>1 DEF vars, countVars, ScheduleDisk
<1>2. CASE Start \/ Pause \/ Exit \/ Tick
  BY <1>2 DEF Start, Pause, Exit, Tick, countVars
<1>3. CASE CheckDone \/ CheckNotDone \/ AnimatePaused \/ AdvanceClock \/ IdleDisk \/ EndAnimate
  BY <1>3 DEF CheckDone, CheckNotDone, AnimatePaused, AdvanceClock, IdleDisk, EndAnimate,
              countVars
<1>4. CASE MoveHead \/ Transfer
  BY <1>4 DEF MoveHead, Transfer, countVars
<1> QED
  BY <1>1, <1>2, <1>3, <1>4 DEF QuietAction

LEMMA StepImplements ==
  ASSUME Inv, StripeInv', FullStripeSkipsParity', [Next]_vars
  PROVE  [Array!Next]_(Array!ioVars)
<1>0. DOMAIN Jobs = Queue /\ Ops = {Array!Read, Array!Write}
  BY DEF Jobs, Ops, Read, Write, Array!Read, Array!Write
<1>1. CASE FinishIO
  <2>1. PICK i \in Queue, op \in Ops, d \in DiskIds : Array!Finish(i, op, d)
    BY <1>1, FinishImplements
  <2>2. Array!Next
    BY <1>0, <2>1 DEF Array!Next, Jobs
  <2> QED
    BY <2>2
<1>2. CASE \E d \in DiskIds, i \in Queue : \E offer \in Offers(i, d) : Starts(d, i, offer)
  <2>1. PICK d \in DiskIds, i \in Queue : \E offer \in Offers(i, d) : Starts(d, i, offer)
    BY <1>2
  <2>2. PICK offer \in Offers(i, d) : Starts(d, i, offer)
    BY <2>1
  <2>3. Array!Start(i, offer.op, d)
    BY <2>2, StartImplements
  <2>4. offer.op \in Ops
    <3>1. disk_state[d] = "NULL" /\ StartRequest(d, i, offer) /\ UNCHANGED <<inputVars, ios>>
      BY <2>2 DEF Starts, countVars
    <3> QED
      BY <3>1, StartEffect
  <2>5. Array!Next
    BY <1>0, <2>3, <2>4 DEF Array!Next, Jobs
  <2> QED
    BY <2>5
<1>3. CASE QuietAction \/ ScheduleDisk
  <2>1. CASE QuietStep
    BY <1>3, <2>1, QuietRequests, QuietImplements
  <2>2. QuietStep \/ \E d \in DiskIds, i \in Queue : \E offer \in Offers(i, d) : Starts(d, i, offer)
    BY <1>3, QuietActions, ScheduleCases DEF QuietStep, targetVars, countVars
  <2> QED
    BY <1>2, <2>1, <2>2
<1> QED
  BY <1>1, <1>3 DEF Next, HandlerStep, QuietAction

\* What the simulator promises of every request, it keeps on every RAID level,
\* whatever the queue, the window and the speed, as long as the requests of a
\* detected full stripe leave the parity disk alone (line 677), which
\* DoRaid4Scheduling fails to see to when a data disk is busy.
THEOREM ArrayImplemented ==
  Spec /\ []FullStripeSkipsParity => ImplementsRaidIO
<1>1. Init => Inv /\ StripeInv /\ Array!Init
  BY InitInv, StripeInit, InitImplements
<1>2. Inv /\ StripeInv /\ FullStripeSkipsParity /\ [Next]_vars => Inv' /\ StripeInv'
  BY InvStep, StripeStep
<1>3. Inv /\ StripeInv' /\ FullStripeSkipsParity' /\ [Next]_vars
        => [Array!Next]_(Array!ioVars)
  BY StepImplements
<1> QED
  BY <1>1, <1>2, <1>3, PTL DEF Spec, ImplementsRaidIO, Array!Spec

\* Without a full stripe nothing can go wrong there.
NoFullStripe == \A i \in Queue : ~ request_queue[i].full_stripe_write

LEMMA NoStripeToSkip == Inv /\ NoFullStripe => FullStripeSkipsParity
<1> SUFFICES ASSUME Inv, NoFullStripe, NEW d \in DiskIds, disk_state[d] # "NULL"
             PROVE  ~ request_queue[current_target[d]].full_stripe_write
  BY DEF FullStripeSkipsParity
<1> QED
  BY DEF Inv, DiskInv, NoFullStripe

LEMMA NoStripeStep == Inv /\ NoFullStripe /\ [Next]_vars => NoFullStripe'
<1> SUFFICES ASSUME Inv, NoFullStripe, [Next]_vars PROVE NoFullStripe'
  OBVIOUS
<1>1. CASE UNCHANGED request_queue
  BY <1>1 DEF NoFullStripe, Queue
<1>2. CASE QuietStep
  BY <1>1, <1>2 DEF QuietStep, inputVars
<1>3. CASE \E d \in DiskIds, i \in Queue : \E offer \in Offers(i, d) : Starts(d, i, offer)
  BY <1>1, <1>3 DEF Starts, inputVars
<1>4. CASE FinishIO
  BY <1>1, <1>4 DEF FinishIO, inputVars
<1> QED
  BY <1>2, <1>3, <1>4, StepCases

LEMMA OnlyRaid4HasStripes == Inv /\ mapping # 4 => NoFullStripe
  BY DEF Inv, QueueInv, IsRequest, NoFullStripe

\* On RAID-0, 1 and 5, and on RAID-4 with a queue in which no full stripe is
\* detected, no request of a stripe is there to use the parity disk.
THEOREM WithoutStripes ==
  Spec /\ (mapping # 4 \/ NoFullStripe) => []FullStripeSkipsParity
<1>1. Init /\ (mapping # 4 \/ NoFullStripe) => Inv /\ NoFullStripe
  BY InitInv, OnlyRaid4HasStripes
<1>2. Inv /\ NoFullStripe /\ [Next]_vars => Inv' /\ NoFullStripe'
  BY InvStep, NoStripeStep
<1>3. Inv /\ NoFullStripe => FullStripeSkipsParity
  BY NoStripeToSkip
<1> QED
  BY <1>1, <1>2, <1>3, PTL DEF Spec

\* So there the simulator carries out, for each request, the I/Os its level calls
\* for, each once, the writes of a parity update after both its reads, and counts
\* the request as done with its last I/O.
THEOREM ArrayWithoutStripes ==
  Spec /\ (mapping # 4 \/ NoFullStripe) => ImplementsRaidIO
  BY WithoutStripes, ArrayImplemented, PTL
-----------------------------------------------------------------------------
(***************************************************************************)
(* The scheduling window.                                                  *)
(***************************************************************************)
\* A request is complete exactly when its shares are over.
LEMMA CompleteIsOver ==
  ASSUME Inv, StripeInv, NEW i \in Queue
  PROVE  Array!Complete(Job(i), ios[i]) <=> Over(mapping, request_queue[i], Did(i))
<1>1. /\ mapping \in Mappings /\ IsRequest(mapping, request_queue[i])
      /\ Job(i) = JobOf(mapping, request_queue[i])
      /\ StatusOK(mapping, request_queue[i], status[i], Did(i), Doing(i))
      /\ SkipsParity(request_queue[i], Did(i))
  BY JobIs DEF Inv, QueueInv, ShareInv, StripeInv
<1> QED
  BY <1>1, SharesAre, OverIsComplete

LEMMA OverHasBegun ==
  ASSUME Inv, NEW i \in OverSet
  PROVE  i \in Queue /\ Begun(i)
<1>1. i \in Queue /\ Over(mapping, request_queue[i], Did(i))
  BY DEF OverSet
<1>2. \E op \in Ops : Did(i)[op] # {}
  BY <1>1 DEF Over, Inv, QueueInv, IsRequest, Ops
<1> QED
  BY <1>1, <1>2 DEF Did, Begun

\* As many requests of the window are not over as -w asks for.
LEMMA WindowOpen ==
  ASSUME Inv, window_option > 0
  PROVE  /\ window \in Nat
         /\ IsFiniteSet((1 .. window) \ OverSet)
         /\ Cardinality((1 .. window) \ OverSet) = window_option
         /\ \A i \in Queue : Begun(i) => i \in 1 .. window
<1>1. /\ window_option \in Nat \ {0}
      /\ logical_requests = Cardinality(OverSet)
      /\ window = window_option + logical_requests
      /\ \A i \in Queue : Begun(i) => window = -1 \/ i <= window
      /\ IsFiniteSet(OverSet) /\ logical_requests \in Nat
      /\ Queue \subseteq Nat \ {0}
  <2>1. IsFiniteSet(OverSet)
    BY OverSetFinite DEF Inv
  <2>2. Cardinality(OverSet) \in Nat
    BY <2>1, FS_CardinalityType
  <2> QED
    BY <2>1, <2>2 DEF Inv, QueueInv, CountInv
<1>2. \A i \in Queue : Begun(i) => i \in 1 .. window
  BY <1>1
<1>3. OverSet \subseteq 1 .. window
  <2>1. \A i \in OverSet : i \in Queue /\ Begun(i)
    BY OverHasBegun
  <2> QED
    BY <1>2, <2>1
<1>4. /\ IsFiniteSet(1 .. window) /\ Cardinality(1 .. window) = window
  BY <1>1, FS_Interval
<1>5. (1 .. window) \cap OverSet = OverSet
  BY <1>3
<1>6. /\ IsFiniteSet((1 .. window) \ OverSet)
      /\ Cardinality((1 .. window) \ OverSet) = window - logical_requests
  <2> DEFINE W == 1 .. window
  <2>1. IsFiniteSet(W) /\ Cardinality(W) = window /\ W \cap OverSet = OverSet
    BY <1>4, <1>5
  <2> HIDE DEF W
  <2>2. /\ IsFiniteSet(W \ OverSet)
        /\ Cardinality(W \ OverSet) = Cardinality(W) - Cardinality(W \cap OverSet)
    BY <2>1, FS_Difference
  <2>3. Cardinality(W \ OverSet) = window - logical_requests
    BY <1>1, <2>1, <2>2
  <2> QED
    BY <2>2, <2>3 DEF W
<1> QED
  BY <1>1, <1>2, <1>6

\* The requests underway are those of the window that are not over.
LEMMA WindowHolds == Inv /\ StripeInv => AtMostWindow
<1> SUFFICES ASSUME Inv, StripeInv, window_option > 0
             PROVE  Cardinality(Underway) <= window_option
  BY DEF AtMostWindow
<1>1. Underway \subseteq (1 .. window) \ OverSet
  <2> SUFFICES ASSUME NEW i \in Underway PROVE i \in 1 .. window /\ i \notin OverSet
    OBVIOUS
  <2>1. i \in Queue /\ start_time[i] # -1 /\ ~ Array!Complete(Job(i), ios[i])
    BY DEF Underway
  <2>2. Begun(i)
    BY <2>1 DEF Inv, TimeInv
  <2>3. i \notin OverSet
    BY <2>1, CompleteIsOver DEF OverSet
  <2> QED
    BY <2>1, <2>2, <2>3, WindowOpen
<1> QED
  BY <1>1, WindowOpen, FS_Subset

\* "Size of scheduling window" (line 906): whatever the queue, no more requests
\* are underway than -w asks for, although the window itself grows with every
\* request that is done.
THEOREM WindowKept ==
  Spec /\ []FullStripeSkipsParity => []AtMostWindow
<1>1. Init => Inv /\ StripeInv
  BY InitInv, StripeInit
<1>2. Inv /\ StripeInv /\ FullStripeSkipsParity /\ [Next]_vars => Inv' /\ StripeInv'
  BY InvStep, StripeStep
<1>3. Inv /\ StripeInv => AtMostWindow
  BY WindowHolds
<1> QED
  BY <1>1, <1>2, <1>3, PTL DEF Spec
-----------------------------------------------------------------------------
(***************************************************************************)
(* What the array promises for each request.                               *)
(***************************************************************************)
\* Parity disks left alone by what is over and what is underway.
LEMMA SharesKeep ==
  ASSUME NEW m \in Mappings, NEW r, IsRequest(m, r), NEW st, NEW did, NEW doing,
         StatusOK(m, r, st, did, doing), SkipsParity(r, did), SkipsParity(r, doing),
         NEW io, AreShares(m, r, io, did), NEW now, AreShares(m, r, now, doing)
  PROVE  Array!Keeps(JobOf(m, r), io, now)
<1> DEFINE all == AllDisks(m, r)
<1> SUFFICES ASSUME NEW job, job = JobOf(m, r)
             PROVE  Array!Keeps(job, io, now)
  OBVIOUS
<1>1. JobFits(m, r, job, all)
  BY JobByKind
<1>2. ASSUME NEW x \in io \cup now
      PROVE  \E op \in Ops, k \in Shares(m) :
               /\ x = <<op, r.disks[k]>> /\ k \in did[op] \cup doing[op]
               /\ x \in io <=> k \in did[op]
               /\ x \in now <=> k \in doing[op]
  <2>1. PICK op \in Ops, k \in Shares(m) : x = <<op, r.disks[k]>>
    BY <1>2 DEF AreShares
  <2> QED
    BY <1>2, <2>1 DEF AreShares
<1>3. /\ r.op = Read \/ r.op = Write
      /\ Read # Write /\ Ops = {Read, Write} /\ Other(Read) = Write /\ Other(Write) = Read
      /\ Array!Read = Read /\ Array!Write = Write
  BY DEF IsRequest, Ops, Other, Read, Write, Array!Read, Array!Write
<1>4. /\ did \in [Ops -> SUBSET Shares(m)] /\ doing \in [Ops -> SUBSET Shares(m)]
      /\ Kind(m, r) # "update" => did[Other(r.op)] = {} /\ doing[Other(r.op)] = {}
      /\ \A op \in Ops : did[op] \cap doing[op] = {}
  BY DEF StatusOK
<1>5. \A x : x \in all <=> \E k \in Shares(m) : x = r.disks[k]
  BY DEF AllDisks
<1>6. Kind(m, r) \in {"single", "either", "both", "update"}
  BY DEF Kind
<1> HIDE DEF all
<1>7. io \cap now = {}
  BY <1>2, <1>4
\* Requests that make one kind of I/O.
<1>8. ASSUME Kind(m, r) # "update", NEW x \in io \cup now
      PROVE  \E k \in Shares(m) : /\ x = <<r.op, r.disks[k]>>
                                  /\ k \in did[r.op] \cup doing[r.op]
  <2>1. PICK op \in Ops, k \in Shares(m) :
          x = <<op, r.disks[k]>> /\ k \in did[op] \cup doing[op]
    BY <1>2, <1>8
  <2>2. op = r.op \/ op = Other(r.op)
    BY <1>3
  <2> QED
    BY <1>4, <1>8, <2>1, <2>2
<1>9. ASSUME io \cup now \subseteq Array!IOs(job),
             ~ job.any \/ \A a, b \in io \cup now : a = b,
             \A d : <<Write, d>> \in io \cup now => {Read} \X job.reads \subseteq io
      PROVE  Array!Keeps(job, io, now)
  BY <1>3, <1>7, <1>9 DEF Array!Keeps
<1>10. CASE Kind(m, r) = "single"
  <2>1. /\ ~ job.any /\ Array!IOs(job) = {<<r.op, r.disks[1]>>}
        /\ r.op = Write => job.reads = {}
        /\ did[r.op] \cup doing[r.op] \subseteq {1}
    BY <1>1, <1>10 DEF JobFits, StatusOK
  <2>2. ASSUME NEW x \in io \cup now PROVE x = <<r.op, r.disks[1]>>
    BY <1>8, <1>10, <2>1, <2>2
  <2>3. ASSUME NEW d, <<Write, d>> \in io \cup now PROVE {Read} \X job.reads \subseteq io
    <3>1. r.op = Write
      BY <2>2, <2>3
    <3> QED
      BY <2>1, <3>1
  <2> QED
    BY <1>9, <2>1, <2>2, <2>3
<1>11. CASE Kind(m, r) = "either" /\ r.op = Read
  <2>1. /\ job.any /\ Array!IOs(job) = {Read} \X all
        /\ \A k, l \in did[r.op] \cup doing[r.op] : k = l
    BY <1>1, <1>11 DEF JobFits, StatusOK
  <2>2. ASSUME NEW x \in io \cup now PROVE x \in {Read} \X all /\ x[1] = Read
    <3>1. PICK k \in Shares(m) : x = <<r.op, r.disks[k]>>
      BY <1>8, <1>11, <2>2
    <3> QED
      BY <1>5, <1>11, <3>1
  <2>3. ASSUME NEW a \in io \cup now, NEW b \in io \cup now PROVE a = b
    <3>1. PICK k \in Shares(m) : a = <<r.op, r.disks[k]>> /\ k \in did[r.op] \cup doing[r.op]
      BY <1>8, <1>11, <2>3
    <3>2. PICK l \in Shares(m) : b = <<r.op, r.disks[l]>> /\ l \in did[r.op] \cup doing[r.op]
      BY <1>8, <1>11, <2>3
    <3> QED
      BY <2>1, <3>1, <3>2
  <2>4. \A d : <<Write, d>> \notin io \cup now
    BY <1>3, <2>2
  <2> QED
    BY <1>9, <2>1, <2>2, <2>3, <2>4
<1>12. CASE Kind(m, r) = "either" /\ r.op = Write
  <2>1. /\ ~ job.any /\ job.reads = {} /\ Array!IOs(job) = {<<Write, r.disks[1]>>}
        /\ 2 \notin did[Write] \cup doing[Write]
    BY <1>1, <1>12 DEF JobFits, SkipsParity
  <2>2. ASSUME NEW x \in io \cup now PROVE x = <<Write, r.disks[1]>>
    <3>1. PICK k \in Shares(m) : x = <<Write, r.disks[k]>> /\ k \in did[Write] \cup doing[Write]
      BY <1>8, <1>12, <2>2
    <3>2. k = 1
      BY <2>1, <3>1 DEF Shares
    <3> QED
      BY <3>1, <3>2
  <2> QED
    BY <1>9, <2>1, <2>2
<1>13. CASE Kind(m, r) = "both"
  <2>1. /\ ~ job.any /\ job.reads = {} /\ Array!IOs(job) = {Write} \X all
        /\ r.op = Write
    BY <1>1, <1>13 DEF JobFits
  <2>2. ASSUME NEW x \in io \cup now PROVE x \in {Write} \X all
    <3>1. PICK k \in Shares(m) : x = <<Write, r.disks[k]>>
      BY <1>8, <1>13, <2>1, <2>2
    <3> QED
      BY <1>5, <3>1
  <2> QED
    BY <1>9, <2>1, <2>2
<1>14. CASE Kind(m, r) = "update"
  <2>1. /\ ~ job.any /\ job.reads = all
        /\ Array!IOs(job) = ({Read} \X all) \cup ({Write} \X all)
        /\ did[Write] \cup doing[Write] # {} => did[Read] = {1, 2}
        /\ Shares(m) = {1, 2}
    BY <1>1, <1>14 DEF JobFits, StatusOK, Kind, Shares
  <2>2. ASSUME NEW x \in io \cup now PROVE x \in ({Read} \X all) \cup ({Write} \X all)
    <3>1. PICK op \in Ops, k \in Shares(m) : x = <<op, r.disks[k]>>
      BY <1>2, <2>2
    <3> QED
      BY <1>3, <1>5, <3>1
  <2>3. ASSUME NEW d, <<Write, d>> \in io \cup now, NEW x \in {Read} \X all PROVE x \in io
    <3>1. PICK op \in Ops, l \in Shares(m) :
            <<Write, d>> = <<op, r.disks[l]>> /\ l \in did[op] \cup doing[op]
      BY <1>2, <2>3
    <3>2. did[Read] = {1, 2}
      BY <2>1, <3>1
    <3>3. PICK y \in all : x = <<Read, y>>
      BY <2>3
    <3>4. PICK k \in Shares(m) : y = r.disks[k]
      BY <1>5, <3>3
    <3> QED
      BY <1>3, <2>1, <3>2, <3>3, <3>4 DEF AreShares
  <2> QED
    BY <1>9, <2>1, <2>2, <2>3
<1> QED
  BY <1>3, <1>6, <1>10, <1>11, <1>12, <1>13, <1>14

LEMMA DoingAre ==
  ASSUME Inv, NEW i \in Queue
  PROVE  AreShares(mapping, request_queue[i], Array!Underway(i), Doing(i))
<1>1. ASSUME NEW x \in Array!Underway(i)
      PROVE  \E op \in Ops, k \in Shares(mapping) : x = <<op, request_queue[i].disks[k]>>
  <2>1. PICK op \in Ops, d \in DiskIds : x = <<op, d>>
    BY <1>1 DEF Array!Underway, Array!Read, Array!Write, Ops, Read, Write
  <2>2. Serves(d, i, op)
    BY <1>1, <2>1, UnderwayIs
  <2>3. PICK k \in Shares(mapping) : request_queue[i].disks[k] = d
    BY <2>2 DEF Serves, Inv, DiskInv
  <2> QED
    BY <2>1, <2>3
<1>2. ASSUME NEW op \in Ops, NEW k \in Shares(mapping)
      PROVE  <<op, request_queue[i].disks[k]>> \in Array!Underway(i) <=> k \in Doing(i)[op]
  <2>1. request_queue[i].disks[k] \in DiskIds
    BY DEF Inv, QueueInv, IsRequest
  <2>2. <<op, request_queue[i].disks[k]>> \in Array!Underway(i)
          <=> Serves(request_queue[i].disks[k], i, op)
    BY <2>1, UnderwayIs
  <2> QED
    BY <2>2 DEF Doing, DoingIO
<1> QED
  BY <1>1, <1>2 DEF AreShares

\* A completion is counted once for each request that is complete.
CompletionsCounted ==
  logical_requests = Cardinality({i \in Queue : Array!Complete(Job(i), ios[i])})

LEMMA PromiseHolds ==
  Inv /\ StripeInv /\ FullStripeSkipsParity => Array!Promise /\ CompletionsCounted
<1> SUFFICES ASSUME Inv, StripeInv, FullStripeSkipsParity
             PROVE  Array!Promise /\ CompletionsCounted
  OBVIOUS
<1>1. DOMAIN Jobs = Queue /\ \A i \in Queue : Jobs[i] = Job(i)
  BY DEF Jobs
<1>2. ASSUME NEW i \in Queue PROVE Array!Keeps(Job(i), ios[i], Array!Underway(i))
  <2> DEFINE r == request_queue[i]
  <2>1. /\ mapping \in Mappings /\ IsRequest(mapping, r)
        /\ Job(i) = JobOf(mapping, r)
        /\ StatusOK(mapping, r, status[i], Did(i), Doing(i))
        /\ SkipsParity(r, Did(i))
    BY JobIs DEF Inv, QueueInv, ShareInv, StripeInv
  <2>2. AreShares(mapping, r, ios[i], Did(i))
        /\ AreShares(mapping, r, Array!Underway(i), Doing(i))
    BY SharesAre, DoingAre
  <2>3. SkipsParity(r, Doing(i))
    <3> SUFFICES ASSUME r.full_stripe_write, ~ r.full_stripe_write_parity, 2 \in Doing(i)[Write]
                 PROVE  FALSE
      BY DEF SkipsParity
    <3>1. 2 \in Shares(mapping) /\ Serves(r.disks[2], i, Write)
      BY DEF Doing, DoingIO, Ops
    <3>2. r.disks[2] \in DiskIds
      BY <2>1, <3>1 DEF IsRequest
    <3> QED
      BY <3>1, <3>2 DEF FullStripeSkipsParity, Serves
  <2> HIDE DEF r
  <2> QED
    BY <2>1, <2>2, <2>3, SharesKeep
<1>3. CompletionsCounted
  <2>1. \A i \in Queue : Array!Complete(Job(i), ios[i])
                           <=> Over(mapping, request_queue[i], Did(i))
    BY CompleteIsOver
  <2>2. {i \in Queue : Array!Complete(Job(i), ios[i])} = OverSet
    BY <2>1 DEF OverSet
  <2> QED
    BY <2>2 DEF CompletionsCounted, Inv, CountInv
<1> QED
  BY <1>1, <1>2, <1>3 DEF Array!Promise, Jobs

\* Each request makes the I/Os of its level and no others, none twice, no write of a
\* parity update before both reads, and its completion is counted once.
THEOREM PromiseKept ==
  Spec /\ []FullStripeSkipsParity => []Array!Promise /\ []CompletionsCounted
<1>1. Init => Inv /\ StripeInv
  BY InitInv, StripeInit
<1>2. Inv /\ StripeInv /\ FullStripeSkipsParity /\ [Next]_vars => Inv' /\ StripeInv'
  BY InvStep, StripeStep
<1> QED
  BY <1>1, <1>2, PromiseHolds, PTL DEF Spec
-----------------------------------------------------------------------------
(***************************************************************************)
(* The latencies.  A request underway has a tick of its own for each tick  *)
(* since its first I/O: a tick of the clock adds one for each of them, a   *)
(* completion takes the ticks of its request away and adds them to the     *)
(* latencies.                                                              *)
(***************************************************************************)
UnderwayIsStarted ==
  Underway = {i \in Queue : start_time[i] # -1 /\ i \notin OverSet}

LEMMA StartedNotOver == Inv /\ StripeInv => UnderwayIsStarted
  BY CompleteIsOver DEF Underway, OverSet, UnderwayIsStarted

LEMMA StartedNotOverNext == Inv' /\ StripeInv' => UnderwayIsStarted'
  BY StartedNotOver, PTL

\* The ticks of the requests underway.
LEMMA TicksAre ==
  ASSUME Inv
  PROVE  /\ \A p : p \in TicksUnderway <=>
                     \E i \in Underway : \E t \in start_time[i] .. timer - 1 : p = <<i, t>>
         /\ Underway \subseteq Queue /\ IsFiniteSet(Underway)
         /\ IsFiniteSet(TicksUnderway)
<1>1. \A p : p \in TicksUnderway <=>
               \E i \in Underway : \E t \in start_time[i] .. timer - 1 : p = <<i, t>>
  BY DEF TicksUnderway
<1>2. Underway \subseteq Queue
  BY DEF Underway
<1>3. IsFiniteSet(Queue)
  BY OverSetFinite DEF Inv
<1>4. MaxTimer \in Nat /\ timer \in 0 .. MaxTimer /\ start_time \in [Queue -> -1 .. MaxTimer]
  BY InputAssumption DEF Inv, TimeInv
<1>5. IsFiniteSet(-1 .. MaxTimer)
  BY <1>4, FS_Interval
<1>6. IsFiniteSet(Queue \X (-1 .. MaxTimer))
  BY <1>3, <1>5, FS_Product
<1>7. TicksUnderway \subseteq Queue \X (-1 .. MaxTimer)
  <2> SUFFICES ASSUME NEW i \in Underway, NEW t \in start_time[i] .. timer - 1
               PROVE  i \in Queue /\ t \in -1 .. MaxTimer
    BY <1>1
  <2>1. start_time[i] \in -1 .. MaxTimer
    BY <1>2, <1>4
  <2> QED
    BY <1>2, <1>4, <2>1
<1> QED
  BY <1>1, <1>2, <1>3, <1>6, <1>7, FS_Subset

LEMMA LatencyTick ==
  ASSUME Inv, StripeInv, Inv', StripeInv', LatencyAccounted, AdvanceClock
  PROVE  LatencyAccounted'
<1>1. /\ IF timer < MaxTimer
           THEN timer' = timer + 1 /\ underway_ticks' = underway_ticks + Cardinality(Underway)
           ELSE timer' = timer /\ underway_ticks' = underway_ticks
      /\ UNCHANGED <<start_time, latency_total>> /\ QuietStep
  BY DEF AdvanceClock, targetVars, countVars, clockVars, QuietStep
<1>2. Underway' = Underway
  BY <1>1, StartedNotOver, StartedNotOverNext, QuietShares DEF UnderwayIsStarted
<1>3. CASE ~ timer < MaxTimer
  BY <1>1, <1>2, <1>3 DEF LatencyAccounted, TicksUnderway
<1>4. CASE timer < MaxTimer
  <2> DEFINE fresh == Underway \X {timer}
  <2>1. timer \in Nat /\ latency_total \in Nat /\ \A i \in Queue : start_time[i] \in Int /\ start_time[i] <= timer
    BY DEF Inv, TimeInv
  <2>2. TicksUnderway' = TicksUnderway \cup fresh
    <3>1. \A i \in Underway : start_time[i] .. timer' - 1 = (start_time[i] .. timer - 1) \cup {timer}
      BY <1>1, <1>4, <2>1, TicksAre
    <3>2. TicksUnderway' = UNION {{i} \X (start_time[i] .. timer' - 1) : i \in Underway}
      BY <1>1, <1>2 DEF TicksUnderway
    <3>3. \A p : p \in TicksUnderway' <=>
                   \E i \in Underway : \E t \in start_time[i] .. timer' - 1 : p = <<i, t>>
      BY <3>2
    <3> QED
      BY <3>1, <3>3, TicksAre
  <2>3. TicksUnderway \cap fresh = {}
    <3> SUFFICES ASSUME NEW i \in Underway, timer \in start_time[i] .. timer - 1 PROVE FALSE
      BY TicksAre
    <3> QED
      BY <2>1, TicksAre
  <2>4. IsFiniteSet(fresh) /\ Cardinality(fresh) = Cardinality(Underway)
    BY TagCount, TicksAre
  <2> HIDE DEF fresh
  <2>5. Cardinality(TicksUnderway') = Cardinality(TicksUnderway) + Cardinality(Underway)
    BY <2>2, <2>3, <2>4, DisjointCount, TicksAre
  <2>6. Cardinality(TicksUnderway) \in Nat /\ Cardinality(Underway) \in Nat
    BY FS_CardinalityType, TicksAre
  <2> QED
    BY <1>1, <1>4, <2>1, <2>5, <2>6 DEF LatencyAccounted
<1> QED
  BY <1>3, <1>4

LEMMA LatencyStart ==
  ASSUME Inv, StripeInv, Inv', StripeInv', LatencyAccounted,
         NEW d \in DiskIds, NEW i \in Queue, NEW offer \in Offers(i, d), Starts(d, i, offer)
  PROVE  LatencyAccounted'
<1>1. /\ start_time' = [start_time EXCEPT ![i] = IF @ = -1 THEN timer ELSE @]
      /\ UNCHANGED <<timer, latency_total, underway_ticks, request_queue>>
  BY DEF Starts, StartRequest, MarkStart, countVars, clockVars, inputVars
<1>2. OverSet' = OverSet /\ Queue' = Queue
  BY <1>1, BegunStart DEF Queue
<1>3. /\ timer \in Nat /\ start_time \in [Queue -> -1 .. MaxTimer]
  BY DEF Inv, TimeInv
<1>4. CASE start_time[i] # -1
  <2>1. start_time' = start_time
    BY <1>1, <1>3, <1>4
  <2>2. Underway' = Underway
    BY <1>2, <2>1, StartedNotOver, StartedNotOverNext DEF UnderwayIsStarted
  <2> QED
    BY <1>1, <2>1, <2>2 DEF LatencyAccounted, TicksUnderway
<1>5. CASE start_time[i] = -1
  <2>1. /\ start_time'[i] = timer
        /\ \A j \in Queue \ {i} : start_time'[j] = start_time[j]
    BY <1>1, <1>3, <1>5
  <2>2. i \notin Underway
    BY <1>5, StartedNotOver DEF UnderwayIsStarted
  <2>3. Underway \subseteq Underway' /\ Underway' \subseteq Underway \cup {i}
    BY <1>2, <2>1, <2>2, StartedNotOver, StartedNotOverNext DEF UnderwayIsStarted
  <2>4. start_time'[i] .. timer - 1 = {}
    BY <1>3, <2>1
  <2>5. \A j \in Underway : j \in Queue \ {i}
    BY <2>2, TicksAre
  <2>6. \A p : p \in TicksUnderway' <=>
                 \E j \in Underway' : \E t \in start_time'[j] .. timer - 1 : p = <<j, t>>
    BY <1>1 DEF TicksUnderway
  <2>7. ASSUME NEW p PROVE p \in TicksUnderway' <=> p \in TicksUnderway
    BY <2>1, <2>3, <2>4, <2>5, <2>6, TicksAre
  <2>8. TicksUnderway' = TicksUnderway
    BY <2>7
  <2> QED
    BY <1>1, <2>8 DEF LatencyAccounted
<1> QED
  BY <1>4, <1>5

LEMMA LatencyFinish ==
  ASSUME Inv, StripeInv, Inv', StripeInv', LatencyAccounted, FinishIO
  PROVE  LatencyAccounted'
<1>1. PICK d \in DiskIds, i \in Queue, op \in Ops, k \in Shares(mapping) :
        FinishesShare(d, i, op, k)
  BY FinishEffect
<1>2. /\ UNCHANGED <<timer, underway_ticks, start_time>>
      /\ latency_total' = latency_total
           + (IF Completion(i, d).done THEN timer - start_time[i] ELSE 0)
  BY <1>1 DEF FinishIO, FinishesShare, clockVars, targetVars
<1>3. /\ Queue' = Queue /\ i \notin OverSet
      /\ OverSet' = IF Completion(i, d).done THEN OverSet \cup {i} ELSE OverSet
  BY <1>1, FinishEffect DEF FinishesShare, OverSet
<1>4. CASE ~ Completion(i, d).done
  <2>1. Underway' = Underway
    BY <1>2, <1>3, <1>4, StartedNotOver, StartedNotOverNext DEF UnderwayIsStarted
  <2> QED
    BY <1>2, <1>4, <2>1 DEF LatencyAccounted, TicksUnderway, Inv, TimeInv
<1>5. CASE Completion(i, d).done
  <2> DEFINE gone == {i} \X (start_time[i] .. timer - 1)
  <2>1. start_time[i] # -1
    <3>1. k \in Doing(i)[op]
      BY <1>1 DEF FinishesShare
    <3>2. Begun(i)
      BY <1>1, <3>1 DEF Begun, Doing
    <3> QED
      BY <3>2 DEF Inv, TimeInv
  <2>2. i \in Underway /\ Underway' = Underway \ {i}
    BY <1>2, <1>3, <1>5, <2>1, StartedNotOver, StartedNotOverNext DEF UnderwayIsStarted
  <2>3. /\ timer \in Nat /\ latency_total \in Nat /\ start_time[i] \in Int /\ start_time[i] <= timer
    BY DEF Inv, TimeInv
  <2>4. \A p : p \in TicksUnderway' <=>
                 \E j \in Underway \ {i} : \E t \in start_time[j] .. timer - 1 : p = <<j, t>>
    BY <1>2, <2>2 DEF TicksUnderway
  <2>5. TicksUnderway = TicksUnderway' \cup gone /\ TicksUnderway' \cap gone = {}
    BY <2>2, <2>4, TicksAre
  <2>6. IsFiniteSet(gone) /\ Cardinality(gone) = timer - start_time[i]
    <3> DEFINE T == start_time[i] .. timer - 1
    <3>1. IsFiniteSet(T) /\ Cardinality(T) = timer - start_time[i]
      <4>1. start_time[i] \in Int /\ timer - 1 \in Int
        BY <2>3
      <4>2. /\ IsFiniteSet(T)
            /\ Cardinality(T) = IF start_time[i] > timer - 1 THEN 0
                                                            ELSE timer - 1 - start_time[i] + 1
        BY <4>1, FS_Interval
      <4> QED
        BY <2>3, <4>2
    <3> HIDE DEF T
    <3>2. IsFiniteSet({i} \X T) /\ Cardinality({i} \X T) = Cardinality({i}) * Cardinality(T)
      BY <3>1, FS_Singleton, FS_Product
    <3>3. Cardinality({i}) = 1 /\ Cardinality(T) \in Nat
      BY <3>1, FS_Singleton, FS_CardinalityType
    <3>4. Cardinality({i} \X T) = Cardinality(T)
      BY <3>2, <3>3
    <3> QED
      BY <3>1, <3>2, <3>4 DEF T
  <2> HIDE DEF gone
  <2>7. IsFiniteSet(TicksUnderway')
    BY <2>5, FS_Subset, TicksAre
  <2>8. Cardinality(TicksUnderway) = Cardinality(TicksUnderway') + (timer - start_time[i])
    BY <2>5, <2>6, <2>7, DisjointCount
  <2>9. Cardinality(TicksUnderway') \in Nat
    BY <2>7, FS_CardinalityType
  <2> QED
    BY <1>2, <1>5, <2>3, <2>8, <2>9 DEF LatencyAccounted
<1> QED
  BY <1>4, <1>5

LEMMA LatencyStep ==
  ASSUME Inv, StripeInv, Inv', StripeInv', LatencyAccounted, [Next]_vars
  PROVE  LatencyAccounted'
<1>1. ASSUME UNCHANGED <<timer, latency_total, underway_ticks, start_time>>, QuietStep
      PROVE  LatencyAccounted'
  <2>1. Underway' = Underway
    BY <1>1, StartedNotOver, StartedNotOverNext, QuietShares DEF UnderwayIsStarted
  <2> QED
    BY <1>1, <2>1 DEF LatencyAccounted, TicksUnderway
<1>2. CASE \E d \in DiskIds, i \in Queue : \E offer \in Offers(i, d) : Starts(d, i, offer)
  BY <1>2, LatencyStart
<1>3. CASE ScheduleDisk
  BY <1>1, <1>2, <1>3, ScheduleCases DEF targetVars, countVars, clockVars, QuietStep
<1>4. CASE UNCHANGED vars \/ Start \/ Pause \/ Exit \/ Tick \/ CheckDone \/ CheckNotDone
             \/ AnimatePaused \/ IdleDisk \/ EndAnimate \/ MoveHead \/ Transfer
  <2>1. UNCHANGED <<timer, latency_total, underway_ticks, start_time>>
    BY <1>4 DEF vars, targetVars, countVars, clockVars, Start, Pause, Exit, Tick,
         CheckDone, CheckNotDone, AnimatePaused, IdleDisk, EndAnimate, MoveHead, Transfer
  <2>2. QuietStep
    BY <1>4, QuietActions DEF QuietAction
  <2> QED
    BY <1>1, <2>1, <2>2
<1> QED
  BY <1>3, <1>4, LatencyTick, LatencyFinish DEF Next, HandlerStep

LEMMA LatencyInit == Init => LatencyAccounted
<1> SUFFICES ASSUME Init PROVE LatencyAccounted
  OBVIOUS
<1>1. latency_total = 0 /\ underway_ticks = 0 /\ timer = 0
  BY DEF Init
<1>2. \A i \in Queue : start_time[i] = -1
  BY DEF Init, Queue, Requests
<1>3. TicksUnderway = {}
  BY <1>2 DEF TicksUnderway, Underway
<1> QED
  BY <1>1, <1>3, FS_EmptySet DEF LatencyAccounted

\* The average latency PrintStats reports is right: the latencies summed up, with
\* the time the requests underway have already taken, are the requests underway
\* at each tick summed up over the ticks (Little's law).
THEOREM LatenciesAdd ==
  Spec /\ []FullStripeSkipsParity => []LatencyAccounted
<1>1. Init => Inv /\ StripeInv /\ LatencyAccounted
  BY InitInv, StripeInit, LatencyInit
<1>2. Inv /\ StripeInv /\ FullStripeSkipsParity /\ LatencyAccounted /\ [Next]_vars
        => Inv' /\ StripeInv' /\ LatencyAccounted'
  BY InvStep, StripeStep, LatencyStep
<1> QED
  BY <1>1, <1>2, PTL DEF Spec
-----------------------------------------------------------------------------
(***************************************************************************)
(* The end.  request_count reaches request_count_needed when every request *)
(* has done all it takes, provided that a full stripe is one of writes:    *)
(* for three reads the code expects too few I/Os.                          *)
(***************************************************************************)
StripesAreWrites == \A i \in Queue : request_queue[i].full_stripe_write => request_queue[i].op = Write

Slots == SlotsOf(request_queue)
NeedSlots == SlotsNeeded(mapping, request_queue)
HasSlots == {s \in Slots : SlotFilled(mapping, request_queue[s[1]], Did(s[1]), s[2][1], s[2][2])}

EndInv ==
  /\ IsFiniteSet(NeedSlots)
  /\ request_count_needed = Cardinality(NeedSlots)
  /\ request_count = Cardinality(HasSlots)
  /\ is_done => HasSlots = NeedSlots

LEMMA InitEnd ==
  ASSUME Init, StripesAreWrites
  PROVE  EndInv
<1>1. PICK in \in Inputs :
        /\ mapping = in.mapping
        /\ request_queue = Requests(in.mapping, in.addr)
        /\ request_count_needed = CountNeeded(in.mapping, in.addr)
        /\ ios = [i \in DOMAIN in.addr |-> {}]
        /\ request_count = 0 /\ is_done = FALSE
  BY DEF Init
<1>2. /\ in.mapping \in Mappings
      /\ in.addr \in Seq([op : {Read, Write}, addr : Nat])
  BY InputAssumption DEF Mappings
<1>3. DOMAIN request_queue = DOMAIN in.addr
  BY <1>1 DEF Requests
<1>4. \A i \in DOMAIN in.addr :
        Requests(in.mapping, in.addr)[i].full_stripe_write => in.addr[i].op = Write
  BY <1>1, <1>3, RequestFields DEF StripesAreWrites, Queue
<1>5. IsFiniteSet(NeedSlots) /\ request_count_needed = Cardinality(NeedSlots)
  BY <1>1, <1>2, <1>4, NeededCount DEF NeedSlots
<1>6. HasSlots = {}
  <2> SUFFICES ASSUME NEW i \in Queue, NEW op \in Ops, NEW k \in {1, 2}
               PROVE  ~ SlotFilled(mapping, request_queue[i], Did(i), op, k)
    BY DEF HasSlots, Slots, SlotsOf, Queue
  <2>1. DidIO(i, op) = {}
    BY <1>1, <1>3 DEF DidIO, Queue
  <2>2. Did(i)[op] = {}
    BY <2>1 DEF Did
  <2> QED
    BY <2>2 DEF SlotFilled
<1>7. Cardinality(HasSlots) = 0
  BY <1>6, FS_EmptySet
<1> QED
  BY <1>1, <1>5, <1>7 DEF EndInv

LEMMA HasNeeded ==
  ASSUME Inv
  PROVE  HasSlots \subseteq NeedSlots
<1> SUFFICES ASSUME NEW i \in Queue, NEW op \in Ops, NEW k \in {1, 2},
                    SlotFilled(mapping, request_queue[i], Did(i), op, k)
             PROVE  SlotNeeded(mapping, request_queue[i], op, k)
  BY DEF HasSlots, Slots, NeedSlots, SlotsNeeded, SlotsOf, Queue
<1>1. /\ mapping \in Mappings /\ IsRequest(mapping, request_queue[i])
      /\ StatusOK(mapping, request_queue[i], status[i], Did(i), Doing(i))
  BY DEF Inv, QueueInv, ShareInv
<1> QED
  BY <1>1, FilledIsNeeded

LEMMA AllOver ==
  ASSUME Inv, HasSlots = NeedSlots, NEW i \in Queue
  PROVE  /\ Over(mapping, request_queue[i], Did(i))
         /\ \A op \in Ops : Doing(i)[op] = {}
         /\ \A d : Offers(i, d) = {}
<1> DEFINE r == request_queue[i]
           m == mapping
<1>1. /\ m \in Mappings /\ IsRequest(m, r)
      /\ StatusOK(m, r, status[i], Did(i), Doing(i))
  BY DEF Inv, QueueInv, ShareInv
<1>2. ASSUME NEW op \in Ops, NEW k \in {1, 2}, SlotNeeded(m, r, op, k)
      PROVE  SlotFilled(m, r, Did(i), op, k)
  <2> DEFINE s == <<i, <<op, k>>>>
  <2>1. s \in SlotsOf(request_queue) /\ s[1] = i /\ s[2][1] = op /\ s[2][2] = k
    BY DEF SlotsOf, Queue
  <2> HIDE DEF s
  <2>2. s \in NeedSlots
    BY <1>2, <2>1 DEF NeedSlots, SlotsNeeded
  <2> QED
    BY <2>1, <2>2 DEF HasSlots
<1>3. Over(m, r, Did(i))
  BY <1>1, <1>2, FilledIsOver
<1>4. /\ \A op \in Ops : Doing(i)[op] = {}
      /\ \A k \in Shares(m) : OffersOf(m, r, status[i], r.disks[k]) = {}
  BY <1>1, <1>3, OverIsQuiet
<1>5. ASSUME NEW d PROVE Offers(i, d) = {}
  BY <1>1, <1>4, OffersAre, OffersToOwnDisks
<1> QED
  BY <1>3, <1>4, <1>5

\* The end of an I/O fills a slot.
LEMMA FinishSlots ==
  ASSUME Inv, FinishIO
  PROVE  /\ NeedSlots' = NeedSlots
         /\ \E s \in NeedSlots : s \notin HasSlots /\ HasSlots' = HasSlots \cup {s}
<1>1. UNCHANGED <<mapping, request_queue>>
  BY DEF FinishIO, inputVars
<1>2. PICK d \in DiskIds, i \in Queue, op \in Ops, k \in Shares(mapping) :
        FinishesShare(d, i, op, k)
  BY FinishEffect
<1> DEFINE r == request_queue[i]
           m == mapping
<1>3. /\ m \in Mappings /\ IsRequest(m, r)
      /\ StatusOK(m, r, status[i], Did(i), Doing(i))
  BY DEF Inv, QueueInv, ShareInv
<1>4. /\ k \in Doing(i)[op] /\ Did(i)' = With(Did(i), op, k)
      /\ \A j \in Queue \ {i} : Did(j)' = Did(j)
  BY <1>2 DEF FinishesShare
<1>5. PICK o \in Ops, l \in {1, 2} :
        /\ SlotNeeded(m, r, o, l) /\ ~ SlotFilled(m, r, Did(i), o, l)
        /\ \A x \in Ops, y \in {1, 2} :
             SlotFilled(m, r, Did(i)', x, y) <=>
               SlotFilled(m, r, Did(i), x, y) \/ (x = o /\ y = l)
  BY <1>3, <1>4, FillSlot
<1> DEFINE s == <<i, <<o, l>>>>
<1>6. s \in Slots /\ s[1] = i /\ s[2][1] = o /\ s[2][2] = l
  BY DEF Slots, SlotsOf, Queue
<1>7. ASSUME NEW x \in Slots
      PROVE  SlotFilled(m, request_queue[x[1]], Did(x[1])', x[2][1], x[2][2]) <=>
               SlotFilled(m, request_queue[x[1]], Did(x[1]), x[2][1], x[2][2]) \/ x = s
  <2>1. x[1] \in Queue /\ x[2][1] \in Ops /\ x[2][2] \in {1, 2} /\ x = <<x[1], <<x[2][1], x[2][2]>>>>
    BY DEF Slots, SlotsOf, Queue
  <2>2. x = s <=> x[1] = i /\ x[2][1] = o /\ x[2][2] = l
    BY <2>1
  <2> HIDE DEF s
  <2>3. CASE x[1] = i
    BY <1>5, <2>1, <2>2, <2>3
  <2>4. CASE x[1] # i
    BY <1>4, <2>1, <2>2, <2>4
  <2> QED
    BY <2>3, <2>4
<1> HIDE DEF s
<1>8. Slots' = Slots /\ NeedSlots' = NeedSlots
  BY <1>1 DEF Slots, NeedSlots
<1>9. HasSlots' = {x \in Slots : SlotFilled(m, request_queue[x[1]], Did(x[1])', x[2][1], x[2][2])}
  BY <1>1, <1>8 DEF HasSlots
<1>10. s \in NeedSlots
  BY <1>5, <1>6 DEF NeedSlots, SlotsNeeded, Slots
<1>11. s \notin HasSlots
  BY <1>5, <1>6 DEF HasSlots
<1>12. HasSlots' = HasSlots \cup {s}
  BY <1>6, <1>7, <1>9 DEF HasSlots
<1> QED
  BY <1>8, <1>10, <1>11, <1>12

\* The other steps fill none.
LEMMA SlotsSame ==
  ASSUME UNCHANGED <<mapping, request_queue, ios>>
  PROVE  HasSlots' = HasSlots /\ NeedSlots' = NeedSlots
<1>1. \A i : Did(i)' = Did(i)
  BY DidSame
<1>2. \A x \in Slots : Did(x[1])' = Did(x[1])
  BY <1>1
<1> QED
  BY <1>2 DEF HasSlots, NeedSlots, Slots

LEMMA EndQuiet ==
  ASSUME Inv, QuietAction \/ ScheduleDisk
  PROVE  /\ UNCHANGED <<mapping, request_queue, ios, request_count, request_count_needed>>
         /\ is_done' # is_done => /\ CheckDone /\ request_count = request_count_needed
                                  /\ is_done' = TRUE
<1>1. CASE UNCHANGED vars \/ ScheduleDisk
  BY <1>1 DEF vars, countVars, inputVars, guiVars, ScheduleDisk
<1>2. CASE Start \/ Pause \/ Exit \/ Tick
  BY <1>2 DEF Start, Pause, Exit, Tick, countVars, inputVars, guiVars
<1>3. CASE CheckDone
  BY <1>3 DEF CheckDone, countVars, inputVars
<1>4. CASE CheckNotDone \/ AnimatePaused \/ AdvanceClock \/ IdleDisk \/ EndAnimate
  BY <1>4 DEF CheckNotDone, AnimatePaused, AdvanceClock, IdleDisk, EndAnimate,
              countVars, inputVars, guiVars
<1>5. CASE MoveHead \/ Transfer
  BY <1>5 DEF MoveHead, Transfer, countVars, inputVars, guiVars
<1> QED
  BY <1>1, <1>2, <1>3, <1>4, <1>5 DEF QuietAction

LEMMA EndStep ==
  ASSUME Inv, EndInv, [Next]_vars
  PROVE  EndInv'
<1>1. HasSlots \subseteq NeedSlots /\ IsFiniteSet(NeedSlots) /\ IsFiniteSet(HasSlots)
  <2>1. HasSlots \in SUBSET NeedSlots
    BY HasNeeded
  <2> QED
    BY <2>1, FS_Subset DEF EndInv
<1>2. CASE FinishIO
  <2>1. PICK s \in NeedSlots : s \notin HasSlots /\ HasSlots' = HasSlots \cup {s}
    BY <1>2, FinishSlots
  <2>2. NeedSlots' = NeedSlots
    BY <1>2, FinishSlots
  <2>3. Cardinality(HasSlots') = Cardinality(HasSlots) + 1
    BY <1>1, <2>1, FS_AddElement
  <2>4. request_count' = request_count + 1 /\ is_done' = is_done
        /\ request_count_needed' = request_count_needed
    BY <1>2 DEF FinishIO, guiVars, inputVars
  <2>5. ~ is_done
    BY <2>1 DEF EndInv
  <2> QED
    BY <2>2, <2>3, <2>4, <2>5 DEF EndInv
<1>3. CASE QuietAction \/ ScheduleDisk
  <2>1. HasSlots' = HasSlots /\ NeedSlots' = NeedSlots
    BY <1>3, EndQuiet, SlotsSame
  <2>2. UNCHANGED <<request_count, request_count_needed>>
    BY <1>3, EndQuiet
  <2>3. CASE is_done' = is_done
    BY <2>1, <2>2, <2>3 DEF EndInv
  <2>4. CASE is_done' # is_done
    <3>1. request_count = request_count_needed
      BY <1>3, <2>4, EndQuiet
    <3>2. Cardinality(HasSlots) = Cardinality(NeedSlots)
      BY <3>1 DEF EndInv
    <3>3. HasSlots = NeedSlots
      BY <1>1, <3>2, FS_Subset
    <3> QED
      BY <2>1, <2>2, <3>3 DEF EndInv
  <2> QED
    BY <2>3, <2>4
<1> QED
  BY <1>2, <1>3 DEF Next, HandlerStep, QuietAction

LEMMA IdleWhenDone ==
  ASSUME Inv, EndInv, is_done, NEW d \in DiskIds
  PROVE  disk_state[d] = "NULL"
<1> SUFFICES ASSUME disk_state[d] # "NULL" PROVE FALSE
  OBVIOUS
<1> DEFINE i == current_target[d]
           op == current_optype[d]
<1>1. PICK k \in Shares(mapping) : request_queue[i].disks[k] = d /\ i \in Queue /\ op \in Ops
  BY DEF Inv, DiskInv
<1>2. k \in Doing(i)[op]
  BY <1>1 DEF Doing, DoingIO, Serves
<1>3. HasSlots = NeedSlots
  BY DEF EndInv
<1> HIDE DEF i, op
<1> QED
  BY <1>1, <1>2, <1>3, AllOver

LEMMA DoneHolds == Inv /\ StripeInv /\ EndInv => DoneIsReal
<1> SUFFICES ASSUME Inv, StripeInv, EndInv, is_done
             PROVE  /\ \A i \in Queue : Array!Complete(Job(i), ios[i])
                    /\ logical_requests = Len(request_queue)
                    /\ \A d \in DiskIds : disk_state[d] = "NULL"
  BY DEF DoneIsReal
<1>1. \A i \in Queue : Over(mapping, request_queue[i], Did(i))
  BY AllOver DEF EndInv
<1>2. \A i \in Queue : Array!Complete(Job(i), ios[i])
  BY <1>1, CompleteIsOver
<1>3. OverSet = Queue
  BY <1>1 DEF OverSet
<1>4. logical_requests = Len(request_queue)
  BY <1>3, OverSetFinite DEF Inv, CountInv
<1> QED
  BY <1>2, <1>4, IdleWhenDone

\* "check if done" (line 759) counts right: when the simulator declares itself
\* done every request has all its I/Os, every completion was counted, and no disk
\* is at work.  Not so after three reads in a row on RAID-4, for which the code
\* expects too few I/Os, nor when a full stripe uses the parity disk too often.
THEOREM DoneCorrect ==
  Spec /\ StripesAreWrites /\ []FullStripeSkipsParity => []DoneIsReal
<1>1. Init /\ StripesAreWrites => Inv /\ StripeInv /\ EndInv
  BY InitInv, StripeInit, InitEnd
<1>2. Inv /\ StripeInv /\ EndInv /\ FullStripeSkipsParity /\ [Next]_vars
        => Inv' /\ StripeInv' /\ EndInv'
  BY InvStep, StripeStep, EndStep
<1>3. Inv /\ StripeInv /\ EndInv => DoneIsReal
  BY DoneHolds
<1> QED
  BY <1>1, <1>2, <1>3, PTL DEF Spec

LEMMA DoneStep ==
  ASSUME Inv, EndInv, [Next]_vars, is_done
  PROVE  is_done' /\ UNCHANGED <<disk_state, status, countVars>>
<1>1. \A d \in DiskIds : disk_state[d] = "NULL"
  BY IdleWhenDone
<1>2. \A i \in Queue : \A d : Offers(i, d) = {}
  BY AllOver DEF EndInv
<1>3. CASE FinishIO \/ Transfer
  <2>1. adisk \in DiskIds
    BY <1>3 DEF FinishIO, Transfer, Inv, ControlInv, DiskIds, disk_count
  <2>2. disk_state[adisk] = "NULL"
    BY <1>1, <2>1
  <2> QED
    BY <1>3, <2>2 DEF FinishIO, Transfer
<1>4. CASE ScheduleDisk
  <2>1. UNCHANGED <<disk_state, status>>
    <3>1. ~ \E d \in DiskIds, i \in Queue : \E offer \in Offers(i, d) : Starts(d, i, offer)
      BY <1>2
    <3> QED
      BY <1>4, <3>1, ScheduleCases
  <2> QED
    BY <1>4, <2>1 DEF ScheduleDisk, guiVars
<1>5. CASE CheckDone
  BY <1>5 DEF CheckDone
<1>6. CASE CheckNotDone \/ AnimatePaused \/ AdvanceClock \/ IdleDisk \/ EndAnimate
  BY <1>6 DEF CheckNotDone, AnimatePaused, AdvanceClock, IdleDisk, EndAnimate, guiVars
<1>7. CASE Start \/ Pause \/ Exit \/ Tick
  BY <1>7 DEF Start, Pause, Exit, Tick, guiVars
<1>8. CASE MoveHead
  BY <1>8 DEF MoveHead, guiVars
<1>9. CASE UNCHANGED vars
  BY <1>9 DEF vars, guiVars
<1> QED
  BY <1>3, <1>4, <1>5, <1>6, <1>7, <1>8, <1>9 DEF Next, HandlerStep

\* Once done, the simulator stays so: no key, pressed in any order, starts another
\* I/O or counts one.
THEOREM DoneStays ==
  Spec /\ StripesAreWrites => StaysDone
<1>1. Init /\ StripesAreWrites => Inv /\ EndInv
  BY InitInv, InitEnd
<1>2. Inv /\ EndInv /\ [Next]_vars => Inv' /\ EndInv'
  BY InvStep, EndStep
<1>3. Inv /\ EndInv /\ [Next]_vars
        => [is_done => is_done' /\ UNCHANGED <<disk_state, status, countVars>>]_vars
  BY DoneStep
<1> QED
  BY <1>1, <1>2, <1>3, PTL DEF Spec, StaysDone
-----------------------------------------------------------------------------
(***************************************************************************)
(* No disk idles.  GetNextIOs leaves behind it disks that have nothing to  *)
(* start, and nothing comes up before the next completion.                 *)
(***************************************************************************)
Settled(d) == disk_state[d] = "NULL" => Startable(d) = {}

IdleInv ==
  /\ ctl \in {"enter", "animate"} \/ (ctl = "none" /\ callbacks > 0) =>
       \A d \in DiskIds : Settled(d)
  /\ ctl = "schedule" => \A d \in DiskIds : d < sdisk => Settled(d)

\* Nothing new comes up for a disk by a step that changes no status.
LEMMA SettledSame ==
  ASSUME UNCHANGED <<mapping, request_queue, status, window>>,
         NEW d, disk_state'[d] = "NULL" <=> disk_state[d] = "NULL"
  PROVE  Settled(d)' <=> Settled(d)
<1>1. \A i : Offers(i, d)' = Offers(i, d)
  BY DEF Offers
<1>2. Startable(d)' = Startable(d)
  BY <1>1 DEF Startable
<1> QED
  BY <1>2 DEF Settled

LEMMA OffersAreNext ==
  ASSUME mapping' \in Mappings, NEW i, NEW d
  PROVE  Offers(i, d)' = OffersOf(mapping', request_queue'[i], status'[i], d)
<1>1. /\ mapping' = 0 \/ mapping' = 1 \/ mapping' = 4 \/ mapping' = 5
      /\ 0 # 1 /\ 0 # 4 /\ 0 # 5 /\ 1 # 4 /\ 1 # 5 /\ 4 # 5
      /\ 1 # 0 /\ 4 # 0 /\ 5 # 0 /\ 4 # 1 /\ 5 # 1 /\ 5 # 4
  BY DEF Mappings
<1> QED
  BY <1>1, Zenon DEF Offers, OffersOf

\* The start of an I/O offers nothing new to the other disks.
LEMMA StartSettles ==
  ASSUME Inv, NEW i \in Queue, NEW d \in DiskIds, NEW offer \in Offers(i, d),
         StartRequest(d, i, offer), UNCHANGED <<inputVars, window>>,
         NEW e \in DiskIds, Settled(e) \/ e = d
  PROVE  Settled(e)'
<1> DEFINE m == mapping
           r == request_queue[i]
<1>1. /\ m \in Mappings /\ \A j \in Queue : IsRequest(m, request_queue[j])
      /\ status[i] \in [Shares(m) -> Statuses]
      /\ DOMAIN status = Queue
      /\ disk_state \in [DiskIds -> DiskStates]
  BY DEF Inv, QueueInv, ShareInv, DiskInv, StatusOK
<1>2. /\ UNCHANGED <<mapping, request_queue, window>>
      /\ status' = [status EXCEPT ![i] = offer.status]
      /\ disk_state' = [disk_state EXCEPT ![d] = "SEEK"]
  BY DEF StartRequest, inputVars
<1>3. CASE e = d
  <2>1. disk_state'[e] # "NULL"
    BY <1>1, <1>2, <1>3
  <2> QED
    BY <2>1 DEF Settled
<1>4. CASE e # d
  <2> SUFFICES ASSUME disk_state[e] = "NULL", NEW j \in Startable(e)' PROVE FALSE
    <3>1. disk_state'[e] = disk_state[e]
      BY <1>1, <1>2, <1>4
    <3> QED
      BY <3>1 DEF Settled
  <2>1. /\ j \in Queue /\ (window = -1 \/ j <= window)
        /\ OffersOf(m, request_queue[j], status'[j], e) # {}
    <3>1. j \in DOMAIN request_queue' /\ (window' = -1 \/ j <= window') /\ Offers(j, e)' # {}
      BY DEF Startable
    <3>2. Offers(j, e)' = OffersOf(mapping', request_queue'[j], status'[j], e)
      BY <1>1, <1>2, OffersAreNext
    <3> QED
      BY <1>2, <3>1, <3>2 DEF Queue
  <2>2. OffersOf(m, request_queue[j], status[j], e) # {}
    <3>1. CASE j = i
      <4>1. status'[j] = offer.status
        BY <1>1, <1>2, <3>1
      <4>2. offer \in OffersOf(m, r, status[i], d)
        BY <1>1, OffersAre
      <4>3. PICK k \in Shares(m) : r.disks[k] = d
        BY <1>1, <4>2, OffersToOwnDisks
      <4>4. /\ offer \in OffersOf(m, r, status[i], r.disks[k]) /\ e # r.disks[k]
            /\ OffersOf(m, r, offer.status, e) # {} /\ IsRequest(m, r)
        BY <1>1, <1>4, <2>1, <3>1, <4>1, <4>2, <4>3
      <4> HIDE DEF m, r
      <4>5. m \in Mappings /\ status[i] \in [Shares(m) -> Statuses]
        BY <1>1
      <4>6. OffersOf(m, r, status[i], e) # {}
        BY <4>3, <4>4, <4>5, OffersShrink
      <4> QED
        BY <3>1, <4>6 DEF m, r
    <3>2. CASE j # i
      BY <1>1, <1>2, <2>1, <3>2
    <3> QED
      BY <3>1, <3>2
  <2>3. Offers(j, e) # {}
    BY <1>1, <2>2, OffersAre
  <2>4. j \in Startable(e)
    BY <2>1, <2>3 DEF Startable, Queue
  <2> QED
    BY <1>4, <2>4 DEF Settled
<1> QED
  BY <1>3, <1>4

LEMMA ScheduleSettles ==
  ASSUME Inv, ScheduleDisk, NEW e \in DiskIds, Settled(e) \/ e = sdisk
  PROVE  Settled(e)'
<1>1. UNCHANGED <<inputVars, window>>
  BY DEF ScheduleDisk, countVars
<1>2. CASE disk_state[sdisk] = "NULL" /\ Startable(sdisk) # {}
  <2>1. PICK offer \in Offers(NextRequest(sdisk), sdisk) :
          StartRequest(sdisk, NextRequest(sdisk), offer)
    BY <1>2 DEF ScheduleDisk
  <2>2. NextRequest(sdisk) \in Queue /\ sdisk \in DiskIds
    BY <1>2, FirstStartable DEF Inv, ControlInv, Startable, Queue
  <2> QED
    BY <1>1, <2>1, <2>2, StartSettles
<1>3. CASE ~ (disk_state[sdisk] = "NULL" /\ Startable(sdisk) # {})
  <2>1. UNCHANGED <<status, disk_state>>
    BY <1>3 DEF ScheduleDisk
  <2>2. Settled(e)
    BY <1>3 DEF Settled
  <2> QED
    BY <1>1, <2>1, <2>2, SettledSame DEF inputVars
<1> QED
  BY <1>2, <1>3

LEMMA IdleStep ==
  ASSUME Inv, EndInv, IdleInv, [Next]_vars
  PROVE  IdleInv'
<1>1. CASE FinishIO
  BY <1>1 DEF FinishIO, IdleInv
<1>2. CASE ScheduleDisk
  <2>1. ctl = "schedule" /\ sdisk \in DiskIds /\ DiskIds = 0 .. 3 /\ disk_count = 4
    BY <1>2 DEF ScheduleDisk, Inv, ControlInv, DiskIds, disk_count
  <2>2. \A e \in DiskIds : e <= sdisk => Settled(e)'
    <3>1. ASSUME NEW e \in DiskIds, e <= sdisk PROVE Settled(e) \/ e = sdisk
      BY <2>1, <3>1 DEF IdleInv
    <3> QED
      BY <1>2, <3>1, ScheduleSettles
  <2>3. CASE sdisk < disk_count - 1
    BY <1>2, <2>1, <2>2, <2>3 DEF ScheduleDisk, IdleInv
  <2>4. CASE ~ sdisk < disk_count - 1
    <3>1. \A e \in DiskIds : Settled(e)'
      BY <2>1, <2>2, <2>4
    <3>2. ctl' \in {"enter", "animate"}
      BY <1>2, <2>4 DEF ScheduleDisk, ReturnFromGetNextIOs
    <3> QED
      BY <3>1, <3>2 DEF IdleInv
  <2> QED
    BY <2>3, <2>4
<1>3. ASSUME QuietAction, NEW e \in DiskIds
      PROVE  Settled(e)' <=> Settled(e)
  <2>1. QuietStep /\ window' = window
    <3>1. CASE UNCHANGED vars
      BY <1>3, <3>1, QuietActions DEF vars, countVars
    <3>2. CASE Start \/ Pause \/ Exit \/ Tick \/ CheckDone \/ CheckNotDone
      BY <1>3, <3>2, QuietActions
      DEF Start, Pause, Exit, Tick, CheckDone, CheckNotDone, countVars
    <3>3. CASE AnimatePaused \/ AdvanceClock \/ IdleDisk \/ MoveHead \/ Transfer \/ EndAnimate
      BY <1>3, <3>3, QuietActions
      DEF AnimatePaused, AdvanceClock, IdleDisk, MoveHead, Transfer, EndAnimate, countVars
    <3> QED
      BY <1>3, <3>1, <3>2, <3>3 DEF QuietAction
  <2> QED
    BY <2>1, SettledSame DEF QuietStep, inputVars
<1>4. CASE UNCHANGED vars
  <2>1. UNCHANGED <<ctl, callbacks, sdisk>>
    BY <1>4 DEF vars, ctlVars, guiVars
  <2> QED
    BY <1>3, <1>4, <2>1 DEF IdleInv, QuietAction
<1>5. CASE Start \/ Exit
  BY <1>5 DEF Start, Exit, IdleInv
<1>6. CASE Pause
  <2>1. UNCHANGED <<ctl, callbacks, sdisk>>
    BY <1>6 DEF Pause, ctlVars
  <2> QED
    BY <1>3, <1>6, <2>1 DEF IdleInv, QuietAction
<1>7. CASE Tick
  BY <1>3, <1>7 DEF Tick, IdleInv, QuietAction
<1>8. CASE CheckNotDone
  BY <1>8 DEF CheckNotDone, IdleInv, FirstDisk, DiskIds
<1>9. CASE AnimatePaused \/ AdvanceClock
  BY <1>3, <1>9 DEF AnimatePaused, AdvanceClock, IdleInv, QuietAction
<1>10. CASE IdleDisk \/ MoveHead \/ Transfer
  BY <1>3, <1>10 DEF IdleDisk, MoveHead, Transfer, NextDisk, IdleInv, QuietAction
<1>11. CASE EndAnimate
  BY <1>3, <1>11 DEF EndAnimate, IdleInv, QuietAction
<1>12. CASE CheckDone
  <2>1. HasSlots = NeedSlots
    <3>1. Cardinality(HasSlots) = Cardinality(NeedSlots) /\ IsFiniteSet(NeedSlots)
      BY <1>12 DEF CheckDone, EndInv
    <3>2. HasSlots \in SUBSET NeedSlots
      BY HasNeeded
    <3> QED
      BY <3>1, <3>2, FS_Subset
  <2>2. \A i \in Queue : \A d : Offers(i, d) = {}
    BY <2>1, AllOver
  <2>3. \A d \in DiskIds : Settled(d)
    BY <2>2 DEF Settled, Startable, Queue
  <2>4. \A d \in DiskIds : Settled(d)'
    BY <1>3, <1>12, <2>3 DEF QuietAction
  <2>5. ctl' # "schedule"
    BY <1>12 DEF CheckDone, ReturnFromGetNextIOs
  <2> QED
    BY <2>4, <2>5 DEF IdleInv
<1> QED
  BY <1>1, <1>2, <1>4, <1>5, <1>6, <1>7, <1>8, <1>9, <1>10, <1>11, <1>12
  DEF Next, HandlerStep

\* Between two handlers no disk idles that has an I/O to start in the window: the
\* GetNextIOs after each completion looks at all the disks, those the loop of
\* Animate has passed included, and nothing else makes an I/O possible.
THEOREM NoDiskIdles ==
  Spec /\ StripesAreWrites => []NoIdleDisk
<1>1. Init /\ StripesAreWrites => Inv /\ EndInv /\ IdleInv
  <2>1. Init => IdleInv
    BY DEF Init, IdleInv
  <2> QED
    BY <2>1, InitInv, InitEnd
<1>2. Inv /\ EndInv /\ IdleInv /\ [Next]_vars => Inv' /\ EndInv' /\ IdleInv'
  BY InvStep, EndStep, IdleStep
<1>3. IdleInv => NoIdleDisk
  BY DEF IdleInv, NoIdleDisk, Settled
<1> QED
  BY <1>1, <1>2, <1>3, PTL DEF Spec
-----------------------------------------------------------------------------
(***************************************************************************)
(* Until it is done, the simulator has something to do.  When no disk      *)
(* works, the first request that is not over lies in the window and has    *)
(* something for one of its disks, which GetNextIOs would have started.    *)
(***************************************************************************)
\* In the handlers after GetNextIOs, and between two of them.
Running == ctl \in {"enter", "animate"} \/ (ctl = "none" /\ callbacks > 0)

\* Until the simulator is done some disk works.
AtWork == Running /\ ~ is_done => \E d \in DiskIds : disk_state[d] # "NULL"

\* An empty queue starts no animation, and the check of line 759 misses no end.
NoticeInv ==
  /\ Queue = {} => callbacks = 0 /\ ctl \in {"none", "check", "exited"}
  /\ request_count = request_count_needed /\ (Running \/ ctl = "schedule") => is_done

\* The first request that is not over lies in the window.
LEMMA FirstLeft ==
  ASSUME Inv, Queue \ OverSet # {}
  PROVE  \E i \in Queue \ OverSet : window = -1 \/ i <= window
<1>1. /\ Queue \subseteq Nat /\ (Queue \ OverSet) \subseteq Nat /\ Queue = 1 .. Len(request_queue)
      /\ window = IF window_option = -1 THEN -1 ELSE window_option + logical_requests
      /\ logical_requests = Cardinality(OverSet) /\ IsFiniteSet(OverSet)
      /\ window_option \in (Nat \ {0}) \cup {-1}
  BY OverSetFinite DEF Inv, QueueInv, CountInv
<1>2. PICK i \in Queue \ OverSet : \A j \in Queue \ OverSet : ~ (<<j, i>> \in OpToRel(<, Nat))
  BY <1>1, WFMin, NatLessThanWellFounded
<1>3. \A j \in Queue \ OverSet : i <= j
  <2>1. OpToRel(<, Nat) = {ss \in Nat \X Nat : ss[1] < ss[2]}
    BY Zenon DEF OpToRel
  <2>2. ASSUME NEW j \in Queue \ OverSet PROVE i <= j
    <3>1. i \in Nat /\ j \in Nat /\ ~ (<<j, i>> \in {ss \in Nat \X Nat : ss[1] < ss[2]})
      BY <1>1, <1>2, <2>1
    <3> QED
      BY <3>1
  <2> QED
    BY <2>2
<1>4. i \in Nat \ {0} /\ 1 .. i - 1 \subseteq OverSet
  <2>1. i \in 1 .. Len(request_queue) /\ Len(request_queue) \in Nat
    BY <1>1 DEF Inv, QueueInv
  <2>2. ASSUME NEW j \in 1 .. i - 1 PROVE j \in OverSet
    <3>1. j \in Queue /\ ~ i <= j
      BY <1>1, <2>1
    <3> QED
      BY <1>3, <3>1
  <2> QED
    BY <2>1, <2>2
<1>5. i - 1 <= Cardinality(OverSet)
  <2>1. IsFiniteSet(1 .. i - 1) /\ Cardinality(1 .. i - 1) = i - 1
    BY <1>4, FS_Interval
  <2> QED
    BY <1>1, <1>4, <2>1, FS_Subset
<1>6. Cardinality(OverSet) \in Nat
  BY <1>1, FS_CardinalityType
<1> QED
  BY <1>1, <1>4, <1>5, <1>6

\* With every disk idle and none that could start something, every I/O is done.
LEMMA IdleIsDone ==
  ASSUME Inv, EndInv, \A d \in DiskIds : disk_state[d] = "NULL" /\ Settled(d)
  PROVE  request_count = request_count_needed
<1>1. ASSUME NEW i \in Queue
      PROVE  /\ mapping \in Mappings /\ IsRequest(mapping, request_queue[i])
             /\ StatusOK(mapping, request_queue[i], status[i], Did(i), Doing(i))
             /\ \A k \in Shares(mapping) : request_queue[i].disks[k] \in DiskIds
  BY DEF Inv, QueueInv, ShareInv, IsRequest
<1>2. ASSUME NEW i \in Queue, NEW op \in Ops PROVE Doing(i)[op] = {}
  <2>1. DoingIO(i, op) = {}
    BY <1>1 DEF DoingIO, Serves
  <2> QED
    BY <2>1 DEF Doing
<1>3. ASSUME NEW i \in Queue \ OverSet, window = -1 \/ i <= window PROVE FALSE
  <2>1. PICK k \in Shares(mapping) :
          OffersOf(mapping, request_queue[i], status[i], request_queue[i].disks[k]) # {}
    BY <1>1, <1>2, IdleOffers DEF OverSet
  <2>2. Offers(i, request_queue[i].disks[k]) # {}
    BY <1>1, <2>1, OffersAre
  <2>3. i \in Startable(request_queue[i].disks[k])
    BY <1>3, <2>2 DEF Startable, Queue
  <2> QED
    BY <1>1, <2>3 DEF Settled
<1>4. OverSet = Queue
  BY <1>3, FirstLeft DEF OverSet
<1>5. NeedSlots \subseteq HasSlots
  <2> SUFFICES ASSUME NEW i \in Queue, NEW op \in Ops, NEW k \in {1, 2},
                      SlotNeeded(mapping, request_queue[i], op, k)
               PROVE  SlotFilled(mapping, request_queue[i], Did(i), op, k)
    BY DEF HasSlots, Slots, NeedSlots, SlotsNeeded, SlotsOf, Queue
  <2>1. Over(mapping, request_queue[i], Did(i))
    BY <1>4 DEF OverSet
  <2> QED
    BY <1>1, <2>1, OverIsFilled
<1>6. HasSlots = NeedSlots
  BY <1>5, HasNeeded
<1> QED
  BY <1>6 DEF EndInv

LEMMA AtWorkHolds == Inv /\ EndInv /\ IdleInv /\ NoticeInv => AtWork
  BY IdleIsDone DEF AtWork, Running, NoticeInv, IdleInv

LEMMA CountedIsFilled ==
  ASSUME Inv, EndInv, request_count = request_count_needed
  PROVE  HasSlots = NeedSlots
<1>1. HasSlots \in SUBSET NeedSlots
  BY HasNeeded
<1> QED
  BY <1>1, FS_Subset DEF EndInv

LEMMA EmptyIsCounted ==
  ASSUME Inv, EndInv
  PROVE  /\ Queue = {} => request_count = request_count_needed /\ logical_requests = 0
         /\ request_count = request_count_needed /\ logical_requests = 0 => Queue = {}
<1>1. IsFiniteSet(OverSet) /\ logical_requests = Cardinality(OverSet)
  BY OverSetFinite DEF Inv, CountInv
<1>2. ASSUME Queue = {} PROVE request_count = request_count_needed /\ logical_requests = 0
  <2>1. OverSet = {}
    BY <1>2 DEF OverSet
  <2>2. NeedSlots = {} /\ HasSlots = {}
    BY <1>2 DEF NeedSlots, HasSlots, SlotsNeeded, Slots, SlotsOf, Queue
  <2> QED
    BY <1>1, <2>1, <2>2, FS_EmptySet DEF EndInv
<1>3. ASSUME request_count = request_count_needed, logical_requests = 0 PROVE Queue = {}
  <2>1. OverSet = {}
    BY <1>1, <1>3, FS_EmptySet
  <2>2. \A i \in Queue : i \in OverSet
    BY <1>3, CountedIsFilled, AllOver DEF OverSet
  <2> QED
    BY <2>1, <2>2
<1> QED
  BY <1>2, <1>3

LEMMA NoticeStep ==
  ASSUME Inv, EndInv, NoticeInv, [Next]_vars
  PROVE  NoticeInv'
<1>1. CASE FinishIO
  <2>1. adisk \in DiskIds /\ disk_state[adisk] # "NULL" /\ ctl' = "check"
    BY <1>1 DEF FinishIO, Inv, ControlInv, DiskIds, disk_count
  <2>2. Queue # {} /\ Queue' = Queue
    BY <1>1, <2>1 DEF FinishIO, inputVars, Queue, Inv, DiskInv
  <2> QED
    BY <2>1, <2>2 DEF NoticeInv, Running
<1>2. CASE QuietAction \/ ScheduleDisk
  <2>1. /\ Queue' = Queue /\ request_count' = request_count
        /\ request_count_needed' = request_count_needed
        /\ is_done => is_done'
    BY <1>2, EndQuiet DEF Queue, Inv, ControlInv
  <2>2. CASE UNCHANGED vars
    BY <2>1, <2>2 DEF vars, ctlVars, guiVars, NoticeInv, Running
  <2>3. CASE Start \/ Exit
    BY <2>1, <2>3 DEF Start, Exit, guiVars, NoticeInv, Running
  <2>4. CASE Pause
    BY <2>1, <2>4 DEF Pause, ctlVars, NoticeInv, Running
  <2>5. CASE Tick
    BY <2>1, <2>5 DEF Tick, NoticeInv, Running
  <2>6. CASE CheckDone
    <3>1. CASE logical_requests = 0
      <4>1. Queue = {} /\ callbacks = 0
        BY <2>6, <3>1, EmptyIsCounted DEF CheckDone, NoticeInv
      <4> QED
        BY <2>1, <2>6, <3>1, <4>1 DEF CheckDone, NoticeInv, Running
    <3>2. CASE logical_requests # 0
      <4>1. Queue # {} /\ is_done'
        BY <2>6, <3>2, EmptyIsCounted DEF CheckDone
      <4> QED
        BY <2>1, <4>1 DEF NoticeInv
    <3> QED
      BY <3>1, <3>2
  <2>7. CASE CheckNotDone
    <3>1. Queue # {} /\ request_count # request_count_needed
      BY <2>7, EmptyIsCounted DEF CheckNotDone
    <3> QED
      BY <2>1, <3>1 DEF NoticeInv
  <2>8. CASE ScheduleDisk \/ AnimatePaused \/ AdvanceClock \/ IdleDisk \/ MoveHead \/ Transfer \/ EndAnimate
    <3>1. ctl \in {"schedule", "enter", "animate"}
      BY <2>8 DEF ScheduleDisk, AnimatePaused, AdvanceClock, IdleDisk, MoveHead, Transfer,
                  EndAnimate
    <3>2. Queue # {} /\ (request_count = request_count_needed => is_done)
      BY <3>1 DEF NoticeInv, Running
    <3> QED
      BY <2>1, <3>2 DEF NoticeInv
  <2> QED
    BY <1>2, <2>2, <2>3, <2>4, <2>5, <2>6, <2>7, <2>8 DEF QuietAction
<1> QED
  BY <1>1, <1>2 DEF Next, HandlerStep, QuietAction

\* From the first key s until the simulator is done some disk always seeks or
\* transfers, whatever the queue, the window and the keys: no handler leaves behind
\* it a queue that has work and four idle disks, from which no callback would ever
\* start again, since only the end of an I/O calls GetNextIOs (line 875).
THEOREM NeverStalls ==
  Spec /\ StripesAreWrites => []AtWork
<1>1. Init /\ StripesAreWrites => Inv /\ EndInv /\ IdleInv /\ NoticeInv
  <2>1. Init => IdleInv /\ NoticeInv
    BY DEF Init, IdleInv, NoticeInv, Running
  <2> QED
    BY <2>1, InitInv, InitEnd
<1>2. Inv /\ EndInv /\ IdleInv /\ NoticeInv /\ [Next]_vars
        => Inv' /\ EndInv' /\ IdleInv' /\ NoticeInv'
  BY InvStep, EndStep, IdleStep, NoticeStep
<1> QED
  BY <1>1, <1>2, AtWorkHolds, PTL DEF Spec
-----------------------------------------------------------------------------
(***************************************************************************)
(* Why the animation ends.  Four numbers, the first the most important:    *)
(* the I/Os that are not over, the idle disks, how far the busy disks are  *)
(* from the end of their I/Os, and the steps until the next disk moves.    *)
(***************************************************************************)
IOsLeft == request_count_needed - request_count

Total(f) == f[0] + f[1] + f[2] + f[3]

Idles == [d \in DiskIds |-> IF disk_state[d] = "NULL" THEN 1 ELSE 0]
IdleDisks == Total(Idles)

Distance(d) == IF head[d] < Row(d) THEN Row(d) - head[d] ELSE head[d] - Row(d)

\* A head has the way to its row before it, and the longest transfer.
Way(d) ==
  IF disk_state[d] = "SEEK" THEN 11 + Distance(d)
  ELSE IF disk_state[d] = "XFER" THEN 1 + transfer_count[d] ELSE 0
Ways == [d \in DiskIds |-> Way(d)]
WayLeft == Total(Ways)

\* Whether Animate comes to a busy disk before its loop ends.
BusyAhead == \E d \in DiskIds : d >= adisk /\ disk_state[d] # "NULL"

StepsLeft ==
  IF ctl = "check" THEN 17
  ELSE IF ctl = "schedule" THEN 16 - sdisk
  ELSE IF ctl = "animate" THEN (IF BusyAhead THEN 4 - adisk ELSE 11 - adisk)
  ELSE IF ctl = "none" THEN 6
  ELSE IF ctl = "enter" THEN 5 ELSE 0

LeftIsNat == IOsLeft \in Nat /\ IdleDisks \in Nat /\ WayLeft \in Nat /\ StepsLeft \in Nat

LessLeft ==
  \/ IOsLeft' < IOsLeft
  \/ UNCHANGED IOsLeft /\ IdleDisks' < IdleDisks
  \/ UNCHANGED <<IOsLeft, IdleDisks>> /\ WayLeft' < WayLeft
  \/ UNCHANGED <<IOsLeft, IdleDisks, WayLeft>> /\ StepsLeft' < StepsLeft

\* Keys s and p, and the callback of a paused animation, cost nothing that was won.
NothingLost ==
  (Start \/ Pause \/ AnimatePaused) /\ UNCHANGED <<IOsLeft, IdleDisks, WayLeft>>

LEMMA TotalIsNat ==
  ASSUME NEW f \in [DiskIds -> Nat]
  PROVE  Total(f) \in Nat
<1>1. f[0] \in Nat /\ f[1] \in Nat /\ f[2] \in Nat /\ f[3] \in Nat
  BY DEF DiskIds, disk_count
<1> QED
  BY <1>1 DEF Total

LEMMA TotalLess ==
  ASSUME NEW f \in [DiskIds -> Nat], NEW g \in [DiskIds -> Nat], NEW d \in DiskIds,
         f[d] < g[d], \A e \in DiskIds \ {d} : f[e] = g[e]
  PROVE  Total(f) < Total(g)
<1>1. /\ f[0] \in Nat /\ f[1] \in Nat /\ f[2] \in Nat /\ f[3] \in Nat
      /\ g[0] \in Nat /\ g[1] \in Nat /\ g[2] \in Nat /\ g[3] \in Nat
      /\ d \in {0, 1, 2, 3}
      /\ \A e \in {0, 1, 2, 3} : e # d => f[e] = g[e]
  BY DEF DiskIds, disk_count
<1> QED
  BY <1>1 DEF Total

LEMMA RowsAreNat ==
  ASSUME Inv, NEW d \in DiskIds
  PROVE  /\ head[d] \in Nat /\ transfer_count[d] \in -1 .. 10
         /\ disk_state[d] # "NULL" => Row(d) \in Nat
         /\ disk_state[d] = "SEEK" => Distance(d) \in Nat
         /\ Idles[d] \in Nat /\ Way(d) \in Nat
<1>1. head[d] \in Nat /\ transfer_count[d] \in -1 .. 10
  BY DEF Inv, HeadInv
<1>2. ASSUME disk_state[d] # "NULL" PROVE Row(d) \in Nat
  <2>1. current_target[d] \in Queue
    BY <1>2 DEF Inv, DiskInv
  <2>2. request_queue[current_target[d]].offset \in Nat
    BY <2>1 DEF Inv, QueueInv, IsRequest
  <2> QED
    BY <2>2 DEF Row, RowHeight
<1>3. ASSUME disk_state[d] = "SEEK" PROVE Distance(d) \in Nat
  BY <1>1, <1>2, <1>3 DEF Distance
<1>4. Idles[d] \in Nat
  BY DEF Idles
<1>5. Way(d) \in Nat
  BY <1>1, <1>3 DEF Way
<1> QED
  BY <1>1, <1>2, <1>3, <1>4, <1>5

WaysTyped == Idles \in [DiskIds -> Nat] /\ Ways \in [DiskIds -> Nat]

LEMMA WaysAreNat == Inv => WaysTyped
<1> SUFFICES ASSUME Inv PROVE WaysTyped
  OBVIOUS
<1>1. \A d \in DiskIds : Way(d) \in Nat
  BY RowsAreNat
<1> QED
  BY <1>1 DEF WaysTyped, Idles, Ways

LEMMA WaysAreNatNext ==
  ASSUME Inv'
  PROVE  Idles' \in [DiskIds -> Nat] /\ Ways' \in [DiskIds -> Nat]
<1>1. Inv' => WaysTyped'
  BY WaysAreNat, PTL
<1> QED
  BY <1>1 DEF WaysTyped, DiskIds, disk_count

LEMMA LeftNat ==
  Inv /\ EndInv => LeftIsNat
<1> SUFFICES ASSUME Inv, EndInv PROVE LeftIsNat
  OBVIOUS
<1>1. IOsLeft \in Nat
  <2>1. HasSlots \in SUBSET NeedSlots
    BY HasNeeded
  <2>2. /\ Cardinality(HasSlots) \in Nat /\ Cardinality(NeedSlots) \in Nat
        /\ Cardinality(HasSlots) <= Cardinality(NeedSlots)
    BY <2>1, FS_Subset, FS_CardinalityType DEF EndInv
  <2> QED
    BY <2>2 DEF IOsLeft, EndInv
<1>2. IdleDisks \in Nat /\ WayLeft \in Nat
  BY WaysAreNat, TotalIsNat DEF WaysTyped, IdleDisks, WayLeft
<1>3. StepsLeft \in Nat
  <2>1. sdisk \in 0 .. 3 /\ adisk \in 0 .. 4
    BY DEF Inv, ControlInv, DiskIds, disk_count
  <2> QED
    BY <2>1 DEF StepsLeft
<1> QED
  BY <1>1, <1>2, <1>3 DEF LeftIsNat

\* A step that moves no disk and counts no I/O.
LEMMA SameLeft ==
  ASSUME UNCHANGED <<request_queue, request_count_needed, request_count, disk_state, head,
                     transfer_count, current_target>>
  PROVE  UNCHANGED <<IOsLeft, IdleDisks, WayLeft>>
<1>1. IOsLeft' = IOsLeft
  BY DEF IOsLeft
<1>2. Idles' = Idles
  BY DEF Idles, DiskIds, disk_count
<1>3. \A d \in DiskIds : Way(d)' = Way(d)
  BY DEF Way, Distance, Row
<1>4. Ways' = Ways
  BY <1>3 DEF Ways, DiskIds, disk_count
<1> QED
  BY <1>1, <1>2, <1>4 DEF IdleDisks, WayLeft, Total

\* A step of one busy disk towards the end of its I/O.
LEMMA NearerEnd ==
  ASSUME Inv, Inv', NEW d \in DiskIds, Way(d)' < Way(d), disk_state'[d] # "NULL",
         disk_state[d] # "NULL",
         UNCHANGED <<request_queue, request_count_needed, request_count, current_target>>,
         \A e \in DiskIds \ {d} : /\ disk_state'[e] = disk_state[e] /\ head'[e] = head[e]
                                  /\ transfer_count'[e] = transfer_count[e]
  PROVE  LessLeft
<1>1. IOsLeft' = IOsLeft
  BY DEF IOsLeft
<1>2. Idles' = Idles
  <2>1. \A e \in DiskIds : (disk_state'[e] = "NULL") <=> (disk_state[e] = "NULL")
    OBVIOUS
  <2> QED
    BY <2>1 DEF Idles, DiskIds, disk_count
<1>3. Ways'[d] < Ways[d] /\ \A e \in DiskIds \ {d} : Ways'[e] = Ways[e]
  <2>1. DiskIds' = DiskIds
    BY DEF DiskIds, disk_count
  <2>2. \A e \in DiskIds : Ways[e] = Way(e) /\ Ways'[e] = Way(e)'
    BY <2>1 DEF Ways
  <2>3. \A e \in DiskIds \ {d} : Way(e)' = Way(e)
    BY DEF Way, Distance, Row
  <2> QED
    BY <2>2, <2>3
<1>4. Total(Ways') < Total(Ways)
  BY <1>3, WaysAreNat, WaysAreNatNext, TotalLess DEF WaysTyped
<1>5. WayLeft' < WayLeft
  BY <1>4 DEF WayLeft, Total
<1> QED
  BY <1>1, <1>2, <1>5 DEF LessLeft, IdleDisks, Total

LEMMA MoveIsLess ==
  ASSUME Inv, Inv', MoveHead, NEW d, d = adisk
  PROVE  LessLeft
<1>1. /\ d \in DiskIds /\ disk_state[d] = "SEEK"
      /\ head' = [head EXCEPT ![d] = head[d] + seek_delta[d]]
      /\ UNCHANGED <<inputVars, disk_state, transfer_count, targetVars>>
      /\ \/ head[d] < Row(d) /\ head[d] < head'[d] /\ head'[d] <= Row(d)
         \/ head[d] > Row(d) /\ head[d] > head'[d] /\ head'[d] >= Row(d)
  BY HeadMoves
<1>2. /\ UNCHANGED <<request_queue, request_count_needed, current_target>>
      /\ request_count' = request_count
  BY <1>1 DEF inputVars, targetVars, MoveHead, countVars
<1>3. \A e \in DiskIds \ {d} : head'[e] = head[e]
  BY <1>1 DEF Inv, HeadInv
<1>4. Row(d) \in Nat /\ head[d] \in Nat /\ head'[d] \in Nat
  BY <1>1, RowsAreNat DEF Inv, HeadInv
<1>5. Row(d)' = Row(d)
  BY <1>2 DEF Row
<1>6. Distance(d)' < Distance(d) /\ Distance(d)' \in Nat /\ Distance(d) \in Nat
  BY <1>1, <1>4, <1>5 DEF Distance
<1>7. Way(d) = 11 + Distance(d) /\ Way(d)' = 11 + Distance(d)'
  BY <1>1 DEF Way
<1>8. Way(d)' < Way(d)
  BY <1>6, <1>7
<1> QED
  BY <1>1, <1>2, <1>3, <1>8, NearerEnd

LEMMA TransferIsLess ==
  ASSUME Inv, Inv', Transfer, NEW d, d = adisk
  PROVE  LessLeft
<1>1. /\ d \in DiskIds /\ disk_state[d] \in {"SEEK", "XFER"}
      /\ disk_state' = [disk_state EXCEPT ![d] = "XFER"]
      /\ transfer_count' = [transfer_count EXCEPT ![d] = TicksLeft(d) - 1]
      /\ disk_state[d] = "SEEK" => OnTarget(d)
      /\ UNCHANGED <<request_queue, request_count_needed, request_count, current_target, head>>
  BY DEF Transfer, inputVars, targetVars, countVars, Inv, ControlInv, DiskIds, disk_count
<1>2. /\ disk_state \in [DiskIds -> DiskStates] /\ transfer_count \in [DiskIds -> -1 .. 10]
  BY DEF Inv, HeadInv, DiskInv
<1>3. /\ disk_state'[d] = "XFER" /\ transfer_count'[d] = TicksLeft(d) - 1
      /\ \A e \in DiskIds \ {d} : /\ disk_state'[e] = disk_state[e]
                                  /\ transfer_count'[e] = transfer_count[e]
  BY <1>1, <1>2
<1>4. Way(d)' = 1 + (TicksLeft(d) - 1)
  BY <1>3 DEF Way
<1>5. CASE disk_state[d] = "XFER"
  <2>1. TicksLeft(d) = transfer_count[d] /\ Way(d) = 1 + transfer_count[d]
    BY <1>5 DEF TicksLeft, Way
  <2>2. transfer_count[d] \in Int
    BY <1>1, <1>2
  <2>3. Way(d)' < Way(d)
    BY <1>4, <2>1, <2>2
  <2> QED
    BY <1>1, <1>3, <2>3, NearerEnd
<1>6. CASE disk_state[d] = "SEEK"
  <2>1. TicksLeft(d) = TransferTime(d) /\ TransferTime(d) \in {1, 10}
    BY <1>1, <1>6 DEF TicksLeft, TransferTime
  <2>2. Way(d) = 11 + Distance(d) /\ Distance(d) \in Nat
    BY <1>1, <1>6, RowsAreNat DEF Way
  <2>3. Way(d)' < Way(d)
    BY <1>4, <2>1, <2>2
  <2> QED
    BY <1>1, <1>3, <2>3, NearerEnd
<1> QED
  BY <1>1, <1>5, <1>6

LEMMA ScheduleIsLess ==
  ASSUME Inv, Inv', ScheduleDisk
  PROVE  LessLeft
<1>1. UNCHANGED <<request_queue, request_count_needed, request_count, head, transfer_count>>
  BY DEF ScheduleDisk, inputVars, countVars, motionVars
<1>2. CASE disk_state[sdisk] = "NULL" /\ Startable(sdisk) # {}
  <2>1. PICK offer \in Offers(NextRequest(sdisk), sdisk) :
          StartRequest(sdisk, NextRequest(sdisk), offer)
    BY <1>2 DEF ScheduleDisk
  <2>2. sdisk \in DiskIds /\ disk_state' = [disk_state EXCEPT ![sdisk] = "SEEK"]
        /\ disk_state \in [DiskIds -> DiskStates] /\ DiskIds' = DiskIds
    BY <2>1 DEF StartRequest, Inv, ControlInv, DiskInv, DiskIds, disk_count
  <2>3. disk_state'[sdisk] = "SEEK" /\ \A e \in DiskIds \ {sdisk} : disk_state'[e] = disk_state[e]
    BY <2>2
  <2>4. /\ Idles'[sdisk] < Idles[sdisk]
        /\ \A e \in DiskIds \ {sdisk} : Idles'[e] = Idles[e]
    BY <1>2, <2>2, <2>3 DEF Idles
  <2>5. Total(Idles') < Total(Idles)
    BY <2>2, <2>4, WaysAreNat, WaysAreNatNext, TotalLess DEF WaysTyped
  <2> QED
    BY <1>1, <2>5 DEF LessLeft, IOsLeft, IdleDisks, Total
<1>3. CASE ~ (disk_state[sdisk] = "NULL" /\ Startable(sdisk) # {})
  <2>1. UNCHANGED <<IOsLeft, IdleDisks, WayLeft>>
    BY <1>1, <1>3, SameLeft DEF ScheduleDisk, targetVars
  <2>2. ctl = "schedule" /\ sdisk \in 0 .. 3 /\ adisk \in 0 .. 4 /\ adisk' \in 0 .. 4
    BY DEF ScheduleDisk, Inv, ControlInv, DiskIds, disk_count
  <2>3. StepsLeft = 16 - sdisk
    BY <2>2 DEF StepsLeft
  <2>4. StepsLeft' < StepsLeft
    <3>1. CASE sdisk < 3
      BY <2>2, <2>3, <3>1 DEF ScheduleDisk, disk_count, StepsLeft
    <3>2. CASE ~ sdisk < 3
      <4>1. ctl' \in {"enter", "animate"}
        BY <3>2 DEF ScheduleDisk, disk_count, ReturnFromGetNextIOs
      <4> QED
        BY <2>2, <2>3, <4>1 DEF StepsLeft
    <3> QED
      BY <3>1, <3>2
  <2> QED
    BY <2>1, <2>4 DEF LessLeft
<1> QED
  BY <1>2, <1>3

LEMMA LessStep ==
  ASSUME Inv, Inv', EndInv, AtWork, Next, ~ is_done
  PROVE  LessLeft \/ NothingLost
<1>1. CASE FinishIO
  <2>1. request_count \in Nat /\ IOsLeft \in Nat
    BY LeftNat DEF LeftIsNat, Inv, CountInv
  <2>2. request_count_needed \in Int
    BY FS_CardinalityType DEF EndInv
  <2>3. request_count' = request_count + 1 /\ request_count_needed' = request_count_needed
    BY <1>1 DEF FinishIO, inputVars
  <2> QED
    BY <2>1, <2>2, <2>3 DEF LessLeft, IOsLeft
<1>2. CASE ScheduleDisk
  BY <1>2, ScheduleIsLess
<1>3. CASE MoveHead
  BY <1>3, MoveIsLess
<1>4. CASE Transfer
  BY <1>4, TransferIsLess
<1>5. CASE Start \/ Pause \/ AnimatePaused
  <2>1. UNCHANGED <<request_queue, request_count_needed, request_count, disk_state, head,
                    transfer_count, current_target>>
    BY <1>5 DEF Start, Pause, AnimatePaused, inputVars, countVars, motionVars, targetVars
  <2> QED
    BY <1>5, <2>1, SameLeft DEF NothingLost
<1>6. CASE Exit \/ Tick \/ CheckDone \/ CheckNotDone \/ AdvanceClock \/ IdleDisk \/ EndAnimate
  <2>1. UNCHANGED <<request_queue, request_count_needed, request_count, disk_state, head,
                    transfer_count, current_target>>
    BY <1>6 DEF Exit, Tick, CheckDone, CheckNotDone, AdvanceClock, IdleDisk, EndAnimate,
                inputVars, countVars, motionVars, targetVars
  <2>2. /\ sdisk \in 0 .. 3 /\ adisk \in 0 .. 4 /\ sdisk' \in 0 .. 3 /\ adisk' \in 0 .. 4
        /\ disk_count = 4 /\ DiskIds = 0 .. 3
    BY DEF Inv, ControlInv, DiskIds, disk_count
  <2>3. StepsLeft' < StepsLeft
    <3>1. CASE Exit
      BY <3>1 DEF Exit, StepsLeft
    <3>2. CASE Tick
      BY <3>2 DEF Tick, StepsLeft
    <3>3. CASE CheckDone
      <4>1. ctl = "check" /\ ctl' \in {"none", "enter", "animate"}
        BY <3>3 DEF CheckDone, ReturnFromGetNextIOs
      <4>2. StepsLeft = 17
        BY <4>1 DEF StepsLeft
      <4>3. CASE ctl' = "animate"
        <5>1. StepsLeft' = 4 - adisk' \/ StepsLeft' = 11 - adisk'
          BY <4>3 DEF StepsLeft
        <5>2. adisk' \in 0 .. 4
          BY <2>2
        <5> QED
          BY <4>2, <5>1, <5>2
      <4>4. CASE ctl' = "none" \/ ctl' = "enter"
        <5>1. StepsLeft' = 6 \/ StepsLeft' = 5
          BY <4>4 DEF StepsLeft
        <5> QED
          BY <4>2, <5>1
      <4> QED
        BY <4>1, <4>3, <4>4
    <3>4. CASE CheckNotDone
      BY <2>2, <3>4 DEF CheckNotDone, StepsLeft
    <3>5. CASE AdvanceClock
      <4>1. PICK d \in DiskIds : disk_state[d] # "NULL"
        BY <3>5 DEF AdvanceClock, AtWork, Running
      <4>2. BusyAhead' /\ ctl' = "animate" /\ adisk' = 0
        BY <2>1, <2>2, <3>5, <4>1 DEF AdvanceClock, BusyAhead
      <4> QED
        BY <3>5, <4>2 DEF AdvanceClock, StepsLeft
    <3>6. CASE IdleDisk
      <4>1. /\ ctl = "animate" /\ ctl' = "animate" /\ adisk' = adisk + 1
            /\ disk_state[adisk] = "NULL"
        BY <3>6 DEF IdleDisk, NextDisk
      <4>2. BusyAhead => BusyAhead'
        BY <2>1, <2>2, <4>1 DEF BusyAhead
      <4> QED
        BY <2>2, <4>1, <4>2 DEF StepsLeft
    <3>7. CASE EndAnimate
      <4>1. ctl = "animate" /\ ctl' = "none" /\ adisk = 4
        BY <2>2, <3>7 DEF EndAnimate
      <4>2. ~ BusyAhead
        BY <2>2, <4>1 DEF BusyAhead
      <4> QED
        BY <4>1, <4>2 DEF StepsLeft
    <3> QED
      BY <1>6, <3>1, <3>2, <3>3, <3>4, <3>5, <3>6, <3>7
  <2> QED
    BY <2>1, <2>3, SameLeft DEF LessLeft
<1> QED
  BY <1>1, <1>2, <1>3, <1>4, <1>5, <1>6 DEF Next, HandlerStep

\* Until the simulator is done every step of a handler brings the end nearer: an I/O
\* ends, or an idle disk starts one, or a disk gets on with its own, or the handlers
\* get nearer to the next of these.  Only a key, or the callback of a paused
\* animation, does not, and it costs nothing that was won.
THEOREM AnimationShrinks ==
  Spec /\ StripesAreWrites =>
    []LeftIsNat /\ [][~ is_done => LessLeft \/ NothingLost]_vars
<1>1. Init /\ StripesAreWrites => Inv /\ EndInv /\ IdleInv /\ NoticeInv
  <2>1. Init => IdleInv /\ NoticeInv
    BY DEF Init, IdleInv, NoticeInv, Running
  <2> QED
    BY <2>1, InitInv, InitEnd
<1>2. Inv /\ EndInv /\ IdleInv /\ NoticeInv /\ [Next]_vars
        => Inv' /\ EndInv' /\ IdleInv' /\ NoticeInv'
  BY InvStep, EndStep, IdleStep, NoticeStep
<1>3. Inv /\ EndInv /\ IdleInv /\ NoticeInv /\ [Next]_vars
        => [~ is_done => LessLeft \/ NothingLost]_vars
  <2> SUFFICES ASSUME Inv, EndInv, IdleInv, NoticeInv, Next, ~ is_done
               PROVE  LessLeft \/ NothingLost
    OBVIOUS
  <2>1. Inv'
    BY InvStep
  <2> QED
    BY <2>1, AtWorkHolds, LessStep
<1> QED
  BY <1>1, <1>2, <1>3, LeftNat, PTL DEF Spec
-----------------------------------------------------------------------------
(***************************************************************************)
(* The order of the writes.  A request that comes later in the queue for   *)
(* the same address has begun on a disk only what the earlier write is     *)
(* through with there.                                                     *)
(***************************************************************************)
Follows(j, i) ==
  /\ i < j
  /\ request_queue[i].op = Write /\ request_queue[i].addr = request_queue[j].addr
  /\ mapping \in {0, 1} \/ request_queue[j].op = Write

Ahead(op) == IF mapping \in {0, 1} THEN Write ELSE op

OrderInv ==
  \A i \in Queue, j \in Queue :
    Follows(j, i) =>
      \A op \in Ops : Did(j)[op] \cup Doing(j)[op] \subseteq Did(i)[Ahead(op)]

LEMMA QuietSame ==
  ASSUME Inv, QuietStep, NEW i \in Queue
  PROVE  Did(i)' = Did(i) /\ Doing(i)' = Doing(i)
<1>1. UNCHANGED <<mapping, request_queue, current_target, current_optype, ios>>
  BY DEF QuietStep, inputVars
<1>2. \A k \in Shares(mapping) : request_queue[i].disks[k] \in DiskIds
  BY DEF Inv, QueueInv, IsRequest
<1>3. Did(i)' = Did(i)
  BY <1>1, DidSame
<1>4. ASSUME NEW op PROVE DoingIO(i, op)' = DoingIO(i, op)
  BY <1>1, <1>2 DEF DoingIO, Serves, QuietStep
<1> QED
  BY <1>3, <1>4 DEF Doing

\* The first request of the window to have something for the disk is started.
LEMMA StartsInOrder ==
  ASSUME Inv, NoFullStripe, OrderInv, NEW d \in DiskIds, NEW j \in Queue,
         NEW offer \in Offers(j, d), Starts(d, j, offer),
         NEW k \in Shares(mapping), request_queue[j].disks[k] = d, offer.op \in Ops,
         Kind(mapping, request_queue[j]) = "update" /\ offer.op = Write =>
           Did(j)[Read] = {1, 2},
         Kind(mapping, request_queue[j]) # "update" => offer.op = request_queue[j].op,
         NEW i \in Queue, Follows(j, i)
  PROVE  k \in Did(i)[Ahead(offer.op)]
<1> DEFINE m == mapping
           r == request_queue[i]
           op == offer.op
<1>1. /\ m \in Mappings /\ IsRequest(m, r) /\ IsRequest(m, request_queue[j])
      /\ StatusOK(m, r, status[i], Did(i), Doing(i))
      /\ ~ r.full_stripe_write /\ ~ request_queue[j].full_stripe_write
      /\ r.op = Write /\ i < j
      /\ r.disks = request_queue[j].disks
      /\ i \in Nat /\ j \in Nat
  BY DEF Inv, QueueInv, ShareInv, NoFullStripe, Follows
<1>2. OffersOf(m, r, status[i], d) = {}
  <2>1. j \in Startable(d) /\ j = NextRequest(d) /\ Startable(d) # {}
    BY DEF Starts
  <2>2. \A l \in Startable(d) : j <= l
    BY <2>1, FirstStartable DEF Inv
  <2>3. i \notin Startable(d)
    BY <1>1, <2>2
  <2>4. window = -1 \/ i <= window
    <3>1. window \in Int
      BY OverSetFinite DEF Inv, CountInv, QueueInv
    <3> QED
      BY <1>1, <2>1, <3>1 DEF Startable
  <2>5. Offers(i, d) = {}
    BY <2>3, <2>4 DEF Startable, Queue
  <2> QED
    BY <1>1, <2>5, OffersAre
<1>3. \A o \in Ops : k \notin Doing(i)[o]
  <2>1. disk_state[d] = "NULL"
    BY DEF Starts
  <2> QED
    BY <1>1, <2>1 DEF Doing, DoingIO, Serves
<1> HIDE DEF r
<1>4. /\ m \in {0, 1} => k \in Did(i)[Write]
      /\ m \notin {0, 1} => /\ k \in Did(i)[Read]
                            /\ Did(i)[Read] = {1, 2} => k \in Did(i)[Write]
  <2>1. r.disks[k] = d
    BY <1>1
  <2> QED
    BY <1>1, <1>2, <1>3, <2>1, NothingOffered
<1>5. CASE m \in {0, 1}
  BY <1>4, <1>5 DEF Ahead
<1>6. CASE m \notin {0, 1} /\ op = Read
  BY <1>4, <1>6 DEF Ahead
<1>7. CASE m \notin {0, 1} /\ op = Write
  <2>1. Kind(m, request_queue[j]) = "update"
    <3>1. request_queue[j].op = Write
      BY <1>7 DEF Follows
    <3> QED
      BY <1>1, <1>7, <3>1 DEF Kind, Read, Write
  <2>2. Did(j)[Read] = {1, 2}
    BY <1>7, <2>1
  <2>3. Read \in Ops /\ Ahead(Read) = Read
    BY <1>7 DEF Ops, Ahead
  <2>4. Did(j)[Read] \subseteq Did(i)[Read]
    BY <2>3 DEF OrderInv
  <2>5. Did(i)[Read] \subseteq {1, 2}
    BY <1>1, <2>3 DEF StatusOK, Shares
  <2> QED
    BY <1>4, <1>7, <2>2, <2>4, <2>5 DEF Ahead
<1> QED
  BY <1>5, <1>6, <1>7 DEF Ops

LEMMA OrderStep ==
  ASSUME Inv, NoFullStripe, OrderInv, [Next]_vars
  PROVE  OrderInv'
<1>1. CASE QuietStep
  <2>1. UNCHANGED <<mapping, request_queue>> /\ Queue' = Queue
    BY <1>1 DEF QuietStep, inputVars, Queue
  <2>2. \A i \in Queue : Did(i)' = Did(i) /\ Doing(i)' = Doing(i)
    BY <1>1, QuietSame
  <2> QED
    BY <2>1, <2>2 DEF OrderInv, Follows, Ahead
<1>2. CASE \E d \in DiskIds, j \in Queue : \E offer \in Offers(j, d) : Starts(d, j, offer)
  <2>1. PICK d \in DiskIds, j \in Queue : \E offer \in Offers(j, d) : Starts(d, j, offer)
    BY <1>2
  <2>2. PICK offer \in Offers(j, d) : Starts(d, j, offer)
    BY <2>1
  <2>3. /\ disk_state[d] = "NULL" /\ StartRequest(d, j, offer) /\ UNCHANGED <<inputVars, ios>>
        /\ UNCHANGED <<mapping, request_queue>> /\ Queue' = Queue
    BY <2>2 DEF Starts, countVars, inputVars, Queue
  <2>4. PICK k \in Shares(mapping) :
           /\ request_queue[j].disks[k] = d
           /\ offer.op \in Ops
           /\ Kind(mapping, request_queue[j]) # "update" => offer.op = request_queue[j].op
           /\ Kind(mapping, request_queue[j]) = "update" /\ offer.op = Write =>
                Did(j)[Read] = {1, 2}
           /\ \A l \in Queue : Did(l)' = Did(l)
           /\ Doing(j)' = With(Doing(j), offer.op, k)
           /\ \A l \in Queue \ {j} : Doing(l)' = Doing(l)
    BY <2>3, StartEffect
  <2>5. ASSUME NEW i \in Queue, Follows(j, i) PROVE k \in Did(i)[Ahead(offer.op)]
    BY <2>2, <2>4, <2>5, StartsInOrder
  <2>6. ASSUME NEW i \in Queue, NEW l \in Queue, Follows(l, i), NEW op \in Ops
        PROVE  Did(l)[op] \cup Doing(l)'[op] \subseteq Did(i)[Ahead(op)]
    <3>1. Did(l)[op] \cup Doing(l)[op] \subseteq Did(i)[Ahead(op)]
      BY <2>6 DEF OrderInv
    <3>2. CASE l # j
      BY <2>4, <3>1, <3>2
    <3>3. CASE l = j
      <4>1. Doing(j) \in [Ops -> SUBSET Shares(mapping)]
        BY DEF Inv, ShareInv, StatusOK
      <4>2. Doing(j)'[op] = IF op = offer.op THEN Doing(j)[op] \cup {k} ELSE Doing(j)[op]
        BY <2>4, <4>1 DEF With
      <4> QED
        BY <2>5, <2>6, <3>1, <3>3, <4>2
    <3> QED
      BY <3>2, <3>3
  <2>7. \A i \in Queue, l \in Queue : Follows(l, i)' <=> Follows(l, i)
    BY <2>3 DEF Follows
  <2>8. \A op \in Ops : Ahead(op)' = Ahead(op)
    BY <2>3 DEF Ahead
  <2> QED
    BY <2>3, <2>4, <2>6, <2>7, <2>8 DEF OrderInv
<1>3. CASE FinishIO
  <2>1. PICK d \in DiskIds, e \in Queue, o \in Ops, k \in Shares(mapping) :
          FinishesShare(d, e, o, k)
    BY <1>3, FinishEffect
  <2>2. UNCHANGED <<mapping, request_queue>> /\ Queue' = Queue
    BY <1>3 DEF FinishIO, inputVars, Queue
  <2>3. /\ Did(e)' = With(Did(e), o, k) /\ Doing(e)' = Without(Doing(e), o, k)
        /\ k \in Doing(e)[o]
        /\ \A l \in Queue \ {e} : Did(l)' = Did(l) /\ Doing(l)' = Doing(l)
    BY <2>1 DEF FinishesShare
  <2>4. ASSUME NEW l \in Queue, NEW op \in Ops
        PROVE  /\ Did(l)[op] \subseteq Did(l)'[op]
               /\ Did(l)'[op] \cup Doing(l)'[op] = Did(l)[op] \cup Doing(l)[op]
    <3>1. CASE l # e
      BY <2>3, <3>1
    <3>2. CASE l = e
      <4>1. /\ Doing(e) \in [Ops -> SUBSET Shares(mapping)]
            /\ Did(e) \in [Ops -> SUBSET Shares(mapping)]
        BY DEF Inv, ShareInv, StatusOK
      <4>2. /\ Doing(e)'[op] = IF op = o THEN Doing(e)[op] \ {k} ELSE Doing(e)[op]
            /\ Did(e)'[op] = IF op = o THEN Did(e)[op] \cup {k} ELSE Did(e)[op]
        BY <2>3, <4>1 DEF With, Without
      <4> QED
        BY <2>3, <3>2, <4>2
    <3> QED
      BY <3>1, <3>2
  <2>7. \A i \in Queue, l \in Queue : Follows(l, i)' <=> Follows(l, i)
    BY <2>2 DEF Follows
  <2>8. \A op \in Ops : Ahead(op)' = Ahead(op) /\ Ahead(op) \in Ops
    BY <2>2 DEF Ahead, Ops
  <2>9. ASSUME NEW i \in Queue, NEW l \in Queue, Follows(l, i), NEW op \in Ops
        PROVE  Did(l)'[op] \cup Doing(l)'[op] \subseteq Did(i)'[Ahead(op)]
    <3>1. Did(l)[op] \cup Doing(l)[op] \subseteq Did(i)[Ahead(op)]
      BY <2>9 DEF OrderInv
    <3>2. Did(i)[Ahead(op)] \subseteq Did(i)'[Ahead(op)]
      BY <2>4, <2>8
    <3> QED
      BY <2>4, <3>1, <3>2
  <2> QED
    BY <2>2, <2>7, <2>8, <2>9 DEF OrderInv
<1> QED
  BY <1>1, <1>2, <1>3, StepCases

LEMMA OrderHolds == Inv /\ OrderInv => WritesInOrder
<1> SUFFICES ASSUME Inv, OrderInv, NEW d \in DiskIds, NEW i \in Queue,
                    NEW j, j = current_target[d],
                    disk_state[d] # "NULL", i < j,
                    request_queue[i].op = Write, request_queue[i].addr = request_queue[j].addr,
                    current_optype[d] = Write \/ mapping \in {0, 1}
             PROVE  <<Write, d>> \in ios[i]
  BY DEF WritesInOrder
<1> DEFINE op == current_optype[d]
<1>1. j \in Queue /\ op \in Ops /\ \E k \in Shares(mapping) : request_queue[j].disks[k] = d
  BY DEF Inv, DiskInv
<1>2. PICK k \in Shares(mapping) : request_queue[j].disks[k] = d
  BY <1>1
<1>3. k \in Doing(j)[op]
  BY <1>1, <1>2 DEF Doing, DoingIO, Serves
<1>4. request_queue[j].disks = request_queue[i].disks
  BY <1>1 DEF Inv, QueueInv
<1>5. mapping \in {0, 1} \/ request_queue[j].op = Write
  <2> SUFFICES ASSUME mapping \notin {0, 1} PROVE request_queue[j].op = Write
    OBVIOUS
  <2>1. op = Write /\ StatusOK(mapping, request_queue[j], status[j], Did(j), Doing(j))
        /\ IsRequest(mapping, request_queue[j])
    BY <1>1 DEF Inv, QueueInv, ShareInv
  <2>2. CASE Kind(mapping, request_queue[j]) = "update"
    BY <2>1, <2>2 DEF Kind, IsRequest, Ops
  <2>3. CASE Kind(mapping, request_queue[j]) # "update"
    BY <1>3, <2>1, <2>3 DEF StatusOK, Other, IsRequest, Ops, Read, Write
  <2> QED
    BY <2>2, <2>3
<1>6. Follows(j, i)
  BY <1>5 DEF Follows
<1>7. k \in Did(i)[Ahead(op)]
  BY <1>1, <1>3, <1>6 DEF OrderInv
<1>8. Ahead(op) = Write /\ Write \in Ops
  BY DEF Ahead, Ops
<1>9. k \in DidIO(i, Write)
  BY <1>7, <1>8 DEF Did
<1> QED
  BY <1>2, <1>4, <1>9 DEF DidIO

\* Two writes of one address reach each disk in the order of the queue, and
\* without parity no read passes an earlier write of its address: on RAID-0, 1 and
\* 5, and on RAID-4 without full stripes.  A full-stripe write, which does not
\* read first, may overtake an earlier parity update of the same block.
THEOREM WritesOrdered ==
  Spec /\ (mapping # 4 \/ NoFullStripe) => []WritesInOrder
<1>1. Init /\ (mapping # 4 \/ NoFullStripe) => Inv /\ NoFullStripe /\ OrderInv
  <2>1. Init => OrderInv
    <3> SUFFICES ASSUME Init, NEW j \in Queue, NEW op \in Ops
                 PROVE  Did(j)[op] \cup Doing(j)[op] = {}
      BY DEF OrderInv
    <3>1. PICK in \in Inputs : /\ request_queue = Requests(in.mapping, in.addr)
                               /\ ios = [i \in DOMAIN in.addr |-> {}]
      BY DEF Init
    <3>2. Queue = DOMAIN in.addr
      BY <3>1 DEF Queue, Requests
    <3>3. DidIO(j, op) = {}
      BY <3>1, <3>2 DEF DidIO
    <3>4. \A k \in Shares(mapping) : request_queue[j].disks[k] \in DiskIds
      BY InitInv DEF Inv, QueueInv, IsRequest
    <3>5. DoingIO(j, op) = {}
      BY <3>4 DEF DoingIO, Serves, Init
    <3> QED
      BY <3>3, <3>5 DEF Did, Doing
  <2> QED
    BY <2>1, InitInv, OnlyRaid4HasStripes
<1>2. Inv /\ NoFullStripe /\ OrderInv /\ [Next]_vars => Inv' /\ NoFullStripe' /\ OrderInv'
  BY InvStep, NoStripeStep, OrderStep
<1>3. Inv /\ OrderInv => WritesInOrder
  BY OrderHolds
<1> QED
  BY <1>1, <1>2, <1>3, PTL DEF Spec
-----------------------------------------------------------------------------
(***************************************************************************)
(* A window of one request, -w 1.  The requests are served one at a time,  *)
(* so that the data disk of a full stripe's write is never busy when the   *)
(* parity disk looks for work: what goes wrong with wider windows cannot.  *)
(***************************************************************************)
\* Only one request of the window is not over.
LEMMA OnlyOne ==
  ASSUME Inv, window_option = 1,
         NEW i \in Queue, i \in 1 .. window, i \notin OverSet,
         NEW j \in Queue, j \in 1 .. window, j \notin OverSet
  PROVE  i = j
<1>1. Cardinality((1 .. window) \ OverSet) = 1 /\ IsFiniteSet((1 .. window) \ OverSet)
  BY WindowOpen
<1>2. PICK x : (1 .. window) \ OverSet = {x}
  BY <1>1, FS_Singleton
<1> QED
  BY <1>2

\* A request a disk works for has begun and is not over.
LEMMA BusyIsOpen ==
  ASSUME Inv, NEW d \in DiskIds, disk_state[d] # "NULL"
  PROVE  /\ current_target[d] \in Queue /\ Begun(current_target[d])
         /\ current_target[d] \notin OverSet
<1> DEFINE j == current_target[d]
           op == current_optype[d]
<1>1. PICK k \in Shares(mapping) : request_queue[j].disks[k] = d /\ j \in Queue /\ op \in Ops
  BY DEF Inv, DiskInv
<1>2. k \in DoingIO(j, op)
  BY <1>1 DEF DoingIO, Serves
<1>3. k \in Doing(j)[op]
  BY <1>1, <1>2 DEF Doing
<1>4. /\ mapping \in Mappings /\ IsRequest(mapping, request_queue[j])
      /\ StatusOK(mapping, request_queue[j], status[j], Did(j), Doing(j))
  BY <1>1 DEF Inv, QueueInv, ShareInv
<1> HIDE DEF j, op
<1>5. ~ Over(mapping, request_queue[j], Did(j))
  BY <1>1, <1>3, <1>4, OverIsQuiet
<1> QED
  BY <1>1, <1>2, <1>5 DEF Begun, OverSet, j

\* The I/O a disk starts is not one of a stripe that should skip the parity disk.
LEMMA StartSkipsParity ==
  ASSUME Inv, IdleInv, window_option = 1, NEW d \in DiskIds, NEW i \in Queue,
         NEW offer \in Offers(i, d), Starts(d, i, offer)
  PROVE  LET r == request_queue[i]
         IN r.full_stripe_write /\ d = r.disks[2] => r.full_stripe_write_parity
<1> DEFINE r == request_queue[i]
           e == r.disks[1]
<1> SUFFICES ASSUME r.full_stripe_write, d = r.disks[2], ~ r.full_stripe_write_parity
             PROVE  FALSE
  OBVIOUS
<1>1. /\ IsRequest(mapping, r) /\ mapping = 4 /\ mapping \in Mappings
      /\ r.disks = PhysDisks(mapping, r.addr)
      /\ StatusOK(mapping, r, status[i], Did(i), Doing(i))
      /\ Shares(mapping) = {1, 2}
  BY DEF Inv, QueueInv, ShareInv, IsRequest, Shares
<1>2. /\ disk_state[d] = "NULL" /\ StartRequest(d, i, offer)
      /\ UNCHANGED <<inputVars, ios>>
      /\ ctl = "schedule" /\ d = sdisk /\ i \in Startable(d)
  BY DEF Starts, countVars
<1>3. PICK k \in Shares(mapping) :
        /\ r.disks[k] = d
        /\ offer.op \in Ops
        /\ Kind(mapping, r) # "update" => offer.op = r.op
        /\ Kind(mapping, r) = "either" => ~ Begun(i)
        /\ i \notin OverSet
        /\ QueueInv' /\ Queue' = Queue /\ ShareInv'
        /\ Doing(i)' = With(Doing(i), offer.op, k)
  BY <1>2, StartEffect
<1>4. e # d /\ k = 2
  BY <1>1, <1>3 DEF IsRequest
<1>5. Kind(mapping, r) = "either" /\ r.op = Write
  <2>1. CASE r.op = Read
    <3>1. Kind(mapping, r) = "single"
      BY <1>1, <2>1 DEF Kind
    <3>2. k \in Doing(i)'[offer.op]
      BY <1>3 DEF With, Doing
    <3>3. StatusOK(mapping, r, status'[i], Did(i)', Doing(i)')
      BY <1>2, <1>3 DEF ShareInv, inputVars
    <3> QED
      BY <1>3, <1>4, <3>1, <3>2, <3>3 DEF StatusOK
  <2>2. CASE r.op = Write
    BY <1>1, <2>2 DEF Kind, Read, Write
  <2> QED
    BY <1>1, <2>1, <2>2 DEF IsRequest, Ops
<1>6. e \in DiskIds /\ e < d
  BY <1>1, SMT DEF PhysDisks, DiskIds, disk_count, IsRequest
<1>7. i \in 1 .. window
  <2>1. window \in Nat
    BY WindowOpen
  <2>2. i \in Nat \ {0} /\ (window = -1 \/ i <= window)
    BY <1>2 DEF Startable, Inv, QueueInv
  <2> QED
    BY <2>1, <2>2
<1>8. Offers(i, e) # {}
  <2>1. Did(i)[Write] \cup Doing(i)[Write] = {}
    BY <1>3, <1>5, BegunIs DEF Ops
  <2>2. status[i][1] = "NOT_STARTED"
    BY <1>1, <1>5, <2>1 DEF StatusOK
  <2>3. 1 \in Positions(r, status[i], e, {"NOT_STARTED"})
    BY <1>1, <2>2 DEF Positions, IsRequest
  <2>4. FullStripeWrite(r, status[i], e) # {}
    BY <2>3 DEF FullStripeWrite
  <2>5. OffersOf(mapping, r, status[i], e) = FullStripeWrite(r, status[i], e)
    BY <1>1, <1>5 DEF OffersOf, DoRaid4Scheduling, Read, Write
  <2> QED
    BY <1>1, <2>4, <2>5, OffersAre
<1>9. i \in Startable(e)
  BY <1>2, <1>8 DEF Startable
<1>10. disk_state[e] # "NULL"
  BY <1>2, <1>6, <1>9 DEF IdleInv, Settled
<1>11. current_target[e] = i
  <2> DEFINE j == current_target[e]
  <2>1. j \in Queue /\ Begun(j) /\ j \notin OverSet
    BY <1>6, <1>10, BusyIsOpen
  <2>2. j \in 1 .. window
    BY <2>1, WindowOpen
  <2> HIDE DEF j
  <2>3. i = j
    BY <1>3, <1>7, <2>1, <2>2, OnlyOne
  <2> QED
    BY <2>3 DEF j
<1> QED
  BY <1>3, <1>5, <1>6, <1>10, <1>11, BusyIsOpen

LEMMA SkipStep ==
  ASSUME Inv, IdleInv, FullStripeSkipsParity, window_option = 1, [Next]_vars
  PROVE  FullStripeSkipsParity'
<1> DEFINE Skips(x) ==
      disk_state[x] # "NULL" =>
        LET r == request_queue[current_target[x]]
        IN r.full_stripe_write /\ x = r.disks[2] => r.full_stripe_write_parity
<1> SUFFICES ASSUME NEW x \in DiskIds PROVE Skips(x)'
  BY DEF FullStripeSkipsParity
<1>1. Skips(x) /\ disk_state \in [DiskIds -> DiskStates]
      /\ current_target \in [DiskIds -> Queue \cup {NoRequest}]
  BY DEF FullStripeSkipsParity, Inv, DiskInv
<1>2. CASE QuietStep
  BY <1>1, <1>2 DEF QuietStep, inputVars
<1>3. CASE FinishIO
  BY <1>1, <1>3 DEF FinishIO, inputVars, targetVars
<1>4. CASE \E d \in DiskIds, i \in Queue : \E offer \in Offers(i, d) : Starts(d, i, offer)
  <2>1. PICK d \in DiskIds, i \in Queue : \E offer \in Offers(i, d) : Starts(d, i, offer)
    BY <1>4
  <2>2. PICK offer \in Offers(i, d) : Starts(d, i, offer)
    BY <2>1
  <2>3. /\ request_queue' = request_queue
        /\ disk_state' = [disk_state EXCEPT ![d] = "SEEK"]
        /\ current_target' = [current_target EXCEPT ![d] = i]
    BY <2>2 DEF Starts, StartRequest, inputVars
  <2>4. CASE x = d
    BY <1>1, <2>2, <2>3, <2>4, StartSkipsParity
  <2>5. CASE x # d
    BY <1>1, <2>3, <2>5
  <2> QED
    BY <2>4, <2>5
<1> QED
  BY <1>2, <1>3, <1>4, StepCases

\* A request begins when those before it are over.
TurnInv == \A i \in Queue, j \in Queue : i < j /\ Begun(j) => i \in OverSet

LEMMA TurnStep ==
  ASSUME Inv, TurnInv, window_option = 1, [Next]_vars
  PROVE  TurnInv'
<1> SUFFICES ASSUME NEW i \in Queue, NEW j \in Queue, i < j, Begun(j)'
             PROVE  i \in OverSet'
  <2>1. Queue' = Queue
    BY ShareStep
  <2> QED
    BY <2>1 DEF TurnInv
<1>1. CASE QuietStep
  <2>1. /\ Did(j)' = Did(j) /\ Doing(j)' = Doing(j) /\ Did(i)' = Did(i)
        /\ UNCHANGED <<mapping, request_queue>> /\ Queue' = Queue
    BY <1>1, QuietSame DEF QuietStep, inputVars, Queue
  <2>2. \A x : Begun(x)' <=> \E op \in Ops : Did(x)'[op] \cup Doing(x)'[op] # {}
    BY DEF Begun, Did, Doing
  <2>3. Begun(j)
    BY <2>1, <2>2, BegunIs
  <2> QED
    BY <2>1, <2>3 DEF TurnInv, OverSet
<1>2. CASE FinishIO
  <2>1. Begun(j)
    BY <1>2, BegunFinish
  <2>2. OverSet \subseteq OverSet'
    BY <1>2, FinishEffect DEF FinishesShare
  <2> QED
    BY <2>1, <2>2 DEF TurnInv
<1>3. CASE \E d \in DiskIds, x \in Queue : \E offer \in Offers(x, d) : Starts(d, x, offer)
  <2>1. PICK d \in DiskIds, x \in Queue : \E offer \in Offers(x, d) : Starts(d, x, offer)
    BY <1>3
  <2>2. PICK offer \in Offers(x, d) : Starts(d, x, offer)
    BY <2>1
  <2>3. OverSet' = OverSet /\ \A y \in Queue \ {x} : Begun(y)' <=> Begun(y)
    BY <2>2, BegunStart
  <2>4. CASE j # x
    BY <2>3, <2>4 DEF TurnInv
  <2>5. CASE j = x
    <3>1. j \notin OverSet /\ j \in Startable(d)
      BY <2>2, <2>5, StartEffect DEF Starts, countVars
    <3>2. window \in Nat /\ j \in Nat /\ (window = -1 \/ j <= window) /\ i \in Nat \ {0}
      BY <3>1, WindowOpen DEF Startable, Inv, QueueInv
    <3>3. i \in 1 .. window /\ j \in 1 .. window /\ i # j
      BY <3>2
    <3> QED
      BY <2>3, <3>1, <3>3, OnlyOne
  <2> QED
    BY <2>4, <2>5
<1> QED
  BY <1>1, <1>2, <1>3, StepCases

\* Then a write is through with all its disks before a later one begins.
LEMMA TurnsOrder == Inv /\ StripeInv /\ TurnInv => WritesInOrder
<1> SUFFICES ASSUME Inv, StripeInv, TurnInv, NEW d \in DiskIds, NEW i \in Queue,
                    disk_state[d] # "NULL", i < current_target[d],
                    request_queue[i].op = Write, d \in Job(i).writes
             PROVE  <<Write, d>> \in ios[i]
  BY DEF WritesInOrder
<1>1. i \in OverSet
  BY BusyIsOpen DEF TurnInv
<1>2. Array!Complete(Job(i), ios[i])
  BY <1>1, CompleteIsOver DEF OverSet
<1>3. Job(i) = JobOf(mapping, request_queue[i]) /\ IsRequest(mapping, request_queue[i])
      /\ mapping \in Mappings
  BY JobIs DEF Inv, QueueInv
<1>4. ~ Job(i).any
  BY <1>3 DEF JobOf, Read, Write
<1> QED
  BY <1>2, <1>4 DEF Array!Complete, Array!IOs, Array!Write, Write

\* All that holds of a run with -w 1.
TurnsKept ==
  /\ Inv /\ StripeInv /\ EndInv /\ IdleInv /\ TurnInv
  /\ FullStripeSkipsParity /\ window_option = 1

LEMMA TurnsInit == Init /\ StripesAreWrites /\ window_option = 1 => TurnsKept
<1> SUFFICES ASSUME Init, StripesAreWrites, window_option = 1
             PROVE  IdleInv /\ TurnInv /\ FullStripeSkipsParity
  BY InitInv, StripeInit, InitEnd DEF TurnsKept
<1>1. IdleInv /\ FullStripeSkipsParity
  BY DEF Init, IdleInv, FullStripeSkipsParity
<1>2. ASSUME NEW j \in Queue, Begun(j) PROVE FALSE
  <2>1. PICK in \in Inputs : /\ request_queue = Requests(in.mapping, in.addr)
                             /\ ios = [i \in DOMAIN in.addr |-> {}]
    BY DEF Init
  <2>2. Queue = DOMAIN in.addr
    BY <2>1 DEF Queue, Requests
  <2>3. \A op : DidIO(j, op) = {}
    BY <2>1, <2>2 DEF DidIO
  <2>4. \A k \in Shares(mapping) : request_queue[j].disks[k] \in DiskIds
    BY InitInv DEF Inv, QueueInv, IsRequest
  <2>5. \A op : DoingIO(j, op) = {}
    BY <2>4 DEF DoingIO, Serves, Init
  <2> QED
    BY <1>2, <2>3, <2>5 DEF Begun
<1> QED
  BY <1>1, <1>2 DEF TurnInv

LEMMA TurnsStep == TurnsKept /\ [Next]_vars => TurnsKept'
<1> SUFFICES ASSUME TurnsKept, [Next]_vars PROVE TurnsKept'
  OBVIOUS
<1>1. window_option' = window_option
  <2>1. CASE QuietStep
    BY <2>1 DEF QuietStep, inputVars
  <2>2. CASE \E d \in DiskIds, i \in Queue : \E offer \in Offers(i, d) : Starts(d, i, offer)
    BY <2>2 DEF Starts, inputVars
  <2>3. CASE FinishIO
    BY <2>3 DEF FinishIO, inputVars
  <2> QED
    BY <2>1, <2>2, <2>3, StepCases DEF TurnsKept
<1> QED
  BY <1>1, InvStep, StripeStep, EndStep, IdleStep, TurnStep, SkipStep DEF TurnsKept

\* With -w 1 a full stripe of writes skips the parity disk, as line 677 means it to:
\* the data disk is idle when GetNextIOs comes to the parity disk, and has taken the
\* request before.
THEOREM OneAtATime ==
  Spec /\ StripesAreWrites /\ window_option = 1 => []FullStripeSkipsParity
<1>1. TurnsKept => FullStripeSkipsParity
  BY DEF TurnsKept
<1> QED
  BY <1>1, TurnsInit, TurnsStep, PTL DEF Spec

\* With -w 1 the writes to one block, those of full stripes included, reach the disk
\* in the order of the queue.
THEOREM WritesOneAtATime ==
  Spec /\ StripesAreWrites /\ window_option = 1 => []WritesInOrder
<1>1. TurnsKept => WritesInOrder
  BY TurnsOrder DEF TurnsKept
<1> QED
  BY <1>1, TurnsInit, TurnsStep, PTL DEF Spec

\* The command lines on which no full stripe is taken for what it is not.
Untroubled ==
  \/ mapping # 4
  \/ NoFullStripe
  \/ StripesAreWrites /\ window_option = 1

\* On them all that the simulator promises holds without a condition on what it
\* does: it implements the array, keeps the window, adds up the latencies, is done
\* only when all is done, and stays so, leaves no disk idle that has work nor four
\* of them before the end, and keeps writes to one block in order.
THEOREM UntroubledRuns ==
  Spec /\ Untroubled =>
    /\ ImplementsRaidIO /\ []Array!Promise /\ []CompletionsCounted
    /\ []AtMostWindow /\ []LatencyAccounted
    /\ []DoneIsReal /\ StaysDone
    /\ []NoIdleDisk /\ []AtWork /\ []WritesInOrder
<1>1. Init /\ (mapping # 4 \/ NoFullStripe) => StripesAreWrites
  BY InitInv, OnlyRaid4HasStripes DEF NoFullStripe, StripesAreWrites
<1>2. Spec /\ Untroubled => StripesAreWrites
  BY <1>1, PTL DEF Spec, Untroubled
<1>3. Spec /\ Untroubled => []FullStripeSkipsParity
  BY WithoutStripes, OneAtATime, PTL DEF Untroubled
<1>4. Spec /\ Untroubled => []WritesInOrder
  BY WritesOrdered, WritesOneAtATime, PTL DEF Untroubled
<1> QED
  BY <1>2, <1>3, <1>4, ArrayImplemented, PromiseKept, WindowKept, LatenciesAdd, DoneCorrect,
     DoneStays, NoDiskIdles, NeverStalls, PTL
=============================================================================
