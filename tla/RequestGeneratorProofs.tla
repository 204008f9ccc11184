----------------------- MODULE RequestGeneratorProofs -----------------------
(***************************************************************************)
(* Proofs about the generator of requests, for every command line.         *)
(***************************************************************************)
EXTENDS RequestGenerator, FiniteSetTheorems, TLAPS

\* What is set at start: the range of addresses is not empty unless the program
\* stops at once, and without a maximum it is the whole array.
InputsOK ==
  /\ mapping \in {0, 1, 4, 5} /\ num \in Nat /\ req_max \in Int /\ req_min \in Nat
  /\ ~ max_given => req_max = BlockCount(mapping)
  /\ ctl # "rejected" => req_min < req_max

\* When blocks are fewer than disks, the turns go up to the first disk without
\* a block and stay there; each turn at or above the minimum made a request.
TurnsOK ==
  ctl # "rejected" /\ req_max < effective_disk_count =>
    /\ target_disk <= req_max
    /\ Len(request_queue) <= IF target_disk > req_min THEN target_disk - req_min ELSE 0

\* An assertion can stop only a program that was given a maximum.
PlacedOK == ~ max_given => ctl # "failed"

IInv == TypeOK /\ InputsOK /\ TurnsOK /\ PlacedOK

LEMMA EachInRange ==
  ASSUME TypeOK, NEW i \in DOMAIN request_queue
  PROVE  request_queue[i] \in [op : {Read, Write}, addr : req_min .. req_max - 1]
<1> DEFINE S == [op : {Read, Write}, addr : req_min .. req_max - 1]
<1>1. request_queue \in Seq(S)
  BY DEF TypeOK
<1> HIDE DEF S
<1>2. request_queue[i] \in S
  BY <1>1
<1> QED
  BY <1>2 DEF S

LEMMA DiskCounts == effective_disk_count \in {3, 4}
  BY DEF effective_disk_count

LEMMA Initially == Init => IInv
<1> SUFFICES ASSUME NEW desc \in Descs,
                    mapping = desc.mapping, num = desc.num, req_min = desc.min,
                    req_max = IF desc.max = -1 THEN BlockCount(desc.mapping) ELSE desc.max,
                    max_given = (desc.max # -1),
                    request_queue = <<>>, target_disk = 0,
                    ctl = IF req_min >= req_max THEN "rejected" ELSE "generate"
             PROVE  IInv
  BY DEF Init
<1>1. /\ mapping \in {0, 1, 4, 5} /\ num \in Nat /\ req_min \in Nat
      /\ desc.max \in Nat \cup {-1} /\ BlockCount(mapping) \in Nat
  BY DescAssumption DEF BlockCount, StripedBlocks, MirroredBlocks, ParityBlocks, RotatedBlocks
<1>2. req_max \in Int
  BY <1>1
<1>3. InputsOK
  <2>1. ~ max_given => req_max = BlockCount(mapping)
    OBVIOUS
  <2>2. ctl # "rejected" => req_min < req_max
    BY <1>1, <1>2, SMT
  <2> QED
    BY <1>1, <1>2, <2>1, <2>2 DEF InputsOK
<1>4. TypeOK
  BY <1>1, DiskCounts, SMT DEF TypeOK
<1>5. TurnsOK
  BY <1>1, <1>2, SMT DEF TurnsOK
<1> QED
  BY <1>3, <1>4, <1>5 DEF IInv, PlacedOK

LEMMA HitKeeps == ASSUME IInv, NEW req \in Addresses, Hit(req) PROVE IInv'
<1> USE DEF IInv
<1>1. /\ req \in Nat /\ req < req_max /\ ctl = "generate" /\ Len(request_queue) < num
      /\ req % effective_disk_count = target_disk
      /\ target_disk' = IF target_disk + 1 = effective_disk_count THEN 0 ELSE target_disk + 1
      /\ UNCHANGED <<mapping, num, req_max, req_min, max_given, ctl>>
  BY SMT DEF Hit, Addresses, NextTurn, inputVars, Generating
<1>2. effective_disk_count' = effective_disk_count
  BY <1>1 DEF effective_disk_count
<1>3. InputsOK' /\ PlacedOK'
  BY <1>1 DEF InputsOK, PlacedOK, BlockCount
<1>4. CASE req >= req_min
  <2>1. PICK op \in {Read, Write} :
          request_queue' = Append(request_queue, [op |-> op, addr |-> req])
    BY <1>4 DEF Hit
  <2>2. [op |-> op, addr |-> req] \in [op : {Read, Write}, addr : req_min .. req_max - 1]
    BY <1>1, <1>4, SMT DEF InputsOK
  <2>3. /\ request_queue' \in Seq([op : {Read, Write}, addr : req_min .. req_max - 1])
        /\ Len(request_queue') = Len(request_queue) + 1
    BY <2>1, <2>2 DEF TypeOK
  <2>4. TypeOK'
    BY <1>1, <1>2, <2>3, DiskCounts, SMT DEF TypeOK, InputsOK
  <2>5. TurnsOK'
    <3> SUFFICES ASSUME req_max < effective_disk_count
                 PROVE  /\ target_disk' <= req_max
                        /\ Len(request_queue') <= IF target_disk' > req_min
                                                    THEN target_disk' - req_min ELSE 0
      BY <1>1, <1>2 DEF TurnsOK
    <3>1. req = target_disk
      <4>1. req < effective_disk_count /\ req \in Nat /\ effective_disk_count \in {3, 4}
        BY <1>1, DiskCounts, SMT DEF InputsOK
      <4> QED
        BY <1>1, <4>1, SMT
    <3>2. target_disk' = target_disk + 1
      BY <1>1, <3>1, DiskCounts, SMT DEF InputsOK
    <3> QED
      BY <1>1, <1>4, <2>3, <3>1, <3>2, SMT DEF TurnsOK, TypeOK, InputsOK
  <2> QED
    BY <1>3, <2>4, <2>5
<1>5. CASE req < req_min
  <2>1. UNCHANGED request_queue
    BY <1>1, <1>5, SMT DEF Hit, InputsOK
  <2>2. TypeOK'
    BY <1>1, <1>2, <2>1, DiskCounts, SMT DEF TypeOK, InputsOK
  <2>3. TurnsOK'
    <3> SUFFICES ASSUME req_max < effective_disk_count
                 PROVE  /\ target_disk' <= req_max
                        /\ Len(request_queue) <= IF target_disk' > req_min
                                                   THEN target_disk' - req_min ELSE 0
      BY <1>1, <1>2, <2>1 DEF TurnsOK
    <3>1. req = target_disk
      <4>1. req < effective_disk_count /\ req \in Nat /\ effective_disk_count \in {3, 4}
        BY <1>1, DiskCounts, SMT DEF InputsOK
      <4> QED
        BY <1>1, <4>1, SMT
    <3> QED
      BY <1>1, <1>5, <3>1, DiskCounts, SMT DEF TurnsOK, TypeOK, InputsOK
  <2> QED
    BY <1>3, <2>2, <2>3
<1> QED
  BY <1>1, <1>4, <1>5, SMT DEF InputsOK

LEMMA PlaceKeeps == ASSUME IInv, Place PROVE IInv'
<1> USE DEF IInv
<1>1. /\ ctl = "generate" /\ ctl' \in {"ready", "failed"}
      /\ Len(request_queue) = num
      /\ ctl' = "failed" => \E i \in 1 .. num : ~ (request_queue[i].addr < BlockCount(mapping))
      /\ UNCHANGED <<mapping, num, req_max, req_min, max_given, request_queue, target_disk>>
  BY DEF Place, inputVars
<1>2. effective_disk_count' = effective_disk_count /\ BlockCount(mapping)' = BlockCount(mapping)
  BY <1>1 DEF effective_disk_count, BlockCount
<1>3. TypeOK' /\ InputsOK' /\ TurnsOK'
  BY <1>1, <1>2 DEF TypeOK, InputsOK, TurnsOK
<1>4. PlacedOK'
  <2> SUFFICES ASSUME ~ max_given, NEW i \in 1 .. num
               PROVE  request_queue[i].addr < BlockCount(mapping)
    BY <1>1 DEF PlacedOK
  <2>1. request_queue[i] \in [op : {Read, Write}, addr : req_min .. req_max - 1]
    BY <1>1, EachInRange, SMT DEF InputsOK, TypeOK
  <2> QED
    BY <2>1, SMT DEF InputsOK
<1> QED
  BY <1>3, <1>4

THEOREM Invariance == Spec => []IInv
<1>1. ASSUME IInv, [Next]_vars PROVE IInv'
  <2>1. CASE Place
    BY <1>1, <2>1, PlaceKeeps
  <2>2. ASSUME NEW req \in Addresses, Hit(req) PROVE IInv'
    BY <1>1, <2>2, HitKeeps
  <2>3. CASE UNCHANGED vars
    BY <1>1, <2>3 DEF IInv, TypeOK, InputsOK, TurnsOK, PlacedOK, effective_disk_count,
                      BlockCount, vars
  <2> QED
    BY <1>1, <2>1, <2>2, <2>3 DEF Next, Miss
<1> QED
  BY Initially, <1>1, PTL DEF Spec

\* Every variable of the generator keeps its type; each request lies within
\* the addresses asked for.
THEOREM TypeCorrect == Spec => []TypeOK
  BY Invariance, PTL DEF IInv

\* With fewer blocks than disks, no more requests are ever made than blocks lie
\* between minimum and maximum: a longer list is never finished.
THEOREM Starvation == Spec => []Starves
<1>1. IInv => Starves
  BY DiskCounts, SMT DEF IInv, TypeOK, InputsOK, TurnsOK, Starves
<1> QED
  BY Invariance, <1>1, PTL

\* The two computations of the layout agree: on every RAID level each block of the
\* array is drawn where a request for it goes.
LEMMA Drawn ==
  ASSUME NEW m \in {0, 1, 4, 5}, NEW a \in Nat, a < BlockCount(m)
  PROVE  DrawnAsServed(m, a)
<1> USE DEF disk_count
<1>1. a \in 0 .. BlockCount(m) - 1
  BY SMT DEF BlockCount, StripedBlocks, MirroredBlocks, ParityBlocks, RotatedBlocks
<1>2. CASE m = 0
  <2>1. DOMAIN PhysDisks(m, a) = {1} /\ PhysDisks(m, a)[1] = a % 4
    BY <1>2 DEF PhysDisks
  <2>2. Places(m, a) = {<<PhysDisks(m, a)[k], PhysOffset(m, a)>> : k \in DOMAIN PhysDisks(m, a)}
    BY <1>2, <2>1 DEF Places, StripedPlaces, PhysOffset
  <2>3. m \notin {4, 5}
    BY <1>2
  <2> QED
    BY <1>1, <2>2, <2>3, Zenon DEF DrawnAsServed
<1>3. CASE m = 1
  <2>1. /\ DOMAIN PhysDisks(m, a) = {1, 2}
        /\ PhysDisks(m, a)[1] = 2 * (a % (4 \div 2))
        /\ PhysDisks(m, a)[2] = 2 * (a % (4 \div 2)) + 1
    BY <1>3 DEF PhysDisks
  <2>2. Places(m, a) = {<<PhysDisks(m, a)[k], PhysOffset(m, a)>> : k \in DOMAIN PhysDisks(m, a)}
    BY <1>3, <2>1 DEF Places, MirroredPlaces, PhysOffset
  <2>3. m \notin {4, 5}
    BY <1>3
  <2> QED
    BY <1>1, <2>2, <2>3, Zenon DEF DrawnAsServed
<1>4. CASE m \in {4, 5}
  <2> DEFINE row == PhysOffset(m, a)
  <2>1. row = a \div 3 /\ a \in 0 .. 59
    BY <1>4, SMT DEF PhysOffset, BlockCount, ParityBlocks, RotatedBlocks
  <2>2. row \in ParityRows
    BY <2>1, SMT DEF ParityRows, AllBlocks
  <2>3. Places(m, a) = {<<PhysDisks(m, a)[1], row>>} /\ ParityPlace(m, row) = <<PhysDisks(m, a)[2], row>>
    <3>1. CASE m = 4
      BY <2>1, <3>1 DEF PhysDisks, Places, ParityPlaces, ParityPlace
    <3>2. CASE m = 5
      <4>1. row \in Nat /\ a % 3 \in {0, 1, 2} /\ row % 4 \in {0, 1, 2, 3}
        BY <2>1, SMT
      <4>2. Places(m, a) = RotatedPlaces(a) /\ ParityPlace(m, row) = <<RotatedParity(row), row>>
        BY <3>2 DEF Places, ParityPlace
      <4>3. PhysDisks(m, a)[1] = Raid5Data(a) /\ PhysDisks(m, a)[2] = Raid5Parity(row)
        BY <3>2, <2>1 DEF PhysDisks
      <4>4. RotatedParity(row) = Raid5Parity(row)
        BY <4>1, SMT DEF RotatedParity, Raid5Parity
      <4>5. RotatedPlaces(a) = {<<Raid5Data(a), row>>}
        <5> DEFINE disk == a % 3
        <5>1. CASE row % 4 = 0
          <6>1. RotatedPlaces(a) = {<<disk, row>>}
            BY <2>1, <5>1 DEF RotatedPlaces
          <6>2. Raid5Data(a) = disk
            BY <2>1, <4>1, <5>1, SMT DEF Raid5Data, Raid5Parity
          <6> QED
            BY <6>1, <6>2
        <5>2. CASE row % 4 = 1
          <6>1. RotatedPlaces(a) = {<<IF disk >= 2 THEN disk + 1 ELSE disk, row>>}
            BY <2>1, <5>2 DEF RotatedPlaces
          <6>2. Raid5Data(a) = IF disk >= 2 THEN disk + 1 ELSE disk
            BY <2>1, <4>1, <5>2, SMT DEF Raid5Data, Raid5Parity
          <6> QED
            BY <6>1, <6>2
        <5>3. CASE row % 4 = 2
          <6>1. RotatedPlaces(a) = {<<IF disk >= 1 THEN disk + 1 ELSE disk, row>>}
            BY <2>1, <5>3 DEF RotatedPlaces
          <6>2. Raid5Data(a) = IF disk >= 1 THEN disk + 1 ELSE disk
            BY <2>1, <4>1, <5>3, SMT DEF Raid5Data, Raid5Parity
          <6> QED
            BY <6>1, <6>2
        <5>4. CASE row % 4 = 3
          <6>1. RotatedPlaces(a) = {<<disk + 1, row>>}
            BY <2>1, <5>4 DEF RotatedPlaces
          <6>2. Raid5Data(a) = disk + 1
            BY <2>1, <4>1, <5>4, SMT DEF Raid5Data, Raid5Parity
          <6> QED
            BY <6>1, <6>2
        <5> QED
          BY <4>1, <5>1, <5>2, <5>3, <5>4
      <4> QED
        BY <4>2, <4>3, <4>4, <4>5
    <3> QED
      BY <1>4, <3>1, <3>2
  <2> QED
    BY <1>1, <1>4, <2>2, <2>3, Zenon DEF DrawnAsServed
<1> QED
  BY <1>2, <1>3, <1>4

\* Requests drawn from the whole array never run into the assertion, and each
\* goes where its block, and its copy or parity, is drawn.
THEOREM AlwaysPlaceable == Spec => []Placeable
<1>1. ASSUME IInv, ~ max_given, NEW i \in DOMAIN request_queue
      PROVE  DrawnAsServed(mapping, request_queue[i].addr)
  <2>1. request_queue[i] \in [op : {Read, Write}, addr : req_min .. req_max - 1]
    BY <1>1, EachInRange DEF IInv
  <2>2. request_queue[i].addr \in Nat /\ request_queue[i].addr < BlockCount(mapping)
    BY <1>1, <2>1, SMT DEF IInv, InputsOK
  <2>3. mapping \in {0, 1, 4, 5}
    BY <1>1 DEF IInv, InputsOK
  <2> QED
    BY <2>2, <2>3, Drawn
<1>2. IInv => Placeable
  BY <1>1 DEF IInv, PlacedOK, Placeable
<1> QED
  BY Invariance, <1>2, PTL

-----------------------------------------------------------------------------
\* The data disks, or the first disks of the mirrored pairs.
DataDisks == IF mapping = 1 THEN {0, 2} ELSE 0 .. effective_disk_count - 1

\* The disks that have had one turn more than the others.
Ahead(d) == IF mapping = 1 THEN d = 0 /\ target_disk % 2 = 1 ELSE d < target_disk

\* Without a minimum, each turn of a disk made a request there.
TurnsEven ==
  req_min = 0 /\ mapping # 5 =>
    \E q \in Nat : \A d \in DataDisks :
      Cardinality(RequestsOf(d)) = q + (IF Ahead(d) THEN 1 ELSE 0)

\* A draw for disk target_disk is placed on the disk it is counted for.
LEMMA ServedDisk ==
  ASSUME mapping \in {0, 1, 4}, NEW a \in Nat, a % effective_disk_count = target_disk
  PROVE  PhysDisks(mapping, a)[1] = IF mapping = 1 THEN 2 * (target_disk % 2) ELSE target_disk
<1>1. CASE mapping = 0
  BY <1>1 DEF PhysDisks, effective_disk_count, disk_count
<1>2. CASE mapping = 1
  <2>1. a % 4 = target_disk
    BY <1>2 DEF effective_disk_count
  <2>2. a % 2 = target_disk % 2
    BY <2>1, SMT
  <2> QED
    BY <1>2, <2>2, SMT DEF PhysDisks, disk_count
<1>3. CASE mapping = 4
  BY <1>3 DEF PhysDisks, effective_disk_count, disk_count
<1> QED
  BY <1>1, <1>2, <1>3

\* A new request is one more on its disk and none on the others.
LEMMA OneMore ==
  ASSUME TypeOK, num \in Nat, NEW op, NEW a, NEW d, mapping' = mapping,
         request_queue' = Append(request_queue, [op |-> op, addr |-> a])
  PROVE  /\ Cardinality(RequestsOf(d)) \in Nat
         /\ Cardinality(RequestsOf(d)')
              = Cardinality(RequestsOf(d)) + (IF PhysDisks(mapping, a)[1] = d THEN 1 ELSE 0)
<1> DEFINE n == Len(request_queue)
<1>1. n \in Nat /\ DOMAIN request_queue = 1 .. n
  BY DEF TypeOK
<1>2. /\ DOMAIN request_queue' = 1 .. n + 1
      /\ \A i \in 1 .. n : request_queue'[i] = request_queue[i]
      /\ request_queue'[n + 1].addr = a
  BY <1>1, SMT DEF TypeOK
<1>3. RequestsOf(d) \subseteq 1 .. n
  BY <1>1 DEF RequestsOf
<1>4. IsFiniteSet(RequestsOf(d)) /\ Cardinality(RequestsOf(d)) \in Nat
  <2>1. IsFiniteSet(1 .. n)
    BY <1>1, FS_Interval
  <2>2. IsFiniteSet(RequestsOf(d))
    BY <1>3, <2>1, FS_Subset
  <2> QED
    BY <2>2, FS_CardinalityType
<1> HIDE DEF n
<1>5. CASE PhysDisks(mapping, a)[1] = d
  <2>1. RequestsOf(d)' = RequestsOf(d) \cup {n + 1}
    BY <1>1, <1>2, <1>5, SMT DEF RequestsOf
  <2>2. n + 1 \notin RequestsOf(d)
    BY <1>1, <1>3, SMT
  <2> QED
    BY <1>4, <1>5, <2>1, <2>2, FS_AddElement
<1>6. CASE PhysDisks(mapping, a)[1] # d
  <2>1. RequestsOf(d)' = RequestsOf(d)
    BY <1>1, <1>2, <1>6, SMT DEF RequestsOf
  <2> QED
    BY <1>4, <1>6, <2>1
<1> QED
  BY <1>5, <1>6

LEMMA HitKeepsEven ==
  ASSUME IInv, TurnsEven, NEW req \in Addresses, Hit(req)
  PROVE  TurnsEven'
<1> SUFFICES ASSUME req_min = 0, mapping # 5
             PROVE  \E q \in Nat : \A d \in DataDisks :
                      Cardinality(RequestsOf(d)') = q + (IF Ahead(d)' THEN 1 ELSE 0)
  BY DEF TurnsEven, Hit, inputVars, DataDisks, effective_disk_count
<1>1. /\ req \in Nat /\ mapping \in {0, 1, 4} /\ mapping' = mapping /\ num \in Nat
      /\ target_disk \in 0 .. effective_disk_count - 1
      /\ req % effective_disk_count = target_disk
      /\ target_disk' = IF target_disk + 1 = effective_disk_count THEN 0 ELSE target_disk + 1
  BY SMT DEF IInv, InputsOK, TypeOK, Hit, Addresses, NextTurn, inputVars
<1>2. PICK op \in {Read, Write} :
        request_queue' = Append(request_queue, [op |-> op, addr |-> req])
  BY <1>1, SMT DEF Hit
<1>3. PICK q \in Nat : \A d \in DataDisks :
        Cardinality(RequestsOf(d)) = q + (IF Ahead(d) THEN 1 ELSE 0)
  BY <1>1 DEF TurnsEven
<1> DEFINE served == IF mapping = 1 THEN 2 * (target_disk % 2) ELSE target_disk
           wraps == IF mapping = 1 THEN target_disk % 2 = 1
                                   ELSE target_disk + 1 = effective_disk_count
           q2 == IF wraps THEN q + 1 ELSE q
<1>4. \A d \in DataDisks :
        Cardinality(RequestsOf(d)')
          = q + (IF Ahead(d) THEN 1 ELSE 0) + (IF served = d THEN 1 ELSE 0)
  <2>1. PhysDisks(mapping, req)[1] = served
    BY <1>1, ServedDisk
  <2> QED
    BY <1>1, <1>2, <1>3, <2>1, OneMore, SMT DEF IInv
<1>5. \A d \in DataDisks :
        (IF Ahead(d) THEN 1 ELSE 0) + (IF served = d THEN 1 ELSE 0)
          = (IF wraps THEN 1 ELSE 0) + (IF Ahead(d)' THEN 1 ELSE 0)
  <2>1. CASE mapping = 1
    <3>1. target_disk \in 0 .. 3 /\ target_disk' \in 0 .. 3
          /\ (target_disk' % 2 = 1 <=> target_disk % 2 = 0) /\ target_disk % 2 \in {0, 1}
      BY <1>1, <2>1, SMT DEF effective_disk_count
    <3> QED
      BY <1>1, <2>1, <3>1, SMT DEF Ahead, DataDisks
  <2>2. CASE mapping # 1
    BY <1>1, <2>2, DiskCounts, SMT DEF Ahead, DataDisks
  <2> QED
    BY <2>1, <2>2
<1>6. q2 \in Nat /\ \A d \in DataDisks :
        Cardinality(RequestsOf(d)') = q2 + (IF Ahead(d)' THEN 1 ELSE 0)
  BY <1>4, <1>5, SMT
<1> QED
  BY <1>6

\* The loop over target_disk balances: without a minimum address, and except on
\* RAID-5, no disk (pair) ever has two requests more than another.
THEOREM Balance == Spec => []BalancedFromZero
<1>1. Init => TurnsEven
  <2> SUFFICES ASSUME Init, NEW d \in DataDisks
               PROVE  Cardinality(RequestsOf(d)) = 0 + (IF Ahead(d) THEN 1 ELSE 0)
    BY DEF TurnsEven
  <2>1. RequestsOf(d) = {} /\ target_disk = 0
    BY DEF Init, RequestsOf
  <2>2. ~ Ahead(d)
    BY <2>1, DiskCounts, SMT DEF Ahead, DataDisks
  <2> QED
    BY <2>1, <2>2, FS_EmptySet
<1>2. IInv /\ TurnsEven /\ [Next]_vars => TurnsEven'
  <2> SUFFICES ASSUME IInv, TurnsEven, [Next]_vars PROVE TurnsEven'
    OBVIOUS
  <2>1. ASSUME NEW req \in Addresses, Hit(req) PROVE TurnsEven'
    BY <2>1, HitKeepsEven
  <2>2. CASE UNCHANGED vars \/ Place
    <3>1. UNCHANGED <<mapping, req_min, request_queue, target_disk>>
      BY <2>2 DEF vars, Place, inputVars
    <3>2. /\ DataDisks' = DataDisks
          /\ \A d : RequestsOf(d)' = RequestsOf(d) /\ (Ahead(d)' <=> Ahead(d))
      BY <3>1 DEF DataDisks, Ahead, RequestsOf, effective_disk_count
    <3> QED
      BY <3>1, <3>2, Zenon DEF TurnsEven
  <2> QED
    BY <2>1, <2>2 DEF Next, Miss
<1>3. IInv /\ TurnsEven => BalancedFromZero
  <2> SUFFICES ASSUME IInv, TurnsEven, req_min = 0, mapping # 5,
                      NEW a \in 0 .. BlockCount(mapping) - 1,
                      NEW b \in 0 .. BlockCount(mapping) - 1
               PROVE  Cardinality(RequestsOf(PhysDisks(mapping, a)[1]))
                        <= Cardinality(RequestsOf(PhysDisks(mapping, b)[1])) + 1
    BY DEF BalancedFromZero, Even
  <2>1. mapping \in {0, 1, 4} /\ a \in Nat /\ b \in Nat
    BY SMT DEF IInv, InputsOK
  <2>2. PhysDisks(mapping, a)[1] \in DataDisks /\ PhysDisks(mapping, b)[1] \in DataDisks
    BY <2>1, SMT DEF PhysDisks, DataDisks, effective_disk_count, disk_count
  <2> QED
    BY <2>2, SMT DEF TurnsEven
<1> QED
  BY Invariance, <1>1, <1>2, <1>3, PTL DEF Spec
=============================================================================
