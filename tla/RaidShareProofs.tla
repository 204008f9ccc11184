-------------------------- MODULE RaidShareProofs --------------------------
(***************************************************************************)
(* Proofs about lecture-15/raid-graphics.py: where the blocks of a request *)
(* go, and how the status list of one request follows its physical I/Os    *)
(* through the schedulers and the completions of every RAID level.         *)
(***************************************************************************)
EXTENDS RaidGraphics, FiniteSetTheorems, SequenceTheorems, TLAPS

Mappings == {0, 1, 4, 5}
Ops == {Read, Write}

\* The data disk of an address is one of the four disks.
LEMMA DataDiskExists ==
  ASSUME NEW m \in Mappings, NEW a \in Nat
  PROVE  PhysDisks(m, a)[1] \in DiskIds /\ PhysOffset(m, a) \in Nat
  BY SMT DEF Mappings, PhysDisks, PhysOffset, DiskIds, disk_count, Raid5Data, Raid5Parity

\* No two addresses share a block: the data disk and the row of an address
\* determine it, on every RAID level.
THEOREM PlacementInjective ==
  ASSUME NEW m \in Mappings, NEW a \in Nat, NEW b \in Nat,
         PhysDisks(m, a)[1] = PhysDisks(m, b)[1],
         PhysOffset(m, a) = PhysOffset(m, b)
  PROVE  a = b
<1>1. CASE m = 0
  BY <1>1, SMT DEF PhysDisks, PhysOffset, disk_count
<1>2. CASE m = 1
  BY <1>2, SMT DEF PhysDisks, PhysOffset, disk_count
<1>3. CASE m = 4
  BY <1>3, SMT DEF PhysDisks, PhysOffset, disk_count
<1>4. CASE m = 5
  BY <1>4, SMT DEF PhysDisks, PhysOffset, disk_count, Raid5Data, Raid5Parity
<1> QED
  BY <1>1, <1>2, <1>3, <1>4 DEF Mappings

\* The second disk of a request, its mirror or its parity disk, never holds a
\* data block of the same row: losing one disk loses at most one of them.
THEOREM SecondDiskApart ==
  ASSUME NEW m \in Mappings \ {0}, NEW a \in Nat, NEW b \in Nat,
         PhysOffset(m, a) = PhysOffset(m, b)
  PROVE  PhysDisks(m, a)[2] \in DiskIds \ {PhysDisks(m, b)[1]}
<1>1. CASE m = 1
  BY <1>1, SMT DEF PhysDisks, PhysOffset, DiskIds, disk_count
<1>2. CASE m = 4
  BY <1>2, SMT DEF PhysDisks, PhysOffset, DiskIds, disk_count
<1>3. CASE m = 5
  BY <1>3, SMT DEF PhysDisks, PhysOffset, DiskIds, disk_count, Raid5Data, Raid5Parity
<1> QED
  BY <1>1, <1>2, <1>3 DEF Mappings
-----------------------------------------------------------------------------
\* The positions in the disk list of a request.
Shares(m) == IF m = 0 THEN {1} ELSE {1, 2}

IsRequest(m, r) ==
  /\ r.op \in Ops /\ r.addr \in Nat /\ r.offset \in Nat
  /\ r.full_stripe_write \in BOOLEAN /\ r.full_stripe_write_parity \in BOOLEAN
  /\ r.full_stripe_write => m = 4
  /\ r.full_stripe_write_parity => r.full_stripe_write
  /\ DOMAIN r.disks = Shares(m)
  /\ \A k \in Shares(m) : r.disks[k] \in DiskIds
  /\ m # 0 => r.disks[1] # r.disks[2]

\* What a request takes: its one I/O; either of two; both of two; or the
\* two reads and the two writes of a parity update.
Kind(m, r) ==
  IF m = 0 \/ (m # 1 /\ r.op = Read) THEN "single"
  ELSE IF r.op = Read \/ (r.full_stripe_write /\ ~ r.full_stripe_write_parity) THEN "either"
  ELSE IF m = 1 \/ r.full_stripe_write THEN "both"
  ELSE "update"

DoOp(op) == IF op = Read THEN "DO_READ" ELSE "DO_WRITE"
Other(op) == IF op = Read THEN Write ELSE Read

\* The status list st of request r, when its shares did[op] have been read
\* (written) and its shares doing[op] are.
StatusOK(m, r, st, did, doing) ==
  LET op == r.op
      begun == did[op] \cup doing[op]
  IN /\ st \in [Shares(m) -> Statuses]
     /\ did \in [Ops -> SUBSET Shares(m)]
     /\ doing \in [Ops -> SUBSET Shares(m)]
     /\ \A x \in Ops : did[x] \cap doing[x] = {}
     /\ Kind(m, r) # "update" => did[Other(op)] = {} /\ doing[Other(op)] = {}
     /\ Kind(m, r) = "single" =>
          /\ begun \subseteq {1}
          /\ st[1] = "NOT_STARTED" <=> begun = {}
          /\ m # 0 => st[2] = "NOT_STARTED"
     /\ Kind(m, r) = "either" =>
          /\ \A k, l \in begun : k = l
          /\ \A k \in Shares(m) : st[k] = "NOT_STARTED" <=> begun = {}
          /\ \A k \in doing[op] : st[k] = DoOp(op) /\ st[3 - k] = "DONE"
     /\ Kind(m, r) = "both" =>
          \A k \in Shares(m) :
            st[k] = IF k \in did[op] THEN "DONE"
                    ELSE IF k \in doing[op] THEN "DO_WRITE" ELSE "NOT_STARTED"
     /\ Kind(m, r) = "update" =>
          /\ did[Write] \cup doing[Write] # {} => did[Read] = {1, 2}
          /\ \A k \in Shares(m) :
               st[k] = IF k \in did[Write] THEN "DONE"
                       ELSE IF k \in doing[Write] THEN "DO_WRITE"
                       ELSE IF did[Read] = {1, 2} THEN "PARITY_WRITE_PHASE_BEGIN"
                       ELSE IF k \in did[Read] THEN "PARITY_READ_PHASE_DONE"
                       ELSE IF k \in doing[Read] THEN "DO_READ" ELSE "NOT_STARTED"

\* The request is over.
Over(m, r, did) ==
  IF Kind(m, r) \in {"single", "either"} THEN did[r.op] # {}
                                         ELSE did[Write] = {1, 2}

OffersOf(m, r, st, d) ==
  IF m = 0 THEN DoStripeScheduling(r, st, d)
  ELSE IF m = 1 THEN DoMirrorScheduling(r, st, d)
  ELSE IF m = 4 THEN DoRaid4Scheduling(r, st, d)
  ELSE DoRaid5Scheduling(r, st, d)

CompletionOf(m, r, st, k) ==
  IF m = 0 THEN RequestLevel0Done(r, st, k)
  ELSE IF m = 1 THEN RequestLevel1Done(r, st, k)
  ELSE RequestLevel4Done(r, st, k)

With(f, op, k) == [f EXCEPT ![op] = @ \cup {k}]
Without(f, op, k) == [f EXCEPT ![op] = @ \ {k}]

\* A disk has at most one share in a request.
LEMMA OnePosition ==
  ASSUME NEW m \in Mappings, NEW r, IsRequest(m, r), NEW st, NEW S,
         NEW k \in Shares(m), NEW p \in Positions(r, st, r.disks[k], S)
  PROVE  p = k /\ st[k] \in S
<1>1. p \in Shares(m) /\ r.disks[p] = r.disks[k] /\ st[p] \in S
  BY DEF Positions, IsRequest
<1> QED
  BY <1>1 DEF Shares, IsRequest

\* What an offer to share k may be.
OfferOK(m, r, st, k, offer) ==
  /\ offer.op \in Ops
  /\ Kind(m, r) = "single" =>
       /\ k = 1 /\ st[1] = "NOT_STARTED" /\ offer.op = r.op
       /\ offer.status = [st EXCEPT ![1] = DoOp(r.op)]
  /\ Kind(m, r) = "either" =>
       /\ st[k] = "NOT_STARTED" /\ offer.op = r.op
       /\ offer.status = [st EXCEPT ![k] = DoOp(r.op), ![3 - k] = "DONE"]
  /\ Kind(m, r) = "both" =>
       /\ st[k] = "NOT_STARTED" /\ offer.op = Write /\ r.op = Write
       /\ offer.status = [st EXCEPT ![k] = "DO_WRITE"]
  /\ Kind(m, r) = "update" =>
       \/ /\ st[k] = "NOT_STARTED" /\ offer.op = Read
          /\ offer.status = [st EXCEPT ![k] = "DO_READ"]
       \/ /\ st[k] = "PARITY_WRITE_PHASE_BEGIN" /\ offer.op = Write
          /\ offer.status = [st EXCEPT ![k] = "DO_WRITE"]

LEMMA OfferCases ==
  ASSUME NEW m \in Mappings, NEW r, IsRequest(m, r), NEW st \in [Shares(m) -> Statuses],
         NEW k \in Shares(m), NEW offer \in OffersOf(m, r, st, r.disks[k])
  PROVE  OfferOK(m, r, st, k, offer)
<1> USE DEF OfferOK
<1> DEFINE d == r.disks[k]
           P(S) == Positions(r, st, d, S)
<1>p. ASSUME NEW S, NEW p \in P(S)
      PROVE  p = k /\ st[k] \in S
  BY <1>p, OnePosition
<1>r. /\ r.op \in {Read, Write} /\ Read # Write
      /\ r.full_stripe_write => m = 4
      /\ r.full_stripe_write_parity => r.full_stripe_write
  BY DEF IsRequest, Ops, Read, Write
<1> HIDE DEF P, d
<1>1. CASE m = 0
  <2>1. PICK p \in P({"NOT_STARTED"}) :
          offer = [op |-> r.op, status |-> <<IF r.op = Read THEN "DO_READ" ELSE "DO_WRITE">>]
    BY <1>1 DEF OffersOf, DoStripeScheduling, P, d
  <2>2. k = 1 /\ st[1] = "NOT_STARTED" /\ Kind(m, r) = "single"
    BY <1>1, <1>p, <2>1 DEF Shares, Kind
  <2>3. <<IF r.op = Read THEN "DO_READ" ELSE "DO_WRITE">> = [st EXCEPT ![1] = DoOp(r.op)]
    BY <1>1 DEF Shares, DoOp
  <2> QED
    BY <1>r, <2>1, <2>2, <2>3 DEF Ops
<1>2. CASE m = 1
  <2>1. PICK p \in P({"NOT_STARTED"}) :
          offer = [op |-> r.op,
                   status |-> IF r.op = Read
                                THEN [st EXCEPT ![p] = "DO_READ", ![3 - p] = "DONE"]
                                ELSE [st EXCEPT ![p] = "DO_WRITE"]]
    BY <1>2 DEF OffersOf, DoMirrorScheduling, P, d
  <2>2. p = k /\ st[k] = "NOT_STARTED"
    BY <1>p, <2>1
  <2>3. Kind(m, r) = IF r.op = Read THEN "either" ELSE "both"
    BY <1>2, <1>r DEF Kind
  <2> QED
    BY <1>r, <2>1, <2>2, <2>3 DEF DoOp, Ops
<1>3. CASE m \in {4, 5} /\ r.op = Read
  <2>1. offer \in ParityRead(r, st, d)
    BY <1>3 DEF OffersOf, DoRaid4Scheduling, DoRaid5Scheduling, d
  <2>2. PICK p \in P({"NOT_STARTED"}) \ {2} :
          offer = [op |-> Read, status |-> [st EXCEPT ![p] = "DO_READ"]]
    BY <2>1 DEF ParityRead, P
  <2>3. p = k /\ st[k] = "NOT_STARTED" /\ k # 2
    BY <1>p, <2>2
  <2>4. k = 1 /\ Kind(m, r) = "single"
    BY <1>3, <2>3 DEF Shares, Kind
  <2> QED
    BY <1>3, <1>r, <2>2, <2>3, <2>4 DEF DoOp, Ops
<1>4. CASE m = 4 /\ r.op = Write /\ r.full_stripe_write
  <2>1. offer \in FullStripeWrite(r, st, d)
    BY <1>4, <1>r DEF OffersOf, DoRaid4Scheduling, d
  <2>2. PICK p \in P({"NOT_STARTED"}) :
          offer = [op |-> Write,
                   status |-> IF r.full_stripe_write_parity
                                THEN [st EXCEPT ![p] = "DO_WRITE"]
                                ELSE [st EXCEPT ![p] = "DO_WRITE", ![3 - p] = "DONE"]]
    BY <2>1 DEF FullStripeWrite, P
  <2>3. p = k /\ st[k] = "NOT_STARTED"
    BY <1>p, <2>2
  <2>4. Kind(m, r) = IF r.full_stripe_write_parity THEN "both" ELSE "either"
    BY <1>4, <1>r DEF Kind
  <2> QED
    BY <1>4, <1>r, <2>2, <2>3, <2>4 DEF DoOp, Ops
<1>5. CASE m \in {4, 5} /\ r.op = Write /\ ~ r.full_stripe_write
  <2>1. offer \in SmallWrite(r, st, d)
    BY <1>5, <1>r DEF OffersOf, DoRaid4Scheduling, DoRaid5Scheduling, d
  <2>2. \/ \E p \in P({"NOT_STARTED"}) :
              offer = [op |-> Read, status |-> [st EXCEPT ![p] = "DO_READ"]]
        \/ \E p \in P({"PARITY_WRITE_PHASE_BEGIN"}) :
              offer = [op |-> Write, status |-> [st EXCEPT ![p] = "DO_WRITE"]]
    BY <2>1 DEF SmallWrite, P
  <2>3. \/ /\ st[k] = "NOT_STARTED"
           /\ offer = [op |-> Read, status |-> [st EXCEPT ![k] = "DO_READ"]]
        \/ /\ st[k] = "PARITY_WRITE_PHASE_BEGIN"
           /\ offer = [op |-> Write, status |-> [st EXCEPT ![k] = "DO_WRITE"]]
    BY <2>2, <1>p
  <2>4. Kind(m, r) = "update"
    BY <1>5, <1>r DEF Kind
  <2>5. offer.op \in Ops
    BY <2>3 DEF Ops
  <2> HIDE DEF d
  <2>6. Kind(m, r) \notin {"single", "either", "both"}
    BY <2>4
  <2>7. \/ /\ st[k] = "NOT_STARTED" /\ offer.op = Read
           /\ offer.status = [st EXCEPT ![k] = "DO_READ"]
        \/ /\ st[k] = "PARITY_WRITE_PHASE_BEGIN" /\ offer.op = Write
           /\ offer.status = [st EXCEPT ![k] = "DO_WRITE"]
    <3>1. CASE /\ st[k] = "NOT_STARTED"
               /\ offer = [op |-> Read, status |-> [st EXCEPT ![k] = "DO_READ"]]
      BY <3>1
    <3>2. CASE /\ st[k] = "PARITY_WRITE_PHASE_BEGIN"
               /\ offer = [op |-> Write, status |-> [st EXCEPT ![k] = "DO_WRITE"]]
      BY <3>2
    <3> QED
      BY <2>3, <3>1, <3>2
  <2> QED
    BY <2>5, <2>6, <2>7
<1> QED
  BY <1>1, <1>2, <1>3, <1>4, <1>5, <1>r DEF Mappings
\* Starting what is offered keeps the status list in step with the I/Os.
LEMMA StartShare ==
  ASSUME NEW m \in Mappings, NEW r, IsRequest(m, r), NEW st, NEW did, NEW doing,
         StatusOK(m, r, st, did, doing), NEW k \in Shares(m),
         NEW offer \in OffersOf(m, r, st, r.disks[k])
  PROVE  /\ offer.op \in Ops /\ k \notin did[offer.op] \cup doing[offer.op]
         /\ StatusOK(m, r, offer.status, did, With(doing, offer.op, k))
         /\ Kind(m, r) # "update" => offer.op = r.op
         /\ Kind(m, r) = "either" => did[r.op] \cup doing[r.op] = {}
         /\ Kind(m, r) = "update" /\ offer.op = Write => did[Read] = {1, 2}
         /\ ~ Over(m, r, did)
<1>1. /\ st \in [Shares(m) -> Statuses]
      /\ did \in [Ops -> SUBSET Shares(m)]
      /\ doing \in [Ops -> SUBSET Shares(m)]
      /\ \A x \in Ops : did[x] \cap doing[x] = {}
      /\ Kind(m, r) # "update" => did[Other(r.op)] = {} /\ doing[Other(r.op)] = {}
  BY DEF StatusOK
<1>2. r.op \in Ops /\ Read # Write /\ Read \in Ops /\ Write \in Ops
  BY DEF IsRequest, Ops, Read, Write
<1>3. Kind(m, r) \in {"single", "either", "both", "update"}
  BY DEF Kind
<1>4. "DONE" \in Statuses /\ "DO_READ" \in Statuses /\ "DO_WRITE" \in Statuses
  BY DEF Statuses
<1>0. OfferOK(m, r, st, k, offer)
  BY <1>1, OfferCases
<1> DEFINE new == With(doing, offer.op, k)
<1>5. ASSUME offer.op \in Ops
      PROVE  /\ new \in [Ops -> SUBSET Shares(m)]
             /\ new[offer.op] = doing[offer.op] \cup {k}
             /\ new[Other(offer.op)] = doing[Other(offer.op)]
  BY <1>1, <1>2, <1>5 DEF With, Other, Ops
<1>6. CASE Kind(m, r) = "single"
  <2>1. /\ k = 1 /\ st[1] = "NOT_STARTED" /\ offer.op = r.op
        /\ offer.status = [st EXCEPT ![1] = DoOp(r.op)]
    BY <1>0, <1>6, Zenon DEF OfferOK
  <2>2. did[r.op] \cup doing[r.op] = {} /\ (m # 0 => st[2] = "NOT_STARTED")
    BY <1>6, <2>1 DEF StatusOK
  <2>3. offer.status \in [Shares(m) -> Statuses] /\ offer.status[1] = DoOp(r.op)
        /\ (m # 0 => offer.status[2] = "NOT_STARTED")
    BY <1>1, <1>4, <2>1, <2>2 DEF DoOp, Shares
  <2>4. StatusOK(m, r, offer.status, did, new)
    <3> HIDE DEF new
    <3>1. new[r.op] = {1} /\ new[Other(r.op)] = doing[Other(r.op)]
          /\ new \in [Ops -> SUBSET Shares(m)]
      BY <1>2, <1>5, <2>1, <2>2
    <3>2. DoOp(r.op) # "NOT_STARTED"
      BY DEF DoOp
    <3>3. \A x \in Ops : x = r.op \/ x = Other(r.op)
      BY <1>2 DEF Ops, Other
    <3>4. \A x \in Ops : did[x] \cap new[x] = {}
      BY <1>1, <1>6, <2>2, <3>1, <3>3
    <3> QED
      BY <1>1, <1>6, <2>2, <2>3, <3>1, <3>2, <3>4 DEF StatusOK
  <2> QED
    BY <1>2, <1>6, <2>1, <2>2, <2>4 DEF Over
<1>7. CASE Kind(m, r) = "either"
  <2>1. /\ st[k] = "NOT_STARTED" /\ offer.op = r.op
        /\ offer.status = [st EXCEPT ![k] = DoOp(r.op), ![3 - k] = "DONE"]
    BY <1>0, <1>7, Zenon DEF OfferOK
  <2>2. did[r.op] \cup doing[r.op] = {} /\ m # 0
    BY <1>7, <2>1 DEF StatusOK, Kind
  <2>3. /\ offer.status \in [Shares(m) -> Statuses] /\ offer.status[k] = DoOp(r.op)
        /\ offer.status[3 - k] = "DONE"
        /\ \A x \in Shares(m) : offer.status[x] # "NOT_STARTED"
    BY <1>1, <1>4, <2>1, <2>2 DEF DoOp, Shares
  <2>4. StatusOK(m, r, offer.status, did, new)
    <3> HIDE DEF new
    <3>1. new[r.op] = {k} /\ new[Other(r.op)] = doing[Other(r.op)]
          /\ new \in [Ops -> SUBSET Shares(m)]
      BY <1>2, <1>5, <2>1, <2>2
    <3>3. \A x \in Ops : x = r.op \/ x = Other(r.op)
      BY <1>2 DEF Ops, Other
    <3>4. \A x \in Ops : did[x] \cap new[x] = {}
      BY <1>1, <1>7, <2>2, <3>1, <3>3
    <3> QED
      BY <1>1, <1>7, <2>2, <2>3, <3>1, <3>4 DEF StatusOK
  <2> QED
    BY <1>2, <1>7, <2>1, <2>2, <2>4 DEF Over
<1>8. CASE Kind(m, r) = "both"
  <2>1. /\ st[k] = "NOT_STARTED" /\ offer.op = Write /\ r.op = Write
        /\ offer.status = [st EXCEPT ![k] = "DO_WRITE"]
    BY <1>0, <1>8, Zenon DEF OfferOK
  <2>2. k \notin did[Write] /\ k \notin doing[Write]
    BY <1>8, <2>1 DEF StatusOK
  <2>3. /\ offer.status \in [Shares(m) -> Statuses] /\ offer.status[k] = "DO_WRITE"
        /\ \A x \in Shares(m) \ {k} : offer.status[x] = st[x]
    BY <1>1, <1>4, <2>1
  <2>4. StatusOK(m, r, offer.status, did, new)
    <3> HIDE DEF new
    <3>1. new[Write] = doing[Write] \cup {k} /\ new[Read] = doing[Read]
          /\ new \in [Ops -> SUBSET Shares(m)] /\ Other(Write) = Read
      BY <1>2, <1>5, <2>1 DEF Other
    <3>4. \A x \in Ops : did[x] \cap new[x] = {}
      BY <1>1, <1>8, <2>1, <2>2, <3>1 DEF Ops
    <3>5. \A x \in Shares(m) :
             offer.status[x] = IF x \in did[Write] THEN "DONE"
                    ELSE IF x \in new[Write] THEN "DO_WRITE" ELSE "NOT_STARTED"
      BY <1>8, <2>1, <2>2, <2>3, <3>1 DEF StatusOK
    <3> QED
      BY <1>1, <1>8, <2>1, <2>3, <3>1, <3>4, <3>5 DEF StatusOK
  <2> QED
    BY <1>2, <1>8, <2>1, <2>2, <2>4 DEF Over, Shares
<1>9. CASE Kind(m, r) = "update"
  <2>1. \/ /\ st[k] = "NOT_STARTED" /\ offer.op = Read
           /\ offer.status = [st EXCEPT ![k] = "DO_READ"]
        \/ /\ st[k] = "PARITY_WRITE_PHASE_BEGIN" /\ offer.op = Write
           /\ offer.status = [st EXCEPT ![k] = "DO_WRITE"]
    BY <1>0, <1>9, Zenon DEF OfferOK
  <2>2. /\ did[Write] \cup doing[Write] # {} => did[Read] = {1, 2}
        /\ \A x \in Shares(m) :
             st[x] = IF x \in did[Write] THEN "DONE"
                     ELSE IF x \in doing[Write] THEN "DO_WRITE"
                     ELSE IF did[Read] = {1, 2} THEN "PARITY_WRITE_PHASE_BEGIN"
                     ELSE IF x \in did[Read] THEN "PARITY_READ_PHASE_DONE"
                     ELSE IF x \in doing[Read] THEN "DO_READ" ELSE "NOT_STARTED"
    BY <1>9 DEF StatusOK
  <2>5. Shares(m) = {1, 2}
    BY <1>9 DEF Shares, Kind
  <2>3. CASE st[k] = "NOT_STARTED" /\ offer.op = Read
             /\ offer.status = [st EXCEPT ![k] = "DO_READ"]
    <3>1. k \notin did[Write] /\ k \notin doing[Write] /\ did[Read] # {1, 2}
          /\ k \notin did[Read] /\ k \notin doing[Read]
      BY <2>2, <2>3
    <3>2. did[Write] = {} /\ doing[Write] = {}
      BY <2>2, <3>1
    <3> HIDE DEF new
    <3>3. new[Read] = doing[Read] \cup {k} /\ new[Write] = doing[Write]
          /\ new \in [Ops -> SUBSET Shares(m)]
      BY <1>2, <1>5, <2>3 DEF Other
    <3>4. \A x \in Ops : did[x] \cap new[x] = {}
      BY <1>1, <3>1, <3>3 DEF Ops
    <3>5. /\ offer.status \in [Shares(m) -> Statuses] /\ offer.status[k] = "DO_READ"
          /\ \A x \in Shares(m) \ {k} : offer.status[x] = st[x]
      BY <1>1, <1>4, <2>3
    <3>6. \A x \in Shares(m) :
             offer.status[x] = IF x \in did[Write] THEN "DONE"
                     ELSE IF x \in new[Write] THEN "DO_WRITE"
                     ELSE IF did[Read] = {1, 2} THEN "PARITY_WRITE_PHASE_BEGIN"
                     ELSE IF x \in did[Read] THEN "PARITY_READ_PHASE_DONE"
                     ELSE IF x \in new[Read] THEN "DO_READ" ELSE "NOT_STARTED"
      BY <2>2, <3>1, <3>2, <3>3, <3>5
    <3>7. StatusOK(m, r, offer.status, did, new)
      BY <1>1, <1>9, <3>2, <3>3, <3>4, <3>5, <3>6 DEF StatusOK
    <3> QED
      BY <1>2, <1>9, <2>3, <3>1, <3>2, <3>7 DEF Over, new
  <2>4. CASE st[k] = "PARITY_WRITE_PHASE_BEGIN" /\ offer.op = Write
             /\ offer.status = [st EXCEPT ![k] = "DO_WRITE"]
    <3>1. k \notin did[Write] /\ k \notin doing[Write] /\ did[Read] = {1, 2}
      BY <2>2, <2>4
    <3> HIDE DEF new
    <3>3. new[Write] = doing[Write] \cup {k} /\ new[Read] = doing[Read]
          /\ new \in [Ops -> SUBSET Shares(m)]
      BY <1>2, <1>5, <2>4 DEF Other
    <3>4. \A x \in Ops : did[x] \cap new[x] = {}
      BY <1>1, <3>1, <3>3 DEF Ops
    <3>5. /\ offer.status \in [Shares(m) -> Statuses] /\ offer.status[k] = "DO_WRITE"
          /\ \A x \in Shares(m) \ {k} : offer.status[x] = st[x]
      BY <1>1, <1>4, <2>4
    <3>6. \A x \in Shares(m) :
             offer.status[x] = IF x \in did[Write] THEN "DONE"
                     ELSE IF x \in new[Write] THEN "DO_WRITE"
                     ELSE IF did[Read] = {1, 2} THEN "PARITY_WRITE_PHASE_BEGIN"
                     ELSE IF x \in did[Read] THEN "PARITY_READ_PHASE_DONE"
                     ELSE IF x \in new[Read] THEN "DO_READ" ELSE "NOT_STARTED"
      BY <2>2, <3>1, <3>3, <3>5
    <3>7. StatusOK(m, r, offer.status, did, new)
      BY <1>1, <1>9, <3>1, <3>3, <3>4, <3>5, <3>6 DEF StatusOK
    <3>8. did[Write] # {1, 2}
      BY <3>1, <2>5
    <3> QED
      BY <1>2, <1>9, <2>4, <3>1, <3>7, <3>8 DEF Over, new
  <2> QED
    BY <2>1, <2>3, <2>4
<1> QED
  BY <1>3, <1>6, <1>7, <1>8, <1>9
-----------------------------------------------------------------------------
Put(st, k, s) == [st EXCEPT ![k] = s]
PhaseWrite == [j \in 1 .. 2 |-> "PARITY_WRITE_PHASE_BEGIN"]
Adv(st, k) == [st EXCEPT ![k] = Advanced(st[k])]
PhaseRead(st) == \A j \in 1 .. 2 : st[j] = "PARITY_READ_PHASE_DONE"
AllDone(st) == \A j \in 1 .. 2 : st[j] = "DONE"

\* RequestLevel4Done, for a write.
LEMMA Level4Cases ==
  ASSUME NEW r, r.op = Write, NEW st, NEW k
  PROVE  /\ PhaseRead(Adv(st, k)) =>
              /\ RequestLevel4Done(r, st, k).status = PhaseWrite
              /\ ~ RequestLevel4Done(r, st, k).done
         /\ ~ PhaseRead(Adv(st, k)) =>
              /\ RequestLevel4Done(r, st, k).status = Adv(st, k)
              /\ RequestLevel4Done(r, st, k).done <=> AllDone(Adv(st, k))
<1> DEFINE end == RequestLevel4Done(r, st, k)
<1>1. r.op # Read
  BY DEF Read, Write
<1>2. end = IF PhaseRead(Adv(st, k))
              THEN [status |-> PhaseWrite, done |-> FALSE]
              ELSE [status |-> Adv(st, k), done |-> AllDone(Adv(st, k))]
  BY <1>1, Zenon DEF RequestLevel4Done, Adv, PhaseRead, AllDone, PhaseWrite
<1> HIDE DEF end
<1>3. CASE PhaseRead(Adv(st, k))
  BY <1>2, <1>3 DEF end
<1>4. CASE ~ PhaseRead(Adv(st, k))
  <2>1. end = [status |-> Adv(st, k), done |-> AllDone(Adv(st, k))]
    BY <1>2, <1>4, Zenon
  <2>2. end.status = Adv(st, k) /\ (end.done <=> AllDone(Adv(st, k)))
    BY <2>1
  <2> QED
    BY <1>4, <2>2 DEF end
<1> QED
  BY <1>3, <1>4

\* A share's next status, on its own.
LEMMA AdvCases ==
  ASSUME NEW st \in [{1, 2} -> Statuses], NEW k \in {1, 2}
  PROVE  /\ 1 .. 2 = {k, 3 - k} /\ 3 - k # k /\ 3 - k \in {1, 2}
         /\ st[k] = "DO_READ" => Adv(st, k) = Put(st, k, "PARITY_READ_PHASE_DONE")
         /\ st[k] = "DO_WRITE" => Adv(st, k) = Put(st, k, "DONE")
<1>1. 1 .. 2 = {k, 3 - k} /\ 3 - k # k /\ 3 - k \in {1, 2}
  OBVIOUS
<1>2. /\ Advanced("DO_READ") = "PARITY_READ_PHASE_DONE"
      /\ Advanced("DO_WRITE") = "DONE"
  BY Zenon DEF Advanced
<1> QED
  BY <1>1, <1>2, Zenon DEF Adv, Put

LEMMA Level4Write ==
  ASSUME NEW r, r.op = Write, NEW st \in [{1, 2} -> Statuses], NEW k \in {1, 2},
         st[k] = "DO_WRITE"
  PROVE  /\ RequestLevel4Done(r, st, k).status = Put(st, k, "DONE")
         /\ RequestLevel4Done(r, st, k).done <=> st[3 - k] = "DONE"
<1>1. 1 .. 2 = {k, 3 - k} /\ 3 - k # k /\ 3 - k \in {1, 2}
      /\ Adv(st, k) = Put(st, k, "DONE")
  BY AdvCases
<1>2. Adv(st, k)[k] = "DONE" /\ Adv(st, k)[3 - k] = st[3 - k]
  BY <1>1 DEF Put
<1>3. ~ PhaseRead(Adv(st, k)) /\ (AllDone(Adv(st, k)) <=> st[3 - k] = "DONE")
  BY <1>1, <1>2 DEF PhaseRead, AllDone
<1> QED
  BY <1>1, <1>3, Level4Cases, Zenon

LEMMA Level4Read ==
  ASSUME NEW r, r.op = Write, NEW st \in [{1, 2} -> Statuses], NEW k \in {1, 2},
         st[k] = "DO_READ"
  PROVE  /\ ~ RequestLevel4Done(r, st, k).done
         /\ RequestLevel4Done(r, st, k).status =
              IF st[3 - k] = "PARITY_READ_PHASE_DONE"
                THEN PhaseWrite
                ELSE Put(st, k, "PARITY_READ_PHASE_DONE")
<1>1. 1 .. 2 = {k, 3 - k} /\ 3 - k # k /\ 3 - k \in {1, 2}
      /\ Adv(st, k) = Put(st, k, "PARITY_READ_PHASE_DONE")
  BY AdvCases
<1>2. Adv(st, k)[k] = "PARITY_READ_PHASE_DONE" /\ Adv(st, k)[3 - k] = st[3 - k]
  BY <1>1 DEF Put
<1>3. /\ PhaseRead(Adv(st, k)) <=> st[3 - k] = "PARITY_READ_PHASE_DONE"
      /\ ~ AllDone(Adv(st, k))
  BY <1>1, <1>2 DEF PhaseRead, AllDone
<1>5. CASE st[3 - k] = "PARITY_READ_PHASE_DONE"
  BY <1>3, <1>5, Level4Cases, Zenon
<1>6. CASE st[3 - k] # "PARITY_READ_PHASE_DONE"
  BY <1>1, <1>3, <1>6, Level4Cases
<1> QED
  BY <1>5, <1>6, Zenon

LEMMA CompletionCases ==
  ASSUME NEW m \in Mappings, NEW r, NEW st, NEW k
  PROVE  /\ m = 0 => CompletionOf(m, r, st, k) = RequestLevel0Done(r, st, k)
         /\ m = 1 => CompletionOf(m, r, st, k) = RequestLevel1Done(r, st, k)
         /\ m \in {4, 5} => CompletionOf(m, r, st, k) = RequestLevel4Done(r, st, k)
  BY DEF CompletionOf, Mappings

LEMMA Level1Cases ==
  ASSUME NEW r, NEW st, NEW k
  PROVE  /\ RequestLevel1Done(r, st, k).status = Put(st, k, "DONE")
         /\ RequestLevel1Done(r, st, k).done <=> st[k] = "DO_READ" \/ st[3 - k] = "DONE"
<1> DEFINE end == RequestLevel1Done(r, st, k)
           new == Put(st, k, "DONE")
           last == st[k] = "DO_READ" \/ st[3 - k] = "DONE"
<1>1. end = [status |-> new, done |-> last]
  BY Zenon DEF RequestLevel1Done, Put
<1> HIDE DEF end, new, last
<1>2. end.status = new /\ (end.done <=> last)
  BY <1>1
<1> QED
  BY <1>2 DEF end, new, last

\* Finishing an I/O keeps the status list in step with the I/Os, and the
\* request is counted as done with its last I/O.
LEMMA FinishShare ==
  ASSUME NEW m \in Mappings, NEW r, IsRequest(m, r), NEW st, NEW did, NEW doing,
         StatusOK(m, r, st, did, doing), NEW op \in Ops, NEW k \in doing[op]
  PROVE  LET end == CompletionOf(m, r, st, k)
         IN /\ k \in Shares(m) /\ k \notin did[op]
            /\ StatusOK(m, r, end.status, With(did, op, k), Without(doing, op, k))
            /\ end.done <=> Over(m, r, With(did, op, k))
            /\ ~ Over(m, r, did)
<1> DEFINE end == CompletionOf(m, r, st, k)
           ndid == With(did, op, k)
           ndoing == Without(doing, op, k)
<1>1. /\ st \in [Shares(m) -> Statuses]
      /\ did \in [Ops -> SUBSET Shares(m)]
      /\ doing \in [Ops -> SUBSET Shares(m)]
      /\ \A x \in Ops : did[x] \cap doing[x] = {}
      /\ Kind(m, r) # "update" => did[Other(r.op)] = {} /\ doing[Other(r.op)] = {}
  BY DEF StatusOK
<1>2. r.op \in Ops /\ Read # Write /\ Read \in Ops /\ Write \in Ops
  BY DEF IsRequest, Ops, Read, Write
<1>3. Kind(m, r) \in {"single", "either", "both", "update"}
  BY DEF Kind
<1>4. /\ "DONE" \in Statuses /\ "DO_READ" \in Statuses /\ "DO_WRITE" \in Statuses
      /\ "PARITY_WRITE_PHASE_BEGIN" \in Statuses /\ "PARITY_READ_PHASE_DONE" \in Statuses
  BY DEF Statuses
<1>5. /\ ndid \in [Ops -> SUBSET Shares(m)] /\ ndoing \in [Ops -> SUBSET Shares(m)]
      /\ ndid[op] = did[op] \cup {k} /\ ndid[Other(op)] = did[Other(op)]
      /\ ndoing[op] = doing[op] \ {k} /\ ndoing[Other(op)] = doing[Other(op)]
      /\ Other(op) \in Ops /\ Other(op) # op /\ Other(Other(op)) = op
      /\ \A x \in Ops : x = op \/ x = Other(op)
  BY <1>1, <1>2 DEF With, Without, Other, Ops
<1>6. k \in Shares(m) /\ k \notin did[op]
  BY <1>1
<1> HIDE DEF ndid, ndoing
<1>7. \A x \in Ops : ndid[x] \cap ndoing[x] = {}
  BY <1>1, <1>5
<1>8. Kind(m, r) # "update" => op = r.op
  BY <1>1, <1>2, <1>5
<1>9. CASE Kind(m, r) = "single"
  <2>1. /\ end.status = IF m = 0 THEN Put(st, k, "DONE") ELSE st
        /\ end.done
    <3>1. CASE m = 0
      BY <3>1 DEF CompletionOf, RequestLevel0Done, Put
    <3>2. CASE m # 0
      BY <1>9, <3>2 DEF CompletionOf, RequestLevel4Done, Kind
    <3> QED
      BY <3>1, <3>2
  <2>2. /\ did[op] \cup doing[op] \subseteq {1} /\ (m # 0 => st[2] = "NOT_STARTED")
        /\ st[1] = "NOT_STARTED" <=> did[op] \cup doing[op] = {}
    BY <1>8, <1>9 DEF StatusOK
  <2>3. k = 1 /\ did[op] = {} /\ ndid[op] = {1} /\ st[1] # "NOT_STARTED"
    BY <1>1, <1>5, <2>2
  <2>4. end.status \in [Shares(m) -> Statuses] /\ end.status[1] # "NOT_STARTED"
        /\ (m # 0 => end.status[2] = "NOT_STARTED")
    BY <1>1, <1>4, <1>6, <2>1, <2>2, <2>3 DEF Put
  <2> HIDE DEF end
  <2>5. ndid[op] \cup ndoing[op] = {1}
    BY <1>5, <2>2, <2>3
  <2>6. StatusOK(m, r, end.status, ndid, ndoing)
    BY <1>1, <1>5, <1>7, <1>8, <1>9, <2>4, <2>5 DEF StatusOK
  <2>7. ~ Over(m, r, did) /\ Over(m, r, ndid)
    BY <1>8, <1>9, <2>3 DEF Over
  <2> QED
    BY <1>6, <2>1, <2>6, <2>7 DEF end, ndid, ndoing
<1>10. CASE Kind(m, r) = "either"
  <2>0. /\ \A x, l \in did[op] \cup doing[op] : x = l
        /\ st[k] = DoOp(op) /\ st[3 - k] = "DONE"
        /\ \A x \in Shares(m) : st[x] # "NOT_STARTED"
    BY <1>8, <1>10, <1>6 DEF StatusOK
  <2>00. Shares(m) = {1, 2} /\ m \in {1, 4} /\ (m = 4 => r.op = Write)
    BY <1>10, <1>2 DEF Kind, Shares, IsRequest, Ops, Mappings
  <2>1. end.status = Put(st, k, "DONE") /\ end.done
    <3>1. CASE m = 1
      <4>1. /\ RequestLevel1Done(r, st, k).status = Put(st, k, "DONE")
            /\ RequestLevel1Done(r, st, k).done <=> st[k] = "DO_READ" \/ st[3 - k] = "DONE"
        BY Level1Cases, Zenon
      <4>2. end = RequestLevel1Done(r, st, k)
        BY <3>1, CompletionCases
      <4> QED
        BY <2>0, <4>1, <4>2, Zenon
    <3>2. CASE m = 4
      <4>1. end = RequestLevel4Done(r, st, k)
        BY <3>2, CompletionCases
      <4>2. st[k] = "DO_WRITE"
        BY <3>2, <2>0, <2>00, <1>2, <1>8, <1>10 DEF DoOp
      <4>3. k \in {1, 2} /\ st \in [{1, 2} -> Statuses] /\ r.op = Write
        BY <3>2, <1>1, <1>6, <2>00
      <4>4. /\ RequestLevel4Done(r, st, k).status = Put(st, k, "DONE")
            /\ RequestLevel4Done(r, st, k).done <=> st[3 - k] = "DONE"
        BY <4>2, <4>3, Level4Write
      <4> QED
        BY <2>0, <4>1, <4>4, Zenon
    <3> QED
      BY <2>00, <3>1, <3>2
  <2> HIDE DEF end
  <2>2. did[op] = {} /\ ndid[op] = {k} /\ ndoing[op] = {}
    BY <1>1, <1>5, <2>0
  <2>3. /\ end.status \in [Shares(m) -> Statuses]
        /\ \A x \in Shares(m) : end.status[x] # "NOT_STARTED"
    BY <1>1, <1>4, <2>0, <2>1 DEF Put
  <2>4. StatusOK(m, r, end.status, ndid, ndoing)
    BY <1>1, <1>5, <1>7, <1>8, <1>10, <2>2, <2>3 DEF StatusOK
  <2>5. ~ Over(m, r, did) /\ Over(m, r, ndid)
    BY <1>8, <1>10, <2>2 DEF Over
  <2> QED
    BY <1>6, <2>1, <2>4, <2>5 DEF end, ndid, ndoing
<1>11. CASE Kind(m, r) = "both"
  <2>0. \A x \in Shares(m) :
            st[x] = IF x \in did[op] THEN "DONE"
                    ELSE IF x \in doing[op] THEN "DO_WRITE" ELSE "NOT_STARTED"
    BY <1>8, <1>11 DEF StatusOK
  <2>00. Shares(m) = {1, 2} /\ m \in {1, 4} /\ r.op = Write /\ op = Write
    BY <1>11, <1>2, <1>8 DEF Kind, Shares, IsRequest, Ops, Mappings
  <2>01. st[k] = "DO_WRITE" /\ (st[3 - k] = "DONE" <=> 3 - k \in did[op])
    BY <1>6, <2>0, <2>00
  <2>1. end.status = Put(st, k, "DONE") /\ (end.done <=> st[3 - k] = "DONE")
    <3>1. CASE m = 1
      <4>1. /\ RequestLevel1Done(r, st, k).status = Put(st, k, "DONE")
            /\ RequestLevel1Done(r, st, k).done <=> st[k] = "DO_READ" \/ st[3 - k] = "DONE"
        BY Level1Cases, Zenon
      <4>2. end = RequestLevel1Done(r, st, k) /\ st[k] # "DO_READ"
        BY <3>1, <2>01, CompletionCases
      <4> QED
        BY <4>1, <4>2, Zenon
    <3>2. CASE m = 4
      <4>1. end = RequestLevel4Done(r, st, k)
        BY <3>2, CompletionCases
      <4>3. k \in {1, 2} /\ st \in [{1, 2} -> Statuses] /\ r.op = Write
        BY <3>2, <1>1, <1>6, <2>00
      <4>4. /\ RequestLevel4Done(r, st, k).status = Put(st, k, "DONE")
            /\ RequestLevel4Done(r, st, k).done <=> st[3 - k] = "DONE"
        BY <2>01, <4>3, Level4Write
      <4> QED
        BY <4>1, <4>4, Zenon
    <3> QED
      BY <2>00, <3>1, <3>2
  <2> HIDE DEF end
  <2>2. /\ end.status \in [Shares(m) -> Statuses] /\ end.status[k] = "DONE"
        /\ \A x \in Shares(m) \ {k} : end.status[x] = st[x]
    BY <1>1, <1>4, <1>6, <2>1 DEF Put
  <2>3. \A x \in Shares(m) :
            end.status[x] = IF x \in ndid[op] THEN "DONE"
                    ELSE IF x \in ndoing[op] THEN "DO_WRITE" ELSE "NOT_STARTED"
    BY <1>5, <2>0, <2>2
  <2>4. StatusOK(m, r, end.status, ndid, ndoing)
    BY <1>1, <1>5, <1>7, <1>8, <1>11, <2>2, <2>3 DEF StatusOK
  <2>5. ~ Over(m, r, did) /\ (Over(m, r, ndid) <=> 3 - k \in did[op])
    <3>1. did[op] \subseteq {1, 2} /\ k \in {1, 2}
      BY <1>1, <1>6, <2>00
    <3>2. did[op] # {1, 2} /\ (did[op] \cup {k} = {1, 2} <=> 3 - k \in did[op])
      BY <1>6, <3>1
    <3> QED
      BY <1>5, <1>11, <2>00, <3>2 DEF Over
  <2> QED
    BY <1>6, <2>1, <2>01, <2>4, <2>5 DEF end, ndid, ndoing
<1>12. CASE Kind(m, r) = "update"
  <2>0. /\ did[Write] \cup doing[Write] # {} => did[Read] = {1, 2}
        /\ \A x \in Shares(m) :
             st[x] = IF x \in did[Write] THEN "DONE"
                     ELSE IF x \in doing[Write] THEN "DO_WRITE"
                     ELSE IF did[Read] = {1, 2} THEN "PARITY_WRITE_PHASE_BEGIN"
                     ELSE IF x \in did[Read] THEN "PARITY_READ_PHASE_DONE"
                     ELSE IF x \in doing[Read] THEN "DO_READ" ELSE "NOT_STARTED"
    BY <1>12 DEF StatusOK
  <2>00. Shares(m) = {1, 2} /\ m \in {4, 5} /\ r.op = Write
    BY <1>12, <1>2 DEF Kind, Shares, IsRequest, Ops, Mappings
  <2>01. end = RequestLevel4Done(r, st, k)
    BY <2>00 DEF CompletionOf
  <2>02. k \in {1, 2} /\ 3 - k \in {1, 2} /\ 3 - k # k /\ st \in [{1, 2} -> Statuses]
    BY <1>1, <1>6, <2>00
  <2> HIDE DEF end
  <2>1. CASE op = Write
    <3>1. st[k] = "DO_WRITE" /\ (st[3 - k] = "DONE" <=> 3 - k \in did[Write])
      BY <1>6, <2>0, <2>00, <2>02, <2>1
    <3>9. /\ RequestLevel4Done(r, st, k).status = Put(st, k, "DONE")
          /\ RequestLevel4Done(r, st, k).done <=> st[3 - k] = "DONE"
      BY <2>00, <2>02, <3>1, Level4Write
    <3>2. end.status = Put(st, k, "DONE") /\ (end.done <=> st[3 - k] = "DONE")
      BY <2>01, <3>9, Zenon
    <3>3. /\ end.status \in [Shares(m) -> Statuses] /\ end.status[k] = "DONE"
          /\ \A x \in Shares(m) \ {k} : end.status[x] = st[x]
      BY <1>1, <1>4, <1>6, <3>2 DEF Put
    <3>4. /\ ndid[Write] = did[Write] \cup {k} /\ ndoing[Write] = doing[Write] \ {k}
          /\ ndid[Read] = did[Read] /\ ndoing[Read] = doing[Read]
      BY <1>5, <2>1 DEF Other
    <3>5. did[Read] = {1, 2}
      BY <2>0, <2>1
    <3>6. \A x \in Shares(m) :
            end.status[x] =
                     IF x \in ndid[Write] THEN "DONE"
                     ELSE IF x \in ndoing[Write] THEN "DO_WRITE"
                     ELSE IF ndid[Read] = {1, 2} THEN "PARITY_WRITE_PHASE_BEGIN"
                     ELSE IF x \in ndid[Read] THEN "PARITY_READ_PHASE_DONE"
                     ELSE IF x \in ndoing[Read] THEN "DO_READ" ELSE "NOT_STARTED"
      BY <2>0, <3>3, <3>4, <3>5
    <3>7. StatusOK(m, r, end.status, ndid, ndoing)
      BY <1>5, <1>7, <1>12, <3>3, <3>4, <3>5, <3>6 DEF StatusOK
    <3>8. ~ Over(m, r, did) /\ (Over(m, r, ndid) <=> 3 - k \in did[Write])
      <4>1. did[Write] \subseteq {1, 2} /\ k \notin did[Write]
        BY <1>1, <1>2, <1>6, <2>00, <2>1
      <4>2. did[Write] # {1, 2} /\ (did[Write] \cup {k} = {1, 2} <=> 3 - k \in did[Write])
        BY <4>1, <2>02
      <4> QED
        BY <1>12, <3>4, <4>2 DEF Over
    <3> QED
      BY <1>6, <3>1, <3>2, <3>7, <3>8 DEF end, ndid, ndoing
  <2>2. CASE op = Read
    <3>1. k \notin did[Read] /\ k \in doing[Read]
      BY <1>6, <2>2
    <3>2. did[Write] = {} /\ doing[Write] = {} /\ did[Read] # {1, 2}
      BY <2>0, <2>02, <3>1
    <3>3. st[k] = "DO_READ"
          /\ (st[3 - k] = "PARITY_READ_PHASE_DONE" <=> 3 - k \in did[Read])
      BY <2>0, <2>00, <2>02, <3>1, <3>2
    <3>4. /\ ~ end.done
          /\ end.status = IF st[3 - k] = "PARITY_READ_PHASE_DONE"
                            THEN PhaseWrite
                            ELSE Put(st, k, "PARITY_READ_PHASE_DONE")
      <4>1. /\ ~ RequestLevel4Done(r, st, k).done
            /\ RequestLevel4Done(r, st, k).status =
                 IF st[3 - k] = "PARITY_READ_PHASE_DONE"
                   THEN PhaseWrite
                   ELSE Put(st, k, "PARITY_READ_PHASE_DONE")
        BY <2>00, <2>02, <3>3, Level4Read, Zenon
      <4> QED
        BY <2>01, <4>1, Zenon
    <3>5. /\ ndid[Read] = did[Read] \cup {k} /\ ndoing[Read] = doing[Read] \ {k}
          /\ ndid[Write] = {} /\ ndoing[Write] = {}
      BY <1>5, <2>2, <3>2 DEF Other
    <3>6. ndid[Read] = {1, 2} <=> 3 - k \in did[Read]
      <4>1. did[Read] \subseteq {1, 2}
        BY <1>1, <1>2, <2>00
      <4> QED
        BY <4>1, <2>02, <3>5
    <3>7. /\ end.status \in [Shares(m) -> Statuses]
          /\ \A x \in Shares(m) :
               end.status[x] = IF ndid[Read] = {1, 2} THEN "PARITY_WRITE_PHASE_BEGIN"
                               ELSE IF x = k THEN "PARITY_READ_PHASE_DONE" ELSE st[x]
      BY <1>1, <1>4, <2>00, <2>02, <3>3, <3>4, <3>6 DEF Put, PhaseWrite
    <3>8. \A x \in Shares(m) :
            end.status[x] =
                     IF x \in ndid[Write] THEN "DONE"
                     ELSE IF x \in ndoing[Write] THEN "DO_WRITE"
                     ELSE IF ndid[Read] = {1, 2} THEN "PARITY_WRITE_PHASE_BEGIN"
                     ELSE IF x \in ndid[Read] THEN "PARITY_READ_PHASE_DONE"
                     ELSE IF x \in ndoing[Read] THEN "DO_READ" ELSE "NOT_STARTED"
      BY <2>0, <3>1, <3>2, <3>5, <3>7
    <3>9. StatusOK(m, r, end.status, ndid, ndoing)
      BY <1>5, <1>7, <1>12, <3>5, <3>7, <3>8 DEF StatusOK
    <3>10. ~ Over(m, r, did) /\ ~ Over(m, r, ndid)
      BY <1>12, <3>2, <3>5 DEF Over
    <3> QED
      BY <1>6, <3>4, <3>9, <3>10 DEF end, ndid, ndoing
  <2> QED
    BY <2>1, <2>2 DEF Ops
<1> QED
  BY <1>3, <1>9, <1>10, <1>11, <1>12
-----------------------------------------------------------------------------
\* The disk list of an address: one disk, or two different ones.
LEMMA DiskList ==
  ASSUME NEW m \in Mappings, NEW a \in Nat
  PROVE  /\ PhysDisks(m, a) \in Seq(DiskIds)
         /\ DOMAIN PhysDisks(m, a) = Shares(m)
         /\ \A k \in Shares(m) : PhysDisks(m, a)[k] \in DiskIds
         /\ m # 0 => PhysDisks(m, a)[1] # PhysDisks(m, a)[2]
         /\ PhysOffset(m, a) \in Nat
<1>1. PhysDisks(m, a)[1] \in DiskIds /\ PhysOffset(m, a) \in Nat
  BY DataDiskExists
<1>2. m # 0 => PhysDisks(m, a)[2] \in DiskIds \ {PhysDisks(m, a)[1]}
  BY SecondDiskApart
<1>3. CASE m = 0
  <2>1. PhysDisks(m, a) = <<a % disk_count>>
    BY <1>3 DEF PhysDisks
  <2>2. PICK x : PhysDisks(m, a) = <<x>>
    BY <2>1
  <2>3. x \in DiskIds
    BY <1>1, <2>2
  <2>4. /\ <<x>> \in Seq(DiskIds) /\ DOMAIN <<x>> = {1}
        /\ <<x>>[1] \in DiskIds
    BY <2>3
  <2>5. Shares(m) = {1}
    BY <1>3 DEF Shares
  <2> QED
    BY <1>1, <1>3, <2>2, <2>4, <2>5
<1>4. ASSUME m # 0, NEW x, NEW y, PhysDisks(m, a) = <<x, y>>
      PROVE  /\ PhysDisks(m, a) \in Seq(DiskIds)
             /\ DOMAIN PhysDisks(m, a) = Shares(m)
             /\ \A k \in Shares(m) : PhysDisks(m, a)[k] \in DiskIds
             /\ m # 0 => PhysDisks(m, a)[1] # PhysDisks(m, a)[2]
  <2>1. x \in DiskIds /\ y \in DiskIds /\ x # y
    BY <1>1, <1>2, <1>4
  <2>2. /\ <<x, y>> \in Seq(DiskIds) /\ DOMAIN <<x, y>> = {1, 2}
        /\ <<x, y>>[1] = x /\ <<x, y>>[2] = y
    BY <2>1
  <2>3. Shares(m) = {1, 2}
    BY <1>4 DEF Shares
  <2> QED
    BY <1>4, <2>1, <2>2, <2>3
<1>5. CASE m = 1
  <2> DEFINE pair == a % (disk_count \div 2)
  <2>1. PhysDisks(m, a) = <<2 * pair, 2 * pair + 1>>
    BY <1>5 DEF PhysDisks
  <2> QED
    BY <1>1, <1>4, <1>5, <2>1
<1>6. CASE m = 4
  <2>1. PhysDisks(m, a) = <<a % (disk_count - 1), 3>>
    BY <1>6 DEF PhysDisks
  <2> QED
    BY <1>1, <1>4, <1>6, <2>1
<1>7. CASE m = 5
  <2>1. PhysDisks(m, a) = <<Raid5Data(a), Raid5Parity(a \div (disk_count - 1))>>
    BY <1>7 DEF PhysDisks
  <2> QED
    BY <1>1, <1>4, <1>7, <2>1
<1> QED
  BY <1>3, <1>5, <1>6, <1>7 DEF Mappings

\* The requests of a command line.
LEMMA RequestsOK ==
  ASSUME NEW m \in Mappings, NEW queue \in Seq([op : {Read, Write}, addr : Nat])
  PROVE  /\ DOMAIN Requests(m, queue) = DOMAIN queue
         /\ Len(Requests(m, queue)) = Len(queue)
         /\ \A i \in DOMAIN queue :
              /\ IsRequest(m, Requests(m, queue)[i])
              /\ Requests(m, queue)[i].addr = queue[i].addr
              /\ Requests(m, queue)[i].disks = PhysDisks(m, queue[i].addr)
              /\ Requests(m, queue)[i].offset = PhysOffset(m, queue[i].addr)
<1> DEFINE S == StripeStarts(m, queue)
           r(i) == [op     |-> queue[i].op,
                    addr   |-> queue[i].addr,
                    disks  |-> PhysDisks(m, queue[i].addr),
                    offset |-> PhysOffset(m, queue[i].addr),
                    full_stripe_write        |-> \E s \in S : i \in s .. s + 2,
                    full_stripe_write_parity |-> i - 2 \in S]
<1>1. Requests(m, queue) = [i \in DOMAIN queue |-> r(i)]
  BY Zenon DEF Requests
<1>2. DOMAIN queue = 1 .. Len(queue) /\ Len(queue) \in Nat
  OBVIOUS
<1>3. ASSUME NEW i \in DOMAIN queue
      PROVE  /\ IsRequest(m, r(i)) /\ r(i).addr = queue[i].addr
             /\ r(i).disks = PhysDisks(m, queue[i].addr)
             /\ r(i).offset = PhysOffset(m, queue[i].addr)
  <2>1. queue[i].op \in {Read, Write} /\ queue[i].addr \in Nat
    <3>1. queue[i] \in [op : {Read, Write}, addr : Nat]
      BY <1>2, ElementOfSeq
    <3> QED
      BY <3>1
  <2>2. S \subseteq Int /\ (S # {} => m = 4)
    BY <1>2 DEF StripeStarts
  <2> DEFINE full == \E s \in S : i \in s .. s + 2
             last == i - 2 \in S
  <2>3. /\ full \in BOOLEAN /\ last \in BOOLEAN
        /\ full => m = 4
        /\ last => full
    <3>1. ASSUME last PROVE full
      <4>1. i - 2 \in S /\ i \in (i - 2) .. (i - 2) + 2
        BY <1>2, <3>1
      <4> QED
        BY <4>1
    <3>2. ASSUME full PROVE m = 4
      BY <2>2, <3>2
    <3> QED
      BY <3>1, <3>2
  <2>4. /\ DOMAIN PhysDisks(m, queue[i].addr) = Shares(m)
        /\ \A k \in Shares(m) : PhysDisks(m, queue[i].addr)[k] \in DiskIds
        /\ m # 0 => PhysDisks(m, queue[i].addr)[1] # PhysDisks(m, queue[i].addr)[2]
        /\ PhysOffset(m, queue[i].addr) \in Nat
    BY <2>1, DiskList
  <2> HIDE DEF full, last, S
  <2>5. /\ r(i).op = queue[i].op /\ r(i).addr = queue[i].addr
        /\ r(i).disks = PhysDisks(m, queue[i].addr)
        /\ r(i).offset = PhysOffset(m, queue[i].addr)
        /\ r(i).full_stripe_write = full /\ r(i).full_stripe_write_parity = last
    BY Zenon DEF full, last
  <2> HIDE DEF r
  <2> QED
    BY <2>1, <2>3, <2>4, <2>5 DEF IsRequest, Ops
<1> HIDE DEF r
<1>4. Len(Requests(m, queue)) = Len(queue)
  BY <1>1, <1>2
<1> QED
  BY <1>1, <1>2, <1>3, <1>4
-----------------------------------------------------------------------------
\* Share p may be started in state s.
Startables(m, r, p) ==
  IF m \in {0, 1} \/ (r.op = Write /\ r.full_stripe_write) THEN {"NOT_STARTED"}
  ELSE IF r.op = Write THEN {"NOT_STARTED", "PARITY_WRITE_PHASE_BEGIN"}
  ELSE IF p = 1 THEN {"NOT_STARTED"} ELSE {}

\* A disk is offered something exactly when its share is in such a state.
LEMMA OfferedPositions ==
  ASSUME NEW m \in Mappings, NEW r, IsRequest(m, r), NEW st, NEW d
  PROVE  OffersOf(m, r, st, d) # {} <=>
           \E p \in Shares(m) : r.disks[p] = d /\ st[p] \in Startables(m, r, p)
<1> DEFINE P(S) == Positions(r, st, d, S)
<1>1. /\ r.op \in {Read, Write} /\ Read # Write
      /\ r.full_stripe_write => m = 4
      /\ DOMAIN r.disks = Shares(m)
  BY DEF IsRequest, Ops, Read, Write
<1>2. \A S : P(S) = {p \in Shares(m) : r.disks[p] = d /\ st[p] \in S}
  BY <1>1 DEF Positions
<1>3. CASE m = 0
  <2>1. OffersOf(m, r, st, d) # {} <=> P({"NOT_STARTED"}) # {}
    BY <1>3 DEF OffersOf, DoStripeScheduling
  <2> QED
    BY <1>2, <1>3, <2>1 DEF Startables
<1>4. CASE m = 1
  <2> DEFINE F(k) == [op |-> r.op,
                      status |-> IF r.op = Read
                                   THEN [st EXCEPT ![k] = "DO_READ", ![3 - k] = "DONE"]
                                   ELSE [st EXCEPT ![k] = "DO_WRITE"]]
  <2>0. OffersOf(m, r, st, d) = {F(k) : k \in P({"NOT_STARTED"})}
    <3>1. OffersOf(m, r, st, d) = DoMirrorScheduling(r, st, d)
      BY <1>4 DEF OffersOf
    <3> QED
      BY <3>1, Zenon DEF DoMirrorScheduling
  <2> HIDE DEF F, P
  <2>1. OffersOf(m, r, st, d) # {} <=> P({"NOT_STARTED"}) # {}
    BY <2>0
  <2> QED
    BY <1>2, <1>4, <2>1 DEF Startables
<1>5. CASE m \in {4, 5} /\ r.op = Read
  <2>0. OffersOf(m, r, st, d) = ParityRead(r, st, d)
    BY <1>5 DEF OffersOf, DoRaid4Scheduling, DoRaid5Scheduling
  <2>1. OffersOf(m, r, st, d) # {} <=> P({"NOT_STARTED"}) \ {2} # {}
    BY <2>0 DEF ParityRead
  <2>2. Shares(m) = {1, 2}
    BY <1>1, <1>5 DEF Shares
  <2> QED
    BY <1>1, <1>2, <1>5, <2>1, <2>2 DEF Startables
<1>6. CASE m = 4 /\ r.op = Write /\ r.full_stripe_write
  <2> DEFINE F(k) == [op |-> Write,
                      status |-> IF r.full_stripe_write_parity
                                   THEN [st EXCEPT ![k] = "DO_WRITE"]
                                   ELSE [st EXCEPT ![k] = "DO_WRITE", ![3 - k] = "DONE"]]
  <2>0. OffersOf(m, r, st, d) = {F(k) : k \in P({"NOT_STARTED"})}
    <3>1. OffersOf(m, r, st, d) = FullStripeWrite(r, st, d)
      BY <1>1, <1>6 DEF OffersOf, DoRaid4Scheduling
    <3> QED
      BY <3>1, Zenon DEF FullStripeWrite
  <2> HIDE DEF F, P
  <2>1. OffersOf(m, r, st, d) # {} <=> P({"NOT_STARTED"}) # {}
    BY <2>0
  <2> QED
    BY <1>2, <1>6, <2>1 DEF Startables
<1>7. CASE m \in {4, 5} /\ r.op = Write /\ ~ r.full_stripe_write
  <2>1. OffersOf(m, r, st, d) = SmallWrite(r, st, d)
    BY <1>1, <1>7 DEF OffersOf, DoRaid4Scheduling, DoRaid5Scheduling
  <2>2. SmallWrite(r, st, d) # {} <=>
          P({"NOT_STARTED"}) # {} \/ P({"PARITY_WRITE_PHASE_BEGIN"}) # {}
    BY DEF SmallWrite
  <2> HIDE DEF P
  <2>3. Startables(m, r, 1) = {"NOT_STARTED", "PARITY_WRITE_PHASE_BEGIN"}
        /\ \A p : Startables(m, r, p) = Startables(m, r, 1)
    BY <1>1, <1>7 DEF Startables
  <2> QED
    BY <1>2, <2>1, <2>2, <2>3
<1> QED
  BY <1>1, <1>3, <1>4, <1>5, <1>6, <1>7 DEF Mappings

\* Starting one share offers nothing new to another disk.
LEMMA OffersShrink ==
  ASSUME NEW m \in Mappings, NEW r, IsRequest(m, r),
         NEW st \in [Shares(m) -> Statuses],
         NEW k \in Shares(m), NEW offer \in OffersOf(m, r, st, r.disks[k]),
         NEW d, d # r.disks[k], OffersOf(m, r, offer.status, d) # {}
  PROVE  OffersOf(m, r, st, d) # {}
<1>1. PICK p \in Shares(m) : r.disks[p] = d /\ offer.status[p] \in Startables(m, r, p)
  BY OfferedPositions
<1>2. p # k
  BY <1>1
<1>3. OfferOK(m, r, st, k, offer)
  BY OfferCases
<1>4. offer.status[p] = st[p] \/ offer.status[p] = "DONE"
  <2>1. CASE Kind(m, r) = "single"
    BY <1>2, <1>3, <2>1 DEF OfferOK
  <2>2. CASE Kind(m, r) = "either"
    <3>1. offer.status = [st EXCEPT ![k] = DoOp(r.op), ![3 - k] = "DONE"]
      BY <1>3, <2>2, Zenon DEF OfferOK
    <3> QED
      BY <1>2, <3>1
  <2>3. CASE Kind(m, r) = "both"
    BY <1>2, <1>3, <2>3 DEF OfferOK
  <2>4. CASE Kind(m, r) = "update"
    BY <1>2, <1>3, <2>4 DEF OfferOK
  <2> QED
    BY <2>1, <2>2, <2>3, <2>4 DEF Kind
<1>5. st[p] \in Startables(m, r, p)
  BY <1>1, <1>4 DEF Startables
<1> QED
  BY <1>1, <1>5, OfferedPositions

\* A write that offers an idle disk nothing has done there what it can do now.
LEMMA NothingOffered ==
  ASSUME NEW m \in Mappings, NEW r, IsRequest(m, r), NEW st, NEW did, NEW doing,
         StatusOK(m, r, st, did, doing), r.op = Write, ~ r.full_stripe_write,
         NEW k \in Shares(m), \A op \in Ops : k \notin doing[op],
         OffersOf(m, r, st, r.disks[k]) = {}
  PROVE  /\ m \in {0, 1} => k \in did[Write]
         /\ m \notin {0, 1} => /\ k \in did[Read]
                               /\ did[Read] = {1, 2} => k \in did[Write]
<1>1. st[k] \notin Startables(m, r, k)
  BY OfferedPositions
<1>2. Write \in Ops /\ Read \in Ops /\ Read # Write
  BY DEF Ops, Read, Write
<1>3. CASE m = 0
  <2>1. Kind(m, r) = "single" /\ k = 1
    BY <1>3 DEF Kind, Shares
  <2>2. st[1] # "NOT_STARTED"
    BY <1>1, <1>3, <2>1 DEF Startables
  <2> QED
    BY <1>2, <1>3, <2>1, <2>2 DEF StatusOK
<1>4. CASE m = 1
  <2>1. Kind(m, r) = "both"
    BY <1>2, <1>4 DEF Kind
  <2>2. st[k] # "NOT_STARTED"
    BY <1>1, <1>4 DEF Startables
  <2> QED
    BY <1>2, <1>4, <2>1, <2>2 DEF StatusOK
<1>5. CASE m \notin {0, 1}
  <2>1. Kind(m, r) = "update"
    BY <1>2, <1>5 DEF Kind
  <2>2. st[k] # "NOT_STARTED" /\ st[k] # "PARITY_WRITE_PHASE_BEGIN"
    BY <1>1, <1>5 DEF Startables
  <2>3. /\ did[Write] \cup doing[Write] # {} => did[Read] = {1, 2}
        /\ st[k] = IF k \in did[Write] THEN "DONE"
                   ELSE IF k \in doing[Write] THEN "DO_WRITE"
                   ELSE IF did[Read] = {1, 2} THEN "PARITY_WRITE_PHASE_BEGIN"
                   ELSE IF k \in did[Read] THEN "PARITY_READ_PHASE_DONE"
                   ELSE IF k \in doing[Read] THEN "DO_READ" ELSE "NOT_STARTED"
    BY <2>1 DEF StatusOK
  <2>4. k \in {1, 2}
    BY DEF Shares
  <2> QED
    BY <1>2, <1>5, <2>2, <2>3, <2>4
<1> QED
  BY <1>3, <1>4, <1>5

\* A request that is over uses no disk and wants none.
LEMMA OverIsQuiet ==
  ASSUME NEW m \in Mappings, NEW r, IsRequest(m, r), NEW st, NEW did, NEW doing,
         StatusOK(m, r, st, did, doing), Over(m, r, did)
  PROVE  /\ \A op \in Ops : doing[op] = {}
         /\ \A k \in Shares(m) : OffersOf(m, r, st, r.disks[k]) = {}
<1>1. ASSUME NEW op \in Ops, NEW k \in doing[op] PROVE FALSE
  BY <1>1, FinishShare
<1>2. ASSUME NEW k \in Shares(m), NEW offer \in OffersOf(m, r, st, r.disks[k]) PROVE FALSE
  BY <1>2, StartShare
<1> QED
  BY <1>1, <1>2

LEMMA HasPosition ==
  ASSUME NEW r, NEW st, NEW k \in DOMAIN r.disks, NEW S, st[k] \in S
  PROVE  k \in Positions(r, st, r.disks[k], S)
  BY DEF Positions

\* Whatever stands at a position that fits is taken.
LEMMA TakesStripe ==
  ASSUME NEW r, NEW st, NEW d, NEW k \in Positions(r, st, d, {"NOT_STARTED"})
  PROVE  DoStripeScheduling(r, st, d) # {}
<1> DEFINE offer == [op |-> r.op, status |-> <<IF r.op = Read THEN "DO_READ" ELSE "DO_WRITE">>]
<1>1. offer \in DoStripeScheduling(r, st, d)
  BY Zenon DEF DoStripeScheduling
<1> QED
  BY <1>1, Zenon

LEMMA TakesMirror ==
  ASSUME NEW r, NEW st, NEW d, NEW k \in Positions(r, st, d, {"NOT_STARTED"})
  PROVE  DoMirrorScheduling(r, st, d) # {}
<1> DEFINE offer == [op |-> r.op,
                     status |-> IF r.op = Read
                                  THEN [st EXCEPT ![k] = "DO_READ", ![3 - k] = "DONE"]
                                  ELSE [st EXCEPT ![k] = "DO_WRITE"]]
<1>1. offer \in DoMirrorScheduling(r, st, d)
  BY Zenon DEF DoMirrorScheduling
<1> QED
  BY <1>1, Zenon

LEMMA TakesFullStripe ==
  ASSUME NEW r, NEW st, NEW d, NEW k \in Positions(r, st, d, {"NOT_STARTED"})
  PROVE  FullStripeWrite(r, st, d) # {}
<1> DEFINE offer == [op |-> Write,
                     status |-> IF r.full_stripe_write_parity
                                  THEN [st EXCEPT ![k] = "DO_WRITE"]
                                  ELSE [st EXCEPT ![k] = "DO_WRITE", ![3 - k] = "DONE"]]
<1>1. offer \in FullStripeWrite(r, st, d)
  BY Zenon DEF FullStripeWrite
<1> QED
  BY <1>1, Zenon

LEMMA TakesParityRead ==
  ASSUME NEW r, NEW st, NEW d, 1 \in Positions(r, st, d, {"NOT_STARTED"})
  PROVE  ParityRead(r, st, d) # {}
<1> DEFINE offer == [op |-> Read, status |-> [st EXCEPT ![1] = "DO_READ"]]
<1>1. 1 \in Positions(r, st, d, {"NOT_STARTED"}) \ {2}
  OBVIOUS
<1>2. offer \in ParityRead(r, st, d)
  BY <1>1, Zenon DEF ParityRead
<1> QED
  BY <1>2, Zenon

\* A request that no disk works for and that is not over has something for one of its
\* disks.
LEMMA IdleOffers ==
  ASSUME NEW m \in Mappings, NEW r, IsRequest(m, r), NEW st, NEW did, NEW doing,
         StatusOK(m, r, st, did, doing), \A op \in Ops : doing[op] = {}, ~ Over(m, r, did)
  PROVE  \E k \in Shares(m) : OffersOf(m, r, st, r.disks[k]) # {}
<1>1. /\ r.op = Read \/ r.op = Write
      /\ Read # Write /\ Read \in Ops /\ Write \in Ops /\ r.op \in Ops
      /\ r.full_stripe_write => m = 4
      /\ r.full_stripe_write_parity => r.full_stripe_write
      /\ r.full_stripe_write \in BOOLEAN /\ r.full_stripe_write_parity \in BOOLEAN
      /\ DOMAIN r.disks = Shares(m) /\ 1 \in Shares(m)
      /\ m # 0 => Shares(m) = {1, 2}
      /\ did[Read] \subseteq Shares(m) /\ did[Write] \subseteq Shares(m)
  BY DEF IsRequest, Ops, Read, Write, Shares, StatusOK
<1>2. m = 0 \/ m = 1 \/ m \in {4, 5}
  BY DEF Mappings
<1>3. /\ 0 # 1 /\ 0 # 4 /\ 0 # 5 /\ 1 # 4 /\ 1 # 5 /\ 4 # 5
  OBVIOUS
<1>4. CASE Kind(m, r) = "single"
  <2>1. st[1] = "NOT_STARTED"
    BY <1>1, <1>4 DEF StatusOK, Over
  <2>2. 1 \in Positions(r, st, r.disks[1], {"NOT_STARTED"})
    BY <1>1, <2>1, HasPosition
  <2>3. m = 0 \/ (m \in {4, 5} /\ r.op = Read)
    BY <1>2, <1>4 DEF Kind
  <2>4. CASE m = 0
    <3>1. OffersOf(m, r, st, r.disks[1]) = DoStripeScheduling(r, st, r.disks[1])
      BY <2>4 DEF OffersOf
    <3> QED
      BY <1>1, <2>2, <3>1, TakesStripe
  <2>5. CASE m \in {4, 5} /\ r.op = Read
    <3>1. OffersOf(m, r, st, r.disks[1]) = ParityRead(r, st, r.disks[1])
      BY <1>3, <2>5 DEF OffersOf, DoRaid4Scheduling, DoRaid5Scheduling
    <3> QED
      BY <1>1, <2>2, <3>1, TakesParityRead
  <2> QED
    BY <2>3, <2>4, <2>5
<1>5. CASE Kind(m, r) = "either"
  <2>1. st[1] = "NOT_STARTED"
    BY <1>1, <1>5 DEF StatusOK, Over
  <2>2. 1 \in Positions(r, st, r.disks[1], {"NOT_STARTED"})
    BY <1>1, <2>1, HasPosition
  <2>3. m = 1 \/ (m = 4 /\ r.op = Write /\ r.full_stripe_write)
    BY <1>1, <1>2, <1>5 DEF Kind
  <2>4. CASE m = 1
    <3>1. OffersOf(m, r, st, r.disks[1]) = DoMirrorScheduling(r, st, r.disks[1])
      BY <2>4 DEF OffersOf
    <3> QED
      BY <1>1, <2>2, <3>1, TakesMirror
  <2>5. CASE m = 4 /\ r.op = Write /\ r.full_stripe_write
    <3>1. OffersOf(m, r, st, r.disks[1]) = FullStripeWrite(r, st, r.disks[1])
      BY <1>1, <2>5 DEF OffersOf, DoRaid4Scheduling
    <3> QED
      BY <1>1, <2>2, <3>1, TakesFullStripe
  <2> QED
    BY <2>3, <2>4, <2>5
<1>6. CASE Kind(m, r) = "both"
  <2>1. PICK k \in Shares(m) : k \notin did[Write]
    BY <1>1, <1>6 DEF Over, Kind
  <2>2. st[k] = "NOT_STARTED"
    BY <1>1, <1>6, <2>1 DEF StatusOK, Kind
  <2>3. k \in Positions(r, st, r.disks[k], {"NOT_STARTED"})
    BY <1>1, <2>2, HasPosition
  <2>4. m = 1 \/ (m = 4 /\ r.op = Write /\ r.full_stripe_write)
    BY <1>1, <1>2, <1>6 DEF Kind
  <2>5. CASE m = 1
    <3>1. OffersOf(m, r, st, r.disks[k]) = DoMirrorScheduling(r, st, r.disks[k])
      BY <2>5 DEF OffersOf
    <3> QED
      BY <2>3, <3>1, TakesMirror
  <2>6. CASE m = 4 /\ r.op = Write /\ r.full_stripe_write
    <3>1. OffersOf(m, r, st, r.disks[k]) = FullStripeWrite(r, st, r.disks[k])
      BY <1>1, <2>6 DEF OffersOf, DoRaid4Scheduling
    <3> QED
      BY <2>3, <3>1, TakesFullStripe
  <2> QED
    BY <2>4, <2>5, <2>6
<1>7. CASE Kind(m, r) = "update"
  <2>1. m \in {4, 5} /\ r.op = Write /\ ~ r.full_stripe_write /\ Shares(m) = {1, 2}
    BY <1>1, <1>2, <1>7 DEF Kind
  <2>2. ASSUME NEW d PROVE OffersOf(m, r, st, d) = SmallWrite(r, st, d)
    BY <1>1, <1>3, <2>1 DEF OffersOf, DoRaid4Scheduling, DoRaid5Scheduling
  <2>3. PICK k \in Shares(m) : k \notin did[IF did[Read] = {1, 2} THEN Write ELSE Read]
    BY <1>1, <1>7, <2>1 DEF Over
  <2>4. CASE did[Read] = {1, 2}
    <3>1. st[k] = "PARITY_WRITE_PHASE_BEGIN"
      BY <1>1, <1>7, <2>3, <2>4 DEF StatusOK
    <3>2. k \in Positions(r, st, r.disks[k], {"PARITY_WRITE_PHASE_BEGIN"})
      BY <1>1, <3>1, HasPosition
    <3>3. [op |-> Write, status |-> [st EXCEPT ![k] = "DO_WRITE"]]
            \in SmallWrite(r, st, r.disks[k])
      BY <3>2 DEF SmallWrite
    <3> QED
      BY <2>2, <3>3
  <2>5. CASE did[Read] # {1, 2}
    <3>1. did[Write] = {}
      BY <1>1, <1>7, <2>5 DEF StatusOK
    <3>2. st[k] = "NOT_STARTED"
      BY <1>1, <1>7, <2>3, <2>5, <3>1 DEF StatusOK
    <3>3. k \in Positions(r, st, r.disks[k], {"NOT_STARTED"})
      BY <1>1, <3>2, HasPosition
    <3>4. [op |-> Read, status |-> [st EXCEPT ![k] = "DO_READ"]]
            \in SmallWrite(r, st, r.disks[k])
      BY <3>3 DEF SmallWrite
    <3> QED
      BY <2>2, <3>4
  <2> QED
    BY <2>4, <2>5
<1> QED
  BY <1>4, <1>5, <1>6, <1>7 DEF Kind
-----------------------------------------------------------------------------
(***************************************************************************)
(* The physical I/Os a queue takes, counted: a slot <<op, k>> for the read *)
(* and the write of each share, and one slot for either of two.            *)
(***************************************************************************)
SlotNeeded(m, r, op, k) ==
  IF Kind(m, r) \in {"single", "either"} THEN op = r.op /\ k = 1
  ELSE IF Kind(m, r) = "both" THEN op = Write ELSE TRUE

SlotFilled(m, r, did, op, k) ==
  IF Kind(m, r) \in {"single", "either"} THEN op = r.op /\ k = 1 /\ did[op] # {}
                                         ELSE k \in did[op]

SlotsOf(rq) == (DOMAIN rq) \X (Ops \X {1, 2})
SlotsNeeded(m, rq) == {s \in SlotsOf(rq) : SlotNeeded(m, rq[s[1]], s[2][1], s[2][2])}

LEMMA RequestFields ==
  ASSUME NEW m, NEW queue, NEW i \in DOMAIN queue
  PROVE  /\ Requests(m, queue)[i].op = queue[i].op
         /\ Requests(m, queue)[i].full_stripe_write <=>
              \E s \in StripeStarts(m, queue) : i \in s .. s + 2
         /\ Requests(m, queue)[i].full_stripe_write_parity <=> i - 2 \in StripeStarts(m, queue)
<1> DEFINE full == \E s \in StripeStarts(m, queue) : i \in s .. s + 2
           last == i - 2 \in StripeStarts(m, queue)
           r == [op     |-> queue[i].op,
                 addr   |-> queue[i].addr,
                 disks  |-> PhysDisks(m, queue[i].addr),
                 offset |-> PhysOffset(m, queue[i].addr),
                 full_stripe_write        |-> full,
                 full_stripe_write_parity |-> last]
<1>1. Requests(m, queue)[i] = r
  BY Zenon DEF Requests
<1> HIDE DEF full, last
<1>2. r.op = queue[i].op /\ r.full_stripe_write = full /\ r.full_stripe_write_parity = last
  BY Zenon
<1> HIDE DEF r
<1>3. /\ Requests(m, queue)[i].op = queue[i].op
      /\ Requests(m, queue)[i].full_stripe_write = full
      /\ Requests(m, queue)[i].full_stripe_write_parity = last
  BY <1>1, <1>2, Zenon
<1> QED
  BY <1>3, Zenon DEF full, last

LEMMA TagCount ==
  ASSUME NEW T, IsFiniteSet(T), NEW c
  PROVE  IsFiniteSet(T \X {c}) /\ Cardinality(T \X {c}) = Cardinality(T)
<1>1. IsFiniteSet({c}) /\ Cardinality({c}) = 1 /\ Cardinality(T) \in Nat
  BY FS_Singleton, FS_CardinalityType
<1>2. IsFiniteSet(T \X {c}) /\ Cardinality(T \X {c}) = Cardinality(T) * Cardinality({c})
  BY <1>1, FS_Product
<1> QED
  BY <1>1, <1>2

\* Two sets with nothing in common.
LEMMA DisjointCount ==
  ASSUME NEW S, NEW T, IsFiniteSet(S), IsFiniteSet(T), S \cap T = {}
  PROVE  /\ IsFiniteSet(S \cup T)
         /\ Cardinality(S \cup T) = Cardinality(S) + Cardinality(T)
<1>1. /\ IsFiniteSet(S \cup T)
      /\ Cardinality(S \cup T) = Cardinality(S) + Cardinality(T) - Cardinality(S \cap T)
  BY FS_Union
<1>2. Cardinality(S \cap T) = 0
  BY FS_EmptySet
<1>3. Cardinality(S) \in Nat /\ Cardinality(T) \in Nat
  BY FS_CardinalityType
<1> QED
  BY <1>1, <1>2, <1>3

Shift(S, c) == {s + c : s \in S}

LEMMA ShiftCount ==
  ASSUME NEW S \in SUBSET Int, IsFiniteSet(S), NEW c \in Int
  PROVE  IsFiniteSet(Shift(S, c)) /\ Cardinality(Shift(S, c)) = Cardinality(S)
<1> DEFINE f == [s \in S |-> s + c]
<1>1. f \in Bijection(S, Shift(S, c))
  BY DEF Bijection, Injection, Surjection, IsInjective, Shift
<1> QED
  BY <1>1, FS_Bijection DEF ExistsBijection

\* The stripes: three requests each, the last of which carries the parity.
LEMMA StripeCount ==
  ASSUME NEW m \in Mappings, NEW queue \in Seq([op : {Read, Write}, addr : Nat])
  PROVE  LET S      == StripeStarts(m, queue)
             full   == {i \in DOMAIN queue : \E s \in S : i \in s .. s + 2}
             parity == {i \in DOMAIN queue : i - 2 \in S}
         IN /\ IsFiniteSet(S) /\ Cardinality(S) \in Nat
            /\ IsFiniteSet(full) /\ Cardinality(full) = 3 * Cardinality(S)
            /\ IsFiniteSet(parity) /\ Cardinality(parity) = Cardinality(S)
<1> DEFINE S      == StripeStarts(m, queue)
           full   == {i \in DOMAIN queue : \E s \in S : i \in s .. s + 2}
           parity == {i \in DOMAIN queue : i - 2 \in S}
<1>1. DOMAIN queue = 1 .. Len(queue) /\ Len(queue) \in Nat /\ IsFiniteSet(DOMAIN queue)
  BY FS_Interval
<1>2. \A s \in S : s \in Nat /\ s % 3 = 1 /\ s + 2 <= Len(queue) /\ s >= 1
  BY <1>1 DEF StripeStarts
<1>3. S \in SUBSET DOMAIN queue
  BY DEF StripeStarts
<1>4. IsFiniteSet(S) /\ Cardinality(S) \in Nat
  BY <1>1, <1>3, FS_Subset, FS_CardinalityType
<1> HIDE DEF S
<1>5. S \in SUBSET Int
  BY <1>2
<1>6. /\ IsFiniteSet(Shift(S, 1)) /\ Cardinality(Shift(S, 1)) = Cardinality(S)
      /\ IsFiniteSet(Shift(S, 2)) /\ Cardinality(Shift(S, 2)) = Cardinality(S)
  BY <1>4, <1>5, ShiftCount
<1>7. parity = Shift(S, 2)
  <2>1. \A s \in S : s + 2 \in DOMAIN queue /\ (s + 2) - 2 = s
    BY <1>1, <1>2
  <2>2. \A i \in DOMAIN queue : (i - 2) + 2 = i
    BY <1>1
  <2> QED
    BY <2>1, <2>2 DEF Shift
<1>8. full = (S \cup Shift(S, 1)) \cup Shift(S, 2)
  <2>1. \A s \in S : s \in DOMAIN queue /\ s + 1 \in DOMAIN queue /\ s + 2 \in DOMAIN queue
    BY <1>1, <1>2
  <2>2. \A s \in S : s .. s + 2 = {s, s + 1, s + 2}
    BY <1>2
  <2> QED
    BY <2>1, <2>2 DEF Shift
<1>9. S \cap Shift(S, 1) = {} /\ (S \cup Shift(S, 1)) \cap Shift(S, 2) = {}
  <2>1. ASSUME NEW s \in S, NEW t \in S
        PROVE  s # t + 1 /\ s # t + 2 /\ s + 1 # t + 2
    <3>1. s \in Nat /\ t \in Nat /\ s % 3 = 1 /\ t % 3 = 1
      BY <1>2
    <3>2. (t + 1) % 3 = 2 /\ (t + 2) % 3 = 0
      BY <3>1
    <3> QED
      BY <3>1, <3>2
  <2> QED
    BY <2>1 DEF Shift
<1>10. /\ IsFiniteSet(S \cup Shift(S, 1))
       /\ Cardinality(S \cup Shift(S, 1)) = Cardinality(S) + Cardinality(S)
  BY <1>4, <1>6, <1>9, DisjointCount
<1>11. /\ IsFiniteSet(full)
       /\ Cardinality(full) = (Cardinality(S) + Cardinality(S)) + Cardinality(S)
  <2> DEFINE two == S \cup Shift(S, 1)
  <2> HIDE DEF two
  <2>1. IsFiniteSet(two) /\ Cardinality(two) = Cardinality(S) + Cardinality(S)
        /\ two \cap Shift(S, 2) = {}
    BY <1>9, <1>10 DEF two
  <2>2. /\ IsFiniteSet(two \cup Shift(S, 2))
        /\ Cardinality(two \cup Shift(S, 2)) = Cardinality(two) + Cardinality(Shift(S, 2))
    BY <1>6, <2>1, DisjointCount
  <2>3. full = two \cup Shift(S, 2)
    BY <1>8 DEF two
  <2> HIDE DEF full
  <2> QED
    BY <1>6, <2>1, <2>2, <2>3
<1>12. Cardinality(full) = 3 * Cardinality(S)
  BY <1>4, <1>11
<1> QED
  BY <1>4, <1>6, <1>7, <1>11, <1>12 DEF S

\* The physical I/Os expected (line 379) are those the requests take, provided
\* that each full stripe detected is one of writes.
LEMMA NeededCount ==
  ASSUME NEW m \in Mappings, NEW queue \in Seq([op : {Read, Write}, addr : Nat]),
         \A i \in DOMAIN queue : Requests(m, queue)[i].full_stripe_write => queue[i].op = Write
  PROVE  /\ IsFiniteSet(SlotsNeeded(m, Requests(m, queue)))
         /\ Cardinality(SlotsNeeded(m, Requests(m, queue))) = CountNeeded(m, queue)
<1> DEFINE rq == Requests(m, queue)
           D == DOMAIN queue
           W == Writes(queue)
           S == StripeStarts(m, queue)
           U == {i \in D : Kind(m, rq[i]) = "update"}
           B == {i \in D : Kind(m, rq[i]) \in {"both", "update"}}
           full   == {i \in D : \E s \in S : i \in s .. s + 2}
           parity == {i \in D : i - 2 \in S}
<1> HIDE DEF rq, S
<1>1. /\ DOMAIN rq = D
      /\ \A i \in D : /\ rq[i].op = queue[i].op /\ queue[i].op \in Ops
                      /\ rq[i].full_stripe_write => m = 4 /\ queue[i].op = Write
                      /\ rq[i].full_stripe_write_parity => rq[i].full_stripe_write
                      /\ rq[i].full_stripe_write <=> i \in full
                      /\ rq[i].full_stripe_write_parity <=> i \in parity
  <2>1. \A i \in D : IsRequest(m, rq[i])
    BY RequestsOK DEF rq
  <2> QED
    BY <2>1, RequestsOK, RequestFields DEF rq, S, IsRequest
<1>2. /\ IsFiniteSet(D) /\ Cardinality(D) = Len(queue) /\ Len(queue) \in Nat
  <2>1. D = 1 .. Len(queue) /\ Len(queue) \in Nat
    OBVIOUS
  <2> QED
    BY <2>1, FS_Interval
<1>3. W = {i \in D : queue[i].op = Write}
  BY DEF Writes
<1> HIDE DEF W
<1>4. /\ U \subseteq B /\ B \subseteq W /\ W \subseteq D
      /\ \A i \in D \ W : queue[i].op = Read
  BY <1>1, <1>3 DEF Kind, Ops, Read, Write
<1>5. \A i \in D : Kind(m, rq[i]) \in {"single", "either", "both", "update"}
  BY DEF Kind
<1>6. SlotsNeeded(m, rq) =
        (((((D \ W) \cup U) \X {<<Read, 1>>}) \cup (U \X {<<Read, 2>>}))
          \cup (W \X {<<Write, 1>>})) \cup (B \X {<<Write, 2>>})
  <2> DEFINE N(i, op, k) == \/ op = Read /\ k = 1 /\ i \in (D \ W) \cup U
                            \/ op = Read /\ k = 2 /\ i \in U
                            \/ op = Write /\ k = 1 /\ i \in W
                            \/ op = Write /\ k = 2 /\ i \in B
  <2>1. ASSUME NEW i \in D, NEW op \in Ops, NEW k \in {1, 2}
        PROVE  SlotNeeded(m, rq[i], op, k) <=> N(i, op, k)
    <3>1. rq[i].op = queue[i].op /\ Read # Write /\ (op = Read \/ op = Write)
          /\ (i \in W <=> queue[i].op = Write) /\ (queue[i].op = Read \/ queue[i].op = Write)
      BY <1>1, <1>3 DEF Ops, Read, Write
    <3>2. CASE Kind(m, rq[i]) \in {"single", "either"}
      <4>1. i \notin U /\ i \notin B
        BY <3>2
      <4> HIDE DEF U, B
      <4> QED
        BY <3>1, <3>2, <4>1 DEF SlotNeeded
    <3>3. CASE Kind(m, rq[i]) = "both"
      <4>1. i \notin U /\ i \in B /\ i \in W
        BY <1>4, <3>3
      <4> HIDE DEF U, B
      <4> QED
        BY <3>1, <3>3, <4>1 DEF SlotNeeded
    <3>4. CASE Kind(m, rq[i]) = "update"
      <4>1. i \in U /\ i \in B /\ i \in W
        BY <1>4, <3>4
      <4> HIDE DEF U, B
      <4> QED
        BY <3>1, <3>4, <4>1 DEF SlotNeeded
    <3> QED
      BY <1>5, <3>2, <3>3, <3>4
  <2>2. SlotsNeeded(m, rq) = {s \in D \X (Ops \X {1, 2}) : N(s[1], s[2][1], s[2][2])}
    BY <1>1, <2>1 DEF SlotsNeeded, SlotsOf
  <2>3. U \subseteq D /\ B \subseteq D /\ W \subseteq D
    BY <1>4
  <2> HIDE DEF U, B, D
  <2>4. ASSUME NEW i, NEW op, NEW k
        PROVE  <<i, <<op, k>>>> \in SlotsNeeded(m, rq) <=>
                 i \in D /\ op \in Ops /\ k \in {1, 2} /\ N(i, op, k)
    BY <2>2
  <2> QED
    BY <2>2, <2>3, <2>4 DEF Ops
<1>7. /\ IsFiniteSet(W) /\ Cardinality(W) \in Nat
      /\ IsFiniteSet(U) /\ Cardinality(U) \in Nat
      /\ IsFiniteSet(B) /\ Cardinality(B) \in Nat
  <2>1. W \in SUBSET D /\ U \in SUBSET D /\ B \in SUBSET D
    BY <1>4
  <2> QED
    BY <1>2, <2>1, FS_Subset, FS_CardinalityType
<1>8. /\ IsFiniteSet((D \ W) \cup U)
      /\ Cardinality((D \ W) \cup U) = Len(queue) - Cardinality(W) + Cardinality(U)
  <2> HIDE DEF D, U
  <2>1. D \cap W = W /\ (D \ W) \cap U = {}
    BY <1>4
  <2>2. IsFiniteSet(D \ W) /\ Cardinality(D \ W) = Cardinality(D) - Cardinality(D \cap W)
    BY <1>2, FS_Difference
  <2>3. /\ IsFiniteSet((D \ W) \cup U)
        /\ Cardinality((D \ W) \cup U) = Cardinality(D \ W) + Cardinality(U)
    BY <1>7, <2>1, <2>2, DisjointCount
  <2> QED
    BY <1>2, <2>1, <2>2, <2>3
<1> DEFINE R == (D \ W) \cup U
           R1 == R \X {<<Read, 1>>}
           R2 == U \X {<<Read, 2>>}
           W1 == W \X {<<Write, 1>>}
           W2 == B \X {<<Write, 2>>}
<1>9. /\ IsFiniteSet(R1) /\ Cardinality(R1) = Cardinality(R)
      /\ IsFiniteSet(R2) /\ Cardinality(R2) = Cardinality(U)
      /\ IsFiniteSet(W1) /\ Cardinality(W1) = Cardinality(W)
      /\ IsFiniteSet(W2) /\ Cardinality(W2) = Cardinality(B)
  <2> HIDE DEF D, U, B
  <2>1. IsFiniteSet(R)
    BY <1>8
  <2> HIDE DEF R
  <2> QED
    BY <1>7, <2>1, TagCount
<1>10. /\ R1 \cap R2 = {} /\ (R1 \cup R2) \cap W1 = {}
       /\ ((R1 \cup R2) \cup W1) \cap W2 = {}
  <2> HIDE DEF D, U, B, R
  <2>1. /\ \A x \in R1 : x[2] = <<Read, 1>>
        /\ \A x \in R2 : x[2] = <<Read, 2>>
        /\ \A x \in W1 : x[2] = <<Write, 1>>
        /\ \A x \in W2 : x[2] = <<Write, 2>>
    OBVIOUS
  <2> HIDE DEF R1, R2, W1, W2
  <2> QED
    BY <2>1 DEF Read, Write
<1>11. SlotsNeeded(m, rq) = ((R1 \cup R2) \cup W1) \cup W2
  BY <1>6
<1> HIDE DEF R1, R2, W1, W2
<1>12. /\ IsFiniteSet(R1 \cup R2)
       /\ Cardinality(R1 \cup R2) = Cardinality(R1) + Cardinality(R2)
  BY <1>9, <1>10, DisjointCount
<1>13. /\ IsFiniteSet((R1 \cup R2) \cup W1)
       /\ Cardinality((R1 \cup R2) \cup W1) = Cardinality(R1 \cup R2) + Cardinality(W1)
  BY <1>9, <1>10, <1>12, DisjointCount
<1>14. /\ IsFiniteSet(((R1 \cup R2) \cup W1) \cup W2)
       /\ Cardinality(((R1 \cup R2) \cup W1) \cup W2)
            = Cardinality((R1 \cup R2) \cup W1) + Cardinality(W2)
  BY <1>9, <1>10, <1>13, DisjointCount
<1>15. /\ IsFiniteSet(SlotsNeeded(m, rq))
       /\ Cardinality(SlotsNeeded(m, rq))
            = Len(queue) + Cardinality(U) + Cardinality(U) + Cardinality(B)
  <2> HIDE DEF D, U, B
  <2> QED
    BY <1>2, <1>7, <1>8, <1>9, <1>11, <1>12, <1>13, <1>14
<1>16. /\ IsFiniteSet(S) /\ Cardinality(S) \in Nat
       /\ IsFiniteSet(full) /\ Cardinality(full) = 3 * Cardinality(S)
       /\ IsFiniteSet(parity) /\ Cardinality(parity) = Cardinality(S)
  BY StripeCount DEF S
<1>17. CountNeeded(m, queue) =
         Len(queue) + (IF m = 0 THEN 0 ELSE IF m = 1 THEN 1 ELSE 3) * Cardinality(W)
           - 8 * Cardinality(S)
  <2> DEFINE extra == CASE m = 0 -> 0 [] m = 1 -> 1 [] m \in {4, 5} -> 3
  <2>1. CountNeeded(m, queue) = Len(queue) + extra * Cardinality(W) - 8 * Cardinality(S)
    BY Zenon DEF CountNeeded, W, S
  <2>2. /\ m = 0 \/ m = 1 \/ m \in {4, 5}
        /\ 0 # 1 /\ 1 # 0 /\ 0 \notin {4, 5} /\ 1 \notin {4, 5}
    BY DEF Mappings
  <2>3. extra = IF m = 0 THEN 0 ELSE IF m = 1 THEN 1 ELSE 3
    BY <2>2, Zenon
  <2> HIDE DEF extra
  <2> QED
    BY <2>1, <2>3
<1>18. m # 4 => Cardinality(S) = 0
  <2>1. m # 4 => S = {}
    BY DEF S, StripeStarts
  <2> QED
    BY <2>1, FS_EmptySet
<1>19. CASE m = 0
  <2>1. U = {} /\ B = {}
    BY <1>19 DEF Kind
  <2> QED
    BY <1>2, <1>7, <1>15, <1>17, <1>18, <1>19, <2>1, FS_EmptySet DEF rq
<1>20. CASE m = 1
  <2>1. U = {} /\ B = W
    BY <1>1, <1>3, <1>20 DEF Kind, Ops, Read, Write
  <2>2. Cardinality({}) = 0
    BY FS_EmptySet
  <2> HIDE DEF U, B
  <2> QED
    BY <1>2, <1>7, <1>15, <1>17, <1>18, <1>20, <2>1, <2>2 DEF rq
<1>21. CASE m = 5
  <2>1. U = W /\ B = W
    BY <1>1, <1>3, <1>21 DEF Kind, Ops, Read, Write
  <2> HIDE DEF U, B
  <2> QED
    BY <1>2, <1>7, <1>15, <1>17, <1>18, <1>21, <2>1 DEF rq
<1>22. CASE m = 4
  <2>1. /\ U = W \ full /\ B = U \cup parity /\ U \cap parity = {}
        /\ full \subseteq W /\ parity \subseteq full
    <3>1. full \subseteq D /\ parity \subseteq D /\ U \subseteq D /\ B \subseteq D
      OBVIOUS
    <3>2. ASSUME NEW i \in D
          PROVE  /\ i \in U <=> Kind(m, rq[i]) = "update"
                 /\ i \in B <=> Kind(m, rq[i]) \in {"both", "update"}
                 /\ i \in W <=> rq[i].op = Write
                 /\ i \in full <=> rq[i].full_stripe_write
                 /\ i \in parity <=> rq[i].full_stripe_write_parity
                 /\ rq[i].full_stripe_write => rq[i].op = Write
                 /\ rq[i].full_stripe_write_parity => rq[i].full_stripe_write
                 /\ rq[i].op = Read \/ rq[i].op = Write
      <4> HIDE DEF full, parity
      <4> QED
        BY <1>1, <1>3 DEF Ops
    <3> HIDE DEF full, parity, U, B
    <3>3. ASSUME NEW i \in D
          PROVE  /\ i \in U <=> i \in W /\ i \notin full
                 /\ i \in B <=> i \in U \/ i \in parity
                 /\ i \in full => i \in W
                 /\ i \in parity => i \in full
      BY <1>22, <3>2 DEF Kind, Read, Write
    <3> HIDE DEF D
    <3> QED
      BY <1>4, <3>1, <3>3
  <2> HIDE DEF U, B, full, parity
  <2>2. W \cap full = full /\ U \cap parity = {}
    BY <2>1
  <2>3. Cardinality(U) = Cardinality(W) - Cardinality(full)
    BY <1>7, <2>1, <2>2, FS_Difference
  <2>4. Cardinality(B) = Cardinality(U) + Cardinality(parity)
    BY <1>7, <1>16, <2>1, DisjointCount
  <2>5. CountNeeded(m, queue) = Len(queue) + 3 * Cardinality(W) - 8 * Cardinality(S)
    BY <1>17, <1>22
  <2> HIDE DEF D
  <2>6. Cardinality(SlotsNeeded(m, rq)) = CountNeeded(m, queue)
    <3>1. PICK n \in Nat, w \in Nat, u \in Nat, b \in Nat, s \in Nat :
            /\ n = Len(queue) /\ w = Cardinality(W) /\ u = Cardinality(U)
            /\ b = Cardinality(B) /\ s = Cardinality(S)
      <4>1. /\ Len(queue) \in Nat /\ Cardinality(W) \in Nat /\ Cardinality(U) \in Nat
            /\ Cardinality(B) \in Nat /\ Cardinality(S) \in Nat
        BY <1>2, <1>7, <1>16
      <4> QED
        BY <4>1, Zenon
    <3>2. u = w - 3 * s /\ b = u + s
      BY <1>16, <2>3, <2>4, <3>1
    <3>3. n + u + u + b = n + 3 * w - 8 * s
      BY <3>2
    <3>4. Cardinality(SlotsNeeded(m, rq)) = n + u + u + b
      BY <1>15, <3>1
    <3>5. CountNeeded(m, queue) = n + 3 * w - 8 * s
      BY <2>5, <3>1
    <3> QED
      BY <3>3, <3>4, <3>5
  <2> QED
    BY <1>15, <2>6 DEF rq
<1> QED
  BY <1>15, <1>19, <1>20, <1>21, <1>22 DEF Mappings, rq

\* Each I/O that ends fills one more of the slots the request needs, and when
\* all are filled the request is over.
LEMMA FillSlot ==
  ASSUME NEW m \in Mappings, NEW r, IsRequest(m, r), NEW st, NEW did, NEW doing,
         StatusOK(m, r, st, did, doing), NEW op \in Ops, NEW k \in doing[op]
  PROVE  \E o \in Ops, l \in {1, 2} :
           /\ SlotNeeded(m, r, o, l) /\ ~ SlotFilled(m, r, did, o, l)
           /\ \A x \in Ops, y \in {1, 2} :
                SlotFilled(m, r, With(did, op, k), x, y) <=>
                  SlotFilled(m, r, did, x, y) \/ (x = o /\ y = l)
<1>1. /\ did \in [Ops -> SUBSET Shares(m)] /\ doing \in [Ops -> SUBSET Shares(m)]
      /\ did[op] \cap doing[op] = {}
      /\ Kind(m, r) # "update" => doing[Other(r.op)] = {}
  BY DEF StatusOK
<1>2. /\ ~ Over(m, r, did)
      /\ k \in Shares(m) /\ k \in {1, 2}
      /\ k \notin did[op] /\ r.op \in Ops
  BY <1>1, FinishShare DEF Shares, IsRequest
<1>3. /\ \A x \in Ops \ {op} : With(did, op, k)[x] = did[x]
      /\ With(did, op, k)[op] = did[op] \cup {k}
  BY <1>1 DEF With
<1>4. Kind(m, r) # "update" => op = r.op
  BY <1>1, <1>2 DEF Ops, Other, Read, Write
<1>5. Kind(m, r) = "both" => r.op = Write
  BY <1>2 DEF Kind, Ops, Read, Write, IsRequest
<1>6. CASE Kind(m, r) \in {"single", "either"}
  <2>1. did[op] = {}
    BY <1>2, <1>4, <1>6 DEF Over
  <2>2. SlotNeeded(m, r, op, 1) /\ ~ SlotFilled(m, r, did, op, 1)
    BY <1>4, <1>6, <2>1 DEF SlotNeeded, SlotFilled
  <2>3. \A x \in Ops, y \in {1, 2} :
          SlotFilled(m, r, With(did, op, k), x, y) <=>
            SlotFilled(m, r, did, x, y) \/ (x = op /\ y = 1)
    BY <1>3, <1>4, <1>6, <2>1 DEF SlotFilled
  <2> QED
    BY <2>2, <2>3
<1>7. CASE Kind(m, r) \notin {"single", "either"}
  <2>1. SlotNeeded(m, r, op, k) /\ ~ SlotFilled(m, r, did, op, k)
    BY <1>2, <1>4, <1>5, <1>7 DEF SlotNeeded, SlotFilled, Kind
  <2>2. \A x \in Ops, y \in {1, 2} :
          SlotFilled(m, r, With(did, op, k), x, y) <=>
            SlotFilled(m, r, did, x, y) \/ (x = op /\ y = k)
    BY <1>3, <1>7 DEF SlotFilled
  <2> QED
    BY <1>2, <2>1, <2>2
<1> QED
  BY <1>6, <1>7

LEMMA FilledIsNeeded ==
  ASSUME NEW m \in Mappings, NEW r, IsRequest(m, r), NEW st, NEW did, NEW doing,
         StatusOK(m, r, st, did, doing), NEW op \in Ops, NEW k, SlotFilled(m, r, did, op, k)
  PROVE  SlotNeeded(m, r, op, k)
<1>1. CASE Kind(m, r) \in {"single", "either"}
  BY <1>1 DEF SlotNeeded, SlotFilled
<1>2. CASE Kind(m, r) = "both"
  <2>1. did[Other(r.op)] = {} /\ r.op = Write
    BY <1>2 DEF StatusOK, Kind, IsRequest, Ops
  <2> QED
    BY <1>2, <2>1 DEF SlotNeeded, SlotFilled, Other, Ops, Read, Write
<1>3. CASE Kind(m, r) = "update"
  BY <1>3 DEF SlotNeeded
<1> QED
  BY <1>1, <1>2, <1>3 DEF Kind

LEMMA OverIsFilled ==
  ASSUME NEW m \in Mappings, NEW r, IsRequest(m, r), NEW st, NEW did, NEW doing,
         StatusOK(m, r, st, did, doing), Over(m, r, did),
         NEW op \in Ops, NEW k \in {1, 2}, SlotNeeded(m, r, op, k)
  PROVE  SlotFilled(m, r, did, op, k)
<1>1. CASE Kind(m, r) \in {"single", "either"}
  BY <1>1 DEF SlotNeeded, SlotFilled, Over
<1>2. CASE Kind(m, r) = "both"
  BY <1>2 DEF SlotNeeded, SlotFilled, Over
<1>3. CASE Kind(m, r) = "update"
  <2>1. did[Write] = {1, 2} /\ did[Read] = {1, 2}
    BY <1>3 DEF Over, StatusOK
  <2> QED
    BY <1>3, <2>1 DEF SlotFilled, Ops
<1> QED
  BY <1>1, <1>2, <1>3 DEF Kind

LEMMA FilledIsOver ==
  ASSUME NEW m \in Mappings, NEW r, IsRequest(m, r), NEW st, NEW did, NEW doing,
         StatusOK(m, r, st, did, doing),
         \A op \in Ops, k \in {1, 2} : SlotNeeded(m, r, op, k) => SlotFilled(m, r, did, op, k)
  PROVE  Over(m, r, did)
<1>1. r.op \in Ops /\ Write \in Ops /\ did[Write] \subseteq Shares(m)
  BY DEF IsRequest, Ops, StatusOK
<1>2. CASE Kind(m, r) \in {"single", "either"}
  <2>1. SlotNeeded(m, r, r.op, 1)
    BY <1>2 DEF SlotNeeded
  <2>2. SlotFilled(m, r, did, r.op, 1)
    BY <1>1, <2>1
  <2> QED
    BY <1>2, <2>2 DEF SlotFilled, Over
<1>3. CASE Kind(m, r) \notin {"single", "either"}
  <2>1. SlotNeeded(m, r, Write, 1) /\ SlotNeeded(m, r, Write, 2)
    BY <1>3 DEF SlotNeeded
  <2>2. SlotFilled(m, r, did, Write, 1) /\ SlotFilled(m, r, did, Write, 2)
    BY <1>1, <2>1
  <2>3. Shares(m) \subseteq {1, 2}
    BY DEF Shares
  <2> QED
    BY <1>1, <1>3, <2>2, <2>3 DEF SlotFilled, Over
<1> QED
  BY <1>2, <1>3
=============================================================================
