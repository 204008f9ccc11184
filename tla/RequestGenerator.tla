-------------------------- MODULE RequestGenerator --------------------------
(***************************************************************************)
(* The random requests of lecture-15/raid-graphics.py: the part of         *)
(* Raid.__init__ that draws block addresses until each disk in turn has    *)
(* got a request, and the assertion that finds a place for each.           *)
(*                                                                         *)
(* random() is any value, and so is the choice between a read and a write. *)
(* The option -B (balance) is left out: disk_min, computed from it, is     *)
(* never used.                                                             *)
(***************************************************************************)
EXTENDS RaidCanvas, FiniteSetsExt

CONSTANT Descs   \* command lines: [mapping] and -A [num, max, min]

ASSUME DescAssumption ==
  \A desc \in Descs :
    /\ desc.mapping \in {0, 1, 4, 5}
    /\ desc.num \in Nat
    /\ desc.max \in Nat \cup {-1}
    /\ desc.min \in Nat

VARIABLES
  mapping, num, req_max, req_min,   \* set at start
  max_given,       \* the -A maximum was not -1
  request_queue,   \* the requests generated, [op, addr]
  target_disk,     \* whose turn it is
  ctl

vars == <<mapping, num, req_max, req_min, max_given, request_queue, target_disk, ctl>>
inputVars == <<mapping, num, req_max, req_min, max_given>>

\* Mutant of effective_disk_count: RAID-4 is not told apart.
effective_disk_count_four == 4

effective_disk_count == IF mapping = 4 THEN 3 ELSE 4

Init ==
  \E desc \in Descs :
    /\ mapping = desc.mapping
    /\ num = desc.num
    /\ req_max = IF desc.max = -1 THEN BlockCount(desc.mapping) ELSE desc.max
    /\ req_min = desc.min
    /\ max_given = (desc.max # -1)
    /\ request_queue = <<>>
    /\ target_disk = 0
    /\ ctl = IF req_min >= req_max THEN "rejected" ELSE "generate"

Generating == ctl = "generate" /\ Len(request_queue) < num

\* Mutant of NextTurn: the turns do not start over.
NextTurnOnly(req) == target_disk + 1

\* Mutant of NextTurn: the turn stays with a disk that has got nothing.
NextTurnIfServed(req) ==
  IF req < req_min THEN target_disk
  ELSE IF target_disk + 1 = effective_disk_count THEN 0 ELSE target_disk + 1

\* The turn passes on at every address drawn for the disk, also at one below the
\* minimum, which is then not used.
NextTurn(req) == IF target_disk + 1 = effective_disk_count THEN 0 ELSE target_disk + 1

\* Mutant of Miss: a draw for another disk passes the turn on.
MissPasses(req) ==
  /\ Generating /\ req < req_max
  /\ req % effective_disk_count # target_disk
  /\ target_disk' = NextTurn(req)
  /\ UNCHANGED <<inputVars, request_queue, ctl>>

\* A draw for another disk is thrown away.
Miss(req) ==
  /\ Generating /\ req < req_max
  /\ req % effective_disk_count # target_disk
  /\ UNCHANGED vars

\* A draw for the disk whose turn it is.
Hit(req) ==
  /\ Generating /\ req < req_max
  /\ req % effective_disk_count = target_disk
  /\ target_disk' = NextTurn(req)
  /\ IF req >= req_min
       THEN \E op \in {Read, Write} :
              request_queue' = Append(request_queue, [op |-> op, addr |-> req])
       ELSE UNCHANGED request_queue
  /\ UNCHANGED <<inputVars, ctl>>

\* assert(logical < self.block_count), for each request.
Place ==
  /\ ctl = "generate" /\ Len(request_queue) = num
  /\ ctl' = IF \A i \in 1 .. num : request_queue[i].addr < BlockCount(mapping)
              THEN "ready" ELSE "failed"
  /\ UNCHANGED <<inputVars, request_queue, target_disk>>

\* What random() may draw, on any command line.
Addresses ==
  0 .. Max({BlockCount(desc.mapping) : desc \in Descs} \cup {desc.max : desc \in Descs}) - 1

Next == Place \/ \E req \in Addresses : Miss(req) \/ Hit(req)

Spec == Init /\ [][Next]_vars

\* A draw that makes a request.
Accept == \E req \in Addresses : req >= req_min /\ Hit(req)

\* random() goes on drawing addresses of the disk whose turn it is, and, time and
\* again, one that is not below the minimum.
FairSpec ==
  /\ Spec
  /\ WF_vars(Place)
  /\ WF_vars(\E req \in Addresses : Hit(req))
  /\ SF_vars(Accept)
-----------------------------------------------------------------------------
\* The type of every variable of the generator.
TypeOK ==
  /\ request_queue \in Seq([op : {Read, Write}, addr : req_min .. req_max - 1])
  /\ Len(request_queue) <= num
  /\ target_disk \in 0 .. effective_disk_count - 1
  /\ ctl \in {"rejected", "generate", "ready", "failed"}

\* The requests so far whose data is on disk d.
RequestsOf(d) ==
  {i \in DOMAIN request_queue : PhysDisks(mapping, request_queue[i].addr)[1] = d}

\* No data disk has two requests more than another.
Even ==
  LET data == {PhysDisks(mapping, a)[1] : a \in 0 .. BlockCount(mapping) - 1}
  IN \A d, e \in data : Cardinality(RequestsOf(d)) <= Cardinality(RequestsOf(e)) + 1

\* With no minimum address, the loop over target_disk balances the requests
\* over the data disks (pairs) at every moment, except on RAID-5, where the
\* address modulo four is not the disk.
BalancedFromZero == req_min = 0 /\ mapping # 5 => Even

\* Every request generated from the whole array (-A n,-1,m) passes the assertion
\* on its address and finds the block, and its copy or parity, drawn on the disks
\* and the row it goes to: no lookup of a block, a row or a rectangle fails, and
\* the head is sent towards the row where the I/O is to be done.
Placeable ==
  ~ max_given =>
    /\ ctl # "failed"
    /\ \A i \in DOMAIN request_queue : DrawnAsServed(mapping, request_queue[i].addr)

\* With fewer blocks than disks the turn of a disk without a block never ends:
\* no more requests are made than blocks lie between minimum and maximum.
Starves ==
  ctl # "rejected" /\ req_max < effective_disk_count
    => Len(request_queue) <= req_max - req_min

\* In every other case all the requests are made, however unlikely the minimum
\* makes that.
GeneratesAll ==
  ctl = "generate" /\ (req_max >= effective_disk_count \/ num <= req_max - req_min)
    ~> ctl \in {"ready", "failed"}

\* "balance across disks" (line 903): when all requests are made, the disks have
\* the same number of them, or one more.
Balanced == ctl = "ready" => Even
=============================================================================
