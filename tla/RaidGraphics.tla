---------------------------- MODULE RaidGraphics ----------------------------
(***************************************************************************)
(* The RAID simulator lecture-15/raid-graphics.py: the request queue, the  *)
(* scheduler GetNextIOs, the animation callback Animate with its clock,    *)
(* the statistics, and the keys s (Start), p (Pause) and q (Exit).  The    *)
(* program is single-threaded: a handler runs to its end before Tk         *)
(* delivers the next key or timer, and the steps of a handler are one      *)
(* iteration of its loop over the disks each.                              *)
(*                                                                         *)
(* Abstractions.  Drawing is left out.  Head positions are counted in      *)
(* pixels from the first row.  Disks and rows are numbered from 0 as in    *)
(* the code, requests from 1.                                              *)
(***************************************************************************)
EXTENDS RaidMapping, FiniteSets

CONSTANTS
  Inputs,      \* command lines: [mapping, addr (the queue), window, seek_speed]
  MaxStarts,   \* bound: how often s is pressed
  MaxPauses,   \* bound: how often p is pressed
  MaxTimer,    \* bound: the clock stops here (the code's runs on)
  QuitKey      \* whether q may be pressed

ASSUME InputAssumption ==
  /\ \A in \in Inputs :
       /\ in.mapping \in {0, 1, 4, 5}
       /\ in.addr \in Seq([op : {Read, Write}, addr : Nat])
       /\ in.window \in (Nat \ {0}) \cup {-1}
       /\ in.seek_speed \in {1, 2, 4, 5, 10, 20}
  /\ MaxStarts \in Nat
  /\ MaxPauses \in Nat
  /\ MaxTimer \in Nat
  /\ QuitKey \in BOOLEAN

VARIABLES
  mapping, request_queue, request_count_needed, seek_speed,   \* set at start
  window_option,     \* -w, set at start
  status,            \* status[i]: the status list of request i, one per disk
  disk_state, head, seek_delta, transfer_count,               \* per disk
  current_target, last_target, current_optype,                \* per disk
  count_reads, count_writes,                                  \* per disk, as shown
  request_queue_counts, start_time,                           \* per request
  request_count,     \* physical I/Os done
  logical_requests,  \* requests done
  window,            \* how much of the queue is scheduled (-1: all)
  latency_total,     \* ticks the requests done have taken
  timer,             \* ticks of the animation
  do_animate, is_done,
  callbacks,         \* Animate callbacks Tk has to deliver
  ctl,               \* what the running handler does next
  caller,            \* who called GetNextIOs: Start or Animate
  adisk, sdisk,      \* loop variable disk of Animate and of GetNextIOs
  starts, pauses,    \* keys pressed so far (bounded)
  ios,               \* history: ios[i] are the I/Os done for request i
  underway_ticks     \* history: at each tick, plus the requests underway

inputVars == <<mapping, request_queue, request_count_needed, seek_speed, window_option>>
motionVars == <<head, transfer_count>>
targetVars == <<seek_delta, current_target, last_target, current_optype,
                request_queue_counts, start_time>>
countVars == <<request_count, logical_requests, window, count_reads, count_writes,
               latency_total, ios>>
clockVars == <<timer, underway_ticks>>
guiVars == <<do_animate, is_done, callbacks>>
ctlVars == <<ctl, caller, adisk, sdisk>>
keyVars == <<starts, pauses>>
vars == <<inputVars, status, disk_state, motionVars, targetVars, countVars,
          clockVars, guiVars, ctlVars, keyVars>>

RowHeight == 20
NoRequest == 0

\* The states of a disk, and of one disk's share of a request.
DiskStates == {"NULL", "SEEK", "XFER"}
Statuses == {"NOT_STARTED", "DO_READ", "DO_WRITE", "PARITY_READ_PHASE_DONE",
             "PARITY_WRITE_PHASE_BEGIN", "DONE"}

-----------------------------------------------------------------------------
\* Raid.__init__.
Init ==
  \E in \in Inputs :
    /\ mapping = in.mapping
    /\ request_queue = Requests(in.mapping, in.addr)
    /\ request_count_needed = CountNeeded(in.mapping, in.addr)
    /\ seek_speed = in.seek_speed
    /\ window_option = in.window
    /\ window = in.window
    /\ status = [i \in DOMAIN in.addr |->
                   [k \in DOMAIN PhysDisks(in.mapping, in.addr[i].addr) |-> "NOT_STARTED"]]
    /\ disk_state = [d \in DiskIds |-> "NULL"]
    /\ head = [d \in DiskIds |-> 0]
    /\ seek_delta = [d \in DiskIds |-> 0]
    /\ transfer_count = [d \in DiskIds |-> -1]
    /\ current_target = [d \in DiskIds |-> NoRequest]
    /\ last_target = [d \in DiskIds |-> NoRequest]
    /\ current_optype = [d \in DiskIds |-> "none"]
    /\ count_reads = [d \in DiskIds |-> 0]
    /\ count_writes = [d \in DiskIds |-> 0]
    /\ request_queue_counts = [i \in DOMAIN in.addr |-> 0]
    /\ start_time = [i \in DOMAIN in.addr |-> -1]
    /\ request_count = 0
    /\ logical_requests = 0
    /\ latency_total = 0
    /\ timer = 0
    /\ underway_ticks = 0
    /\ do_animate = TRUE
    /\ is_done = FALSE
    /\ callbacks = 0
    /\ ctl = "none"
    /\ caller = "Start"
    /\ adisk = 0
    /\ sdisk = 0
    /\ starts = 0
    /\ pauses = 0
    /\ ios = [i \in DOMAIN in.addr |-> {}]

-----------------------------------------------------------------------------
Queue == DOMAIN request_queue

\* The physical I/Os request i stands for.
Job(i) ==
  LET r == request_queue[i]
      all == {r.disks[k] : k \in DOMAIN r.disks}
      data == {r.disks[1]}
  IN CASE r.op = Read /\ mapping = 1 -> [reads |-> all, writes |-> {}, any |-> TRUE]
       [] r.op = Read /\ mapping # 1 -> [reads |-> data, writes |-> {}, any |-> FALSE]
       [] r.op = Write /\ mapping \in {0, 1} -> [reads |-> {}, writes |-> all, any |-> FALSE]
       [] r.op = Write /\ mapping \in {4, 5} /\ r.full_stripe_write ->
            [reads |-> {}, any |-> FALSE,
             writes |-> IF r.full_stripe_write_parity THEN all ELSE data]
       [] OTHER -> [reads |-> all, writes |-> all, any |-> FALSE]

\* Between the decision to start an I/O and its last tick, a disk serves it.
Serving(d) == IF disk_state[d] = "NULL" THEN <<"idle">>
                                        ELSE <<current_target[d], current_optype[d]>>

\* The abstract array of RaidIO, as this simulator carries it out.
Array == INSTANCE RaidIO WITH
  Disks     <- DiskIds,
  jobs      <- [i \in Queue |-> Job(i)],
  serving   <- [d \in DiskIds |-> Serving(d)],
  performed <- ios,
  finished  <- logical_requests

\* The requests whose first I/O has started and whose last is not done.
Underway ==
  {i \in Queue : start_time[i] # -1 /\ ~ Array!Complete(Job(i), ios[i])}

-----------------------------------------------------------------------------
(***************************************************************************)
(* The schedulers.  Each yields the I/Os it would start for request r with *)
(* status st on disk d: none, or one [op, status] with the new status.     *)
(***************************************************************************)
\* The position of disk d in the disk list of r, if its status is one of S.
Positions(r, st, d, S) == {k \in DOMAIN r.disks : r.disks[k] = d /\ st[k] \in S}

DoStripeScheduling(r, st, d) ==
  {[op |-> r.op, status |-> <<IF r.op = Read THEN "DO_READ" ELSE "DO_WRITE">>] :
     k \in Positions(r, st, d, {"NOT_STARTED"})}

DoMirrorScheduling(r, st, d) ==
  {[op |-> r.op,
    status |-> IF r.op = Read
                 THEN [st EXCEPT ![k] = "DO_READ", ![3 - k] = "DONE"]
                 ELSE [st EXCEPT ![k] = "DO_WRITE"]] :
     k \in Positions(r, st, d, {"NOT_STARTED"})}

ParityRead(r, st, d) ==
  {[op |-> Read, status |-> [st EXCEPT ![k] = "DO_READ"]] :
     k \in Positions(r, st, d, {"NOT_STARTED"}) \ {2}}

\* A full-stripe write turns off the I/O of its other disk unless it carries
\* the parity.
FullStripeWrite(r, st, d) ==
  {[op |-> Write,
    status |-> IF r.full_stripe_write_parity
                 THEN [st EXCEPT ![k] = "DO_WRITE"]
                 ELSE [st EXCEPT ![k] = "DO_WRITE", ![3 - k] = "DONE"]] :
     k \in Positions(r, st, d, {"NOT_STARTED"})}

\* Subtractive parity: read old data and old parity, then write both.
SmallWrite(r, st, d) ==
  {[op |-> Read, status |-> [st EXCEPT ![k] = "DO_READ"]] :
     k \in Positions(r, st, d, {"NOT_STARTED"})}
  \cup
  {[op |-> Write, status |-> [st EXCEPT ![k] = "DO_WRITE"]] :
     k \in Positions(r, st, d, {"PARITY_WRITE_PHASE_BEGIN"})}

DoRaid4Scheduling(r, st, d) ==
  IF r.op = Read THEN ParityRead(r, st, d)
  ELSE IF r.full_stripe_write THEN FullStripeWrite(r, st, d) ELSE SmallWrite(r, st, d)

\* RAID-5 does not detect full stripes.
DoRaid5Scheduling(r, st, d) ==
  IF r.op = Read THEN ParityRead(r, st, d) ELSE SmallWrite(r, st, d)

\* What request i offers to an idle disk d.
Offers(i, d) ==
  CASE mapping = 0 -> DoStripeScheduling(request_queue[i], status[i], d)
    [] mapping = 1 -> DoMirrorScheduling(request_queue[i], status[i], d)
    [] mapping = 4 -> DoRaid4Scheduling(request_queue[i], status[i], d)
    [] mapping = 5 -> DoRaid5Scheduling(request_queue[i], status[i], d)

\* The requests disk d could start now, within the scheduling window.
Startable(d) ==
  {i \in DOMAIN request_queue : (window = -1 \/ i <= window) /\ Offers(i, d) # {}}

\* Mutant of NextRequest: the last request instead of the first.
NextRequestLast(d) == CHOOSE i \in Startable(d) : \A j \in Startable(d) : i >= j

\* The request the loop over the queue starts on disk d.
NextRequest(d) == CHOOSE i \in Startable(d) : \A j \in Startable(d) : i <= j

-----------------------------------------------------------------------------
(***************************************************************************)
(* The completions: the new status of request r when disk position k has   *)
(* finished its I/O, and whether the whole request is done.                *)
(***************************************************************************)
RequestLevel0Done(r, st, k) == [status |-> [st EXCEPT ![k] = "DONE"], done |-> TRUE]

\* Mutant of RequestLevel1Done: a write is done with its first copy.
RequestLevel1DoneFirst(r, st, k) == [status |-> [st EXCEPT ![k] = "DONE"], done |-> TRUE]

RequestLevel1Done(r, st, k) ==
  [status |-> [st EXCEPT ![k] = "DONE"],
   done   |-> st[k] = "DO_READ" \/ st[3 - k] = "DONE"]

\* Mutant of RequestLevel4Done: the write of a disk waits for its own read only.
RequestLevel4DoneEager(r, st, k) ==
  LET advanced ==
        [st EXCEPT ![k] = CASE @ = "DO_READ" -> "PARITY_WRITE_PHASE_BEGIN"
                            [] @ = "DO_WRITE" -> "DONE"
                            [] OTHER -> @]
  IN IF r.op = Read THEN [status |-> st, done |-> TRUE]
     ELSE [status |-> advanced, done |-> \A j \in 1 .. 2 : advanced[j] = "DONE"]

\* The status of a share of a parity update when its I/O is over.
Advanced(s) == CASE s = "DO_READ" -> "PARITY_READ_PHASE_DONE"
                 [] s = "DO_WRITE" -> "DONE"
                 [] OTHER -> s

RequestLevel4Done(r, st, k) ==
  LET advanced == [st EXCEPT ![k] = Advanced(@)]
  IN IF r.op = Read THEN [status |-> st, done |-> TRUE]
     ELSE IF \A j \in 1 .. 2 : advanced[j] = "PARITY_READ_PHASE_DONE"
     THEN [status |-> [j \in 1 .. 2 |-> "PARITY_WRITE_PHASE_BEGIN"], done |-> FALSE]
     ELSE [status |-> advanced, done |-> \A j \in 1 .. 2 : advanced[j] = "DONE"]

Completion(i, d) ==
  LET r == request_queue[i]
      k == CHOOSE k \in DOMAIN r.disks : r.disks[k] = d
  IN CASE mapping = 0 -> RequestLevel0Done(r, status[i], k)
       [] mapping = 1 -> RequestLevel1Done(r, status[i], k)
       [] mapping \in {4, 5} -> RequestLevel4Done(r, status[i], k)

-----------------------------------------------------------------------------
\* Key s: Start calls GetNextIOs, then Animate.
Start ==
  /\ ctl = "none"
  /\ starts < MaxStarts
  /\ starts' = starts + 1
  /\ ctl' = "check"
  /\ caller' = "Start"
  /\ UNCHANGED <<inputVars, clockVars, status, disk_state, motionVars, targetVars, countVars,
                 guiVars, adisk, sdisk, pauses>>

\* Key p.
Pause ==
  /\ ctl = "none"
  /\ pauses < MaxPauses
  /\ pauses' = pauses + 1
  /\ do_animate' = ~ do_animate
  /\ UNCHANGED <<inputVars, clockVars, status, disk_state, motionVars, targetVars, countVars,
                 is_done, callbacks, ctlVars, starts>>

\* Key q.
Exit ==
  /\ ctl = "none" /\ QuitKey
  /\ ctl' = "exited"
  /\ UNCHANGED <<inputVars, status, disk_state, motionVars, targetVars, countVars,
                 clockVars, guiVars, caller, adisk, sdisk, keyVars>>

\* GetNextIOs returns to its caller: Start calls Animate, Animate goes on to the
\* next disk of its loop.
ReturnFromGetNextIOs ==
  IF caller = "Start"
    THEN ctl' = "enter" /\ UNCHANGED adisk
    ELSE ctl' = "animate" /\ adisk' = adisk + 1

\* GetNextIOs, when every expected I/O is done.  PrintStats divides by the
\* number of finished requests: at zero the exception ends the handler.
CheckDone ==
  /\ ctl = "check"
  /\ request_count = request_count_needed
  /\ IF logical_requests = 0
       THEN ctl' = "none" /\ UNCHANGED <<do_animate, is_done, adisk>>
       ELSE /\ do_animate' = FALSE
            /\ is_done' = TRUE
            /\ ReturnFromGetNextIOs
  /\ UNCHANGED <<inputVars, status, disk_state, motionVars, targetVars, countVars,
                 clockVars, callbacks, caller, sdisk, keyVars>>

\* Mutant of FirstDisk: the disks the loop of Animate has passed are left out.
FirstDiskLater == adisk

\* for disk in range(self.disk_count)
FirstDisk == 0

CheckNotDone ==
  /\ ctl = "check"
  /\ request_count # request_count_needed
  /\ ctl' = "schedule"
  /\ sdisk' = FirstDisk
  /\ UNCHANGED <<inputVars, clockVars, status, disk_state, motionVars, targetVars, countVars,
                 guiVars, caller, adisk, keyVars>>

\* Mutant of SeekDirection: the comparison is the wrong way round.
SeekDirectionAway(d, i) ==
  IF head[d] > RowHeight * request_queue[i].offset THEN seek_speed ELSE - seek_speed

SeekDirection(d, i) ==
  IF head[d] < RowHeight * request_queue[i].offset THEN seek_speed ELSE - seek_speed

\* Mutant of MarkStart: every I/O of a request starts its time again.
MarkStartAgain(i) == start_time' = [start_time EXCEPT ![i] = timer]

MarkStart(i) ==
  start_time' = [start_time EXCEPT ![i] = IF @ = -1 THEN timer ELSE @]

\* MarkStart, StartRead, StartWrite and StartRequest for request i on disk d.
StartRequest(d, i, offer) ==
  /\ status' = [status EXCEPT ![i] = offer.status]
  /\ current_optype' = [current_optype EXCEPT ![d] = offer.op]
  /\ disk_state' = [disk_state EXCEPT ![d] = "SEEK"]
  /\ seek_delta' = [seek_delta EXCEPT ![d] = SeekDirection(d, i)]
  /\ last_target' = [last_target EXCEPT ![d] = current_target[d]]
  /\ current_target' = [current_target EXCEPT ![d] = i]
  /\ request_queue_counts' = [request_queue_counts EXCEPT ![i] = @ + 1]
  /\ MarkStart(i)

\* GetNextIOs, one iteration of the loop over the disks: an idle disk starts
\* the first request of the window that has something for it.
ScheduleDisk ==
  /\ ctl = "schedule"
  /\ IF disk_state[sdisk] = "NULL" /\ Startable(sdisk) # {}
       THEN \E offer \in Offers(NextRequest(sdisk), sdisk) :
              StartRequest(sdisk, NextRequest(sdisk), offer)
       ELSE UNCHANGED <<status, disk_state, targetVars>>
  /\ IF sdisk < disk_count - 1
       THEN sdisk' = sdisk + 1 /\ UNCHANGED <<ctl, adisk>>
       ELSE ReturnFromGetNextIOs /\ UNCHANGED sdisk
  /\ UNCHANGED <<inputVars, motionVars, countVars, clockVars, guiVars, caller, keyVars>>

-----------------------------------------------------------------------------
\* Tk delivers an Animate callback.
Tick ==
  /\ ctl = "none"
  /\ callbacks > 0
  /\ callbacks' = callbacks - 1
  /\ ctl' = "enter"
  /\ UNCHANGED <<inputVars, status, disk_state, motionVars, targetVars, countVars,
                 clockVars, do_animate, is_done, caller, adisk, sdisk, keyVars>>

\* Mutant of AskAgain: a paused Animate returns without asking again.
AskAgainNever == callbacks

AskAgain == callbacks + 1

\* Animate, paused or done, only asks to be called again.
AnimatePaused ==
  /\ ctl = "enter" /\ ~ do_animate
  /\ callbacks' = AskAgain
  /\ ctl' = "none"
  /\ UNCHANGED <<inputVars, status, disk_state, motionVars, targetVars, countVars,
                 clockVars, do_animate, is_done, caller, adisk, sdisk, keyVars>>

\* Animate: the clock advances, then come the disks.
AdvanceClock ==
  /\ ctl = "enter" /\ do_animate
  /\ IF timer < MaxTimer
       THEN timer' = timer + 1 /\ underway_ticks' = underway_ticks + Cardinality(Underway)
       ELSE UNCHANGED clockVars
  /\ ctl' = "animate"
  /\ adisk' = 0
  /\ UNCHANGED <<inputVars, status, disk_state, motionVars, targetVars, countVars,
                 guiVars, caller, sdisk, keyVars>>

OnTarget(d) == head[d] = RowHeight * request_queue[current_target[d]].offset

\* StartTransfer: a block right behind the last one transfers in 1 tick, any
\* other in 10.
TransferTime(d) ==
  LET last == IF last_target[d] = NoRequest THEN -1
                                            ELSE request_queue[last_target[d]].offset
  IN IF request_queue[current_target[d]].offset = last + 1 THEN 1 ELSE 10

\* The ticks disk d still transfers, this one included.
TicksLeft(d) ==
  CASE disk_state[d] = "XFER" -> transfer_count[d]
    [] disk_state[d] = "SEEK" /\ OnTarget(d) -> TransferTime(d)
    [] OTHER -> 2

NextDisk == adisk' = adisk + 1 /\ UNCHANGED <<ctl, caller, sdisk>>

IdleDisk ==
  /\ ctl = "animate" /\ adisk < disk_count
  /\ disk_state[adisk] = "NULL"
  /\ NextDisk
  /\ UNCHANGED <<inputVars, clockVars, status, disk_state, motionVars, targetVars, countVars,
                 guiVars, keyVars>>

MoveHead ==
  /\ ctl = "animate" /\ adisk < disk_count
  /\ disk_state[adisk] = "SEEK" /\ ~ OnTarget(adisk)
  /\ head' = [head EXCEPT ![adisk] = @ + seek_delta[adisk]]
  /\ NextDisk
  /\ UNCHANGED <<inputVars, clockVars, status, disk_state, transfer_count, targetVars, countVars,
                 guiVars, keyVars>>

\* A disk that has arrived starts to transfer in the same tick.
Transfer ==
  /\ ctl = "animate" /\ adisk < disk_count
  /\ disk_state[adisk] = "XFER" \/ (disk_state[adisk] = "SEEK" /\ OnTarget(adisk))
  /\ TicksLeft(adisk) > 1
  /\ disk_state' = [disk_state EXCEPT ![adisk] = "XFER"]
  /\ transfer_count' = [transfer_count EXCEPT ![adisk] = TicksLeft(adisk) - 1]
  /\ NextDisk
  /\ UNCHANGED <<inputVars, clockVars, status, head, targetVars, countVars, guiVars, keyVars>>

\* Mutant of WindowAfter: the window grows with each I/O.
WindowAfterEachIO(done) == IF window > 0 THEN window + 1 ELSE window

\* MarkDone: a scheduling window grows by one with each request done.
WindowAfter(done) == IF done /\ window > 0 THEN window + 1 ELSE window

\* Mutant of CountIO: the request's type counts, not the type of the I/O.
CountIOByRequest(d) ==
  LET read == IF request_queue[current_target[d]].op = Read THEN 1 ELSE 0
  IN /\ count_reads' = [count_reads EXCEPT ![d] = @ + read]
     /\ count_writes' = [count_writes EXCEPT ![d] = @ + 1 - read]

\* UpdateReadCounter and UpdateWriteCounter.
CountIO(d) ==
  LET read == IF current_optype[d] = Read THEN 1 ELSE 0
  IN /\ count_reads' = [count_reads EXCEPT ![d] = @ + read]
     /\ count_writes' = [count_writes EXCEPT ![d] = @ + 1 - read]

\* The last tick of a transfer: MarkDone, then GetNextIOs for every disk.
FinishIO ==
  /\ ctl = "animate" /\ adisk < disk_count
  /\ disk_state[adisk] # "NULL"
  /\ TicksLeft(adisk) = 1
  /\ LET i == current_target[adisk]
         end == Completion(i, adisk)
     IN /\ status' = [status EXCEPT ![i] = end.status]
        /\ logical_requests' = logical_requests + (IF end.done THEN 1 ELSE 0)
        /\ latency_total' = latency_total + (IF end.done THEN timer - start_time[i] ELSE 0)
        /\ window' = WindowAfter(end.done)
        /\ ios' = [ios EXCEPT ![i] = @ \cup {<<current_optype[adisk], adisk>>}]
  /\ CountIO(adisk)
  /\ transfer_count' = [transfer_count EXCEPT ![adisk] = 0]
  /\ request_count' = request_count + 1
  /\ disk_state' = [disk_state EXCEPT ![adisk] = "NULL"]
  /\ ctl' = "check"
  /\ caller' = "Animate"
  /\ UNCHANGED <<inputVars, clockVars, head, targetVars, guiVars, adisk, sdisk, keyVars>>

\* Mutant of KeepGoing: Animate stops while no head moves.
KeepGoingInMotion ==
  IF \E d \in DiskIds : disk_state[d] = "SEEK" THEN callbacks + 1 ELSE callbacks

\* "make sure to keep the animation going!" (line 877)
KeepGoing == callbacks + 1

EndAnimate ==
  /\ ctl = "animate" /\ adisk = disk_count
  /\ callbacks' = KeepGoing
  /\ ctl' = "none"
  /\ UNCHANGED <<inputVars, clockVars, status, disk_state, motionVars, targetVars, countVars,
                 do_animate, is_done, caller, adisk, sdisk, keyVars>>

HandlerStep ==
  CheckDone \/ CheckNotDone \/ ScheduleDisk \/ AnimatePaused \/ AdvanceClock
    \/ IdleDisk \/ MoveHead \/ Transfer \/ FinishIO \/ EndAnimate

Next == Start \/ Pause \/ Exit \/ Tick \/ HandlerStep

Spec == Init /\ [][Next]_vars

\* Tk delivers its timers, and handlers run to their end.  Nobody has to press
\* a key.
FairSpec == Spec /\ WF_vars(Tick) /\ WF_vars(HandlerStep)
-----------------------------------------------------------------------------
(***************************************************************************)
(* Properties.                                                             *)
(***************************************************************************)
\* The simulator carries out, for each request, the physical I/Os its RAID level
\* calls for, each once, the writes of a parity update after both its reads,
\* and counts the request as done with its last I/O.
ImplementsRaidIO == Array!Spec

\* The type of every variable of the simulator.
TypeOK ==
  /\ \A i \in Queue :
       /\ request_queue[i].disks \in Seq(DiskIds)
       /\ status[i] \in [DOMAIN request_queue[i].disks -> Statuses]
       /\ ios[i] \subseteq {Read, Write} \X DiskIds
  /\ disk_state \in [DiskIds -> DiskStates]
  /\ head \in [DiskIds -> Nat]
  /\ seek_delta \in [DiskIds -> Int]
  /\ transfer_count \in [DiskIds -> -1 .. 10]
  /\ current_target \in [DiskIds -> Queue \cup {NoRequest}]
  /\ last_target \in [DiskIds -> Queue \cup {NoRequest}]
  /\ current_optype \in [DiskIds -> {Read, Write, "none"}]
  /\ count_reads \in [DiskIds -> Nat] /\ count_writes \in [DiskIds -> Nat]
  /\ request_queue_counts \in [Queue -> Nat]
  /\ start_time \in [Queue -> -1 .. MaxTimer]
  /\ latency_total \in Nat /\ timer \in 0 .. MaxTimer /\ underway_ticks \in Nat
  /\ request_count \in Nat /\ logical_requests \in 0 .. Len(request_queue)
  /\ window \in Nat \cup {-1}
  /\ do_animate \in BOOLEAN /\ is_done \in BOOLEAN
  /\ callbacks \in 0 .. starts
  /\ ctl \in {"none", "enter", "check", "schedule", "animate", "exited"}
  /\ adisk \in 0 .. disk_count /\ sdisk \in DiskIds

\* "check if done": the simulator declares itself done only when every request
\* has all its I/Os, every completion was counted and no disk is at work.
DoneIsReal ==
  is_done => /\ \A i \in Queue : Array!Complete(Job(i), ios[i])
             /\ logical_requests = Len(request_queue)
             /\ \A d \in DiskIds : disk_state[d] = "NULL"

\* Two writes of one address reach each disk in the order of the queue, so the
\* later one stays (and on a mirror both copies end up the same); without
\* parity no read passes an earlier write of its address either.
WritesInOrder ==
  \A d \in DiskIds, i \in Queue :
    LET j == current_target[d]
    IN /\ disk_state[d] # "NULL" /\ i < j
       /\ request_queue[i].op = Write /\ request_queue[i].addr = request_queue[j].addr
       /\ current_optype[d] = Write \/ mapping \in {0, 1}
       /\ d \in Job(i).writes
       => <<Write, d>> \in ios[i]

\* Between two handlers no disk idles that could start a request of the window:
\* every completion that makes an I/O possible is followed by a GetNextIOs that
\* looks at all the disks, those the running loop has passed included.
NoIdleDisk ==
  ctl = "none" /\ callbacks > 0 =>
    \A d \in DiskIds : disk_state[d] = "NULL" => Startable(d) = {}

\* Each step of a seeking head brings it nearer to its row.
SeekApproaches ==
  [][\A d \in DiskIds :
       disk_state[d] = "SEEK" /\ head'[d] # head[d] =>
         LET row == RowHeight * request_queue[current_target[d]].offset
             far(y) == IF y < row THEN row - y ELSE y - row
         IN far(head'[d]) < far(head[d])]_vars

\* Once it is done, no key starts an I/O, changes a counter or undoes the end.
\* The clock is left out: p makes it run again.
StaysDone == [][is_done => is_done' /\ UNCHANGED <<disk_state, status, countVars>>]_vars

\* Once started, the simulation of a queue that is not empty gets done, unless
\* it is paused or ended.
EventuallyDone ==
  starts > 0 /\ request_queue # <<>> /\ do_animate
    ~> is_done \/ ~ do_animate \/ ctl = "exited"

\* The ticks the requests underway have taken so far.
TicksUnderway == UNION {{i} \X (start_time[i] .. timer - 1) : i \in Underway}

\* The average latency PrintStats reports is the one Little's law gives: the
\* latencies summed up, with the time the requests underway have already taken,
\* are the requests underway at each tick summed up over the ticks.
LatencyAccounted == latency_total + Cardinality(TicksUnderway) = underway_ticks

\* "Size of scheduling window" (line 906): the window grows, but what it lets
\* through at a time does not.  No more requests are underway than -w asks for;
\* with -w 1 no parity update overlaps another.
AtMostWindow == window_option > 0 => Cardinality(Underway) <= window_option

\* The numbers shown beside the disks and in the queue are the I/Os done and
\* started, each counted once and under what the disk did.
CountersShown ==
  /\ \A d \in DiskIds :
       /\ count_reads[d] = Cardinality({i \in Queue : <<Read, d>> \in ios[i]})
       /\ count_writes[d] = Cardinality({i \in Queue : <<Write, d>> \in ios[i]})
  /\ \A i \in Queue :
       request_queue_counts[i] =
         Cardinality(ios[i])
         + Cardinality({d \in DiskIds : disk_state[d] # "NULL" /\ current_target[d] = i})

\* "turn off both reads and write to parity disk" (line 677): only the request
\* that carries the parity of a full stripe uses the parity disk.
FullStripeSkipsParity ==
  \A d \in DiskIds :
    disk_state[d] # "NULL" =>
      LET r == request_queue[current_target[d]]
      IN r.full_stripe_write /\ d = r.disks[2] => r.full_stripe_write_parity
=============================================================================
