------------------------------- MODULE RaidIO -------------------------------
(***************************************************************************)
(* What lecture-15/raid-graphics.py promises of every logical request,     *)
(* whatever the RAID level, the scheduling and the timing: the physical    *)
(* reads and writes it amounts to, each done once, the writes of a parity  *)
(* update only after both of its reads, and one completion per request,    *)
(* with its last I/O.                                                      *)
(*                                                                         *)
(* A job is a record: the disks to read and the disks to write; any is     *)
(* TRUE for a mirrored read, which needs only one of its reads.            *)
(***************************************************************************)
EXTENDS Integers, FiniteSets

CONSTANT Disks        \* the disks of the array

VARIABLES
  jobs,        \* the jobs, a function that never changes
  serving,     \* serving[d]: the I/O disk d is working on, or Idle
  performed,   \* performed[j]: the I/Os <<op, disk>> of job j that are over
  finished     \* how many completions were counted

ioVars == <<jobs, serving, performed, finished>>

Read == "read"
Write == "write"
Idle == <<"idle">>

IOs(job) == ({Read} \X job.reads) \cup ({Write} \X job.writes)

\* The I/Os of job j under way.
Underway(j) == {io \in {Read, Write} \X Disks : serving[io[2]] = <<j, io[1]>>}

Begun(j) == performed[j] \cup Underway(j)

\* Job j still needs the read or write op of disk d, and may start it now.
Wants(j, op, d) ==
  /\ <<op, d>> \in IOs(jobs[j]) \ Begun(j)
  /\ jobs[j].any => Begun(j) = {}
  /\ op = Write => {Read} \X jobs[j].reads \subseteq performed[j]

Complete(job, ios) == IF job.any THEN ios # {} ELSE ios = IOs(job)

IsJob(job) ==
  /\ job = [reads |-> job.reads, writes |-> job.writes, any |-> job.any]
  /\ job.reads \subseteq Disks /\ job.writes \subseteq Disks
  /\ job.any \in BOOLEAN
  /\ job.any => job.writes = {}
  /\ job.reads \cup job.writes # {}

Init ==
  /\ \A j \in DOMAIN jobs : IsJob(jobs[j])
  /\ serving = [d \in Disks |-> Idle]
  /\ performed = [j \in DOMAIN jobs |-> {}]
  /\ finished = 0

Start(j, op, d) ==
  /\ serving[d] = Idle
  /\ Wants(j, op, d)
  /\ serving' = [serving EXCEPT ![d] = <<j, op>>]
  /\ UNCHANGED <<jobs, performed, finished>>

Finish(j, op, d) ==
  /\ serving[d] = <<j, op>>
  /\ serving' = [serving EXCEPT ![d] = Idle]
  /\ performed' = [performed EXCEPT ![j] = @ \cup {<<op, d>>}]
  /\ finished' = finished + (IF Complete(jobs[j], performed'[j]) THEN 1 ELSE 0)
  /\ UNCHANGED jobs

Next ==
  \E j \in DOMAIN jobs, op \in {Read, Write}, d \in Disks :
    Start(j, op, d) \/ Finish(j, op, d)

Spec == Init /\ [][Next]_ioVars
-----------------------------------------------------------------------------
\* A job does nothing but its I/Os, none twice and no write before all its reads; one
\* that needs one of its reads makes one.
Keeps(job, ios, underway) ==
  /\ ios \cup underway \subseteq IOs(job) /\ ios \cap underway = {}
  /\ \A d \in Disks :
       <<Write, d>> \in ios \cup underway => {Read} \X job.reads \subseteq ios
  /\ job.any => \A a, b \in ios \cup underway : a = b

Promise == \A j \in DOMAIN jobs : Keeps(jobs[j], performed[j], Underway(j))
=============================================================================
