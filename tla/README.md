# A verification development for cs537-Discussion-su22

The repository is the material of an operating-systems discussion section: small
C programs on processes, threads and file systems, and two Python simulators of
RAID arrays.  This directory holds TLA+ models of the parts with behaviour worth
checking, the TLC runs that check them, and TLAPS proofs.

Paths below are relative to the repository (`src/`).

## 1. Inventory

| Component | State | Operations | Hard behaviours |
|---|---|---|---|
| producer/consumer, `week-9/pc.c` | ring `buffer`, `fill_ptr`, `use_ptr`, `num_full`; mutex `m`; condition variables `empty`, `fill`; `tmp` of each consumer | `producer`, `consumer`, `do_fill`, `do_get`, `main` (create, join) | interleaving of any number of threads; signals that reach at most one sleeper or nobody; spurious wake-ups; end markers that share the ring with data; threads created late |
| RAID animation, `lecture-15/raid-graphics.py` | request queue with a status per request and disk; per disk: state, head position, target, transfer count; counters of finished I/Os and requests; clock and latencies; window; Tk callbacks | `Raid.__init__` (random requests included), `GetNextIOs` and the four schedulers, `Request.RequestLevel{0,1,4}Done`, `MarkDone`, `Animate`, keys `s`, `p`, `q` | four disks that choose requests independently; multi-phase parity updates; end detection by an equality of counters; a handler that calls the scheduler in the middle of its loop; keys at any moment |
| RAID exercise, `lecture-15/raid.py` | per disk: position and queue of blocks; counters | `bmap`, `pmap` for the levels 0, 1, 4, 5 (two layouts), `enqueue`, `doPartialWrite`, `go` | modular arithmetic of the layouts; cutting a write into stripes; choosing between additive and subtractive parity |
| sequential MapReduce, `week-9/sequentual_mapreduce.c` | a growing array of key/value pairs, the position of the reducer | `MR_Emit`, `add_to_list`, `cmp`, `get_func`, `MR_Run` | growth exactly when full; one position shared by all reducers; progress of the reduce loop |
| thread examples, `week-7/t0.c`, `t0_cv.c`, `t1.c` | a shared counter; the thread's register | create, join, print, increment | lost updates; unordered output |
| processes, `week-3/mysh.c`, `fork_example.c`, `exec_example.c` | processes, descriptors, buffered output | fork, dup2, execv, wait | code after a failed exec; output order |
| ext2 readers, `week-10/*.c` | superblock, group descriptors, inodes, directory blocks | offsets, directory walk | offsets that depend on the block size; variable-length entries |
| small examples, `week-1`, `week-2`, `week-4` | a few locals | straight-line code | none |

How the parts interact: they are separate programs.  Inside `pc.c` the threads
interact through shared memory under `m` and through the two condition
variables.  Inside the animation the disks interact through the status lists of
the requests and through `GetNextIOs`, which is called from the key `s` and from
the loop of `Animate`; Tk delivers keys and timers one at a time.  The two RAID
simulators implement the same block maps and describe the same array from two
sides: one counts and times I/Os, the other lays out blocks and parity.

What makes each part correct:

* `pc.c`: every value is consumed once, in order; nobody sleeps on a condition
  that holds; each consumer gets one end marker; the program ends.
* animation: for each logical request exactly the physical I/Os its RAID level
  calls for, the writes of a parity update after both reads; conflicting
  requests in a safe order; no disk idle without reason; the end is noticed, and
  noticed only when everything is done.
* `raid.py`: no two blocks in one place, data never on the parity disk of its
  stripe, each write updates exactly the parity of its stripes.
* MapReduce: every value emitted reaches the reducer once, grouped by key.
* thread examples: main's lines enclose those of the threads; lost updates stay
  within their bounds.
* ext2: each structure is read from where ext2 puts it; the walk visits each
  entry of the block once, none is left out.

`PROJECT.json` lists the hazards line by line, each with the properties that
cover it, or with the reason why none does.

## 2. Modules

### Producer/consumer

| Module | Role |
|---|---|
| `BoundedChannel` | the abstract specification: a first-in first-out channel of capacity `max`, one sender, several receivers that stop at an end marker |
| `ProducerConsumer` | `pc.c` itself |
| `ProducerConsumerProofs` | the TLAPS proofs |

`ProducerConsumer` has one action per pthread call or critical-section access
and per thread: `Lock`, the test of the `while` loop with `Cond_wait` (`PTest`,
`CTest`), `PFill`/`CGet` (`do_fill`, `do_get`), `PSignal`/`CSignal`,
`PUnlock`/`CUnlock`, and `Create` and `Join` for `main`.  Between two of these
any other thread may run.  `pc[t]` is the place of thread `t`.  A thread woken
from `Cond_wait` has to take `m` again and then tests the condition again, which
is what a thread about to call `Mutex_lock` does, so both are at `"lock"`.
`Cond_wait` may also return without a signal (`SpuriousWake`, at most
`MaxSpurious` times).  The two loops of the producer execute the same statements
with different values and share their actions; `n` counts the rounds of both,
`Value(n)` is what the n-th round puts.

`BoundedChannel` sees only how many values were sent and received and what each
consumer received last.  The refinement maps `sent` to `Puts` (the rounds that
have passed `do_fill`) and `received` to `Puts - num_full`, so it says that the
ring, the pointers and the locking amount to a channel: the k-th value taken is
the k-th value put.

### RAID animation

| Module | Role |
|---|---|
| `RaidMapping` | pure operators of `Raid.__init__`: disks and rows of an address, full-stripe detection, the number of I/Os expected |
| `RaidShareProofs` | TLAPS proofs about the maps, and lemmas about status lists, shares of a request and counts that the next module needs |
| `RaidIO` | the abstract specification: jobs of reads and writes on disks, without levels, heads, transfers, windows, keys |
| `RaidGraphics` | the simulator: schedulers, completions, `GetNextIOs`, `Animate`, keys |
| `RaidGraphicsProofs` | the TLAPS proofs about the simulator, the refinement included |
| `MCRaidGraphics` | the request queues TLC runs |

A handler of Tk runs to its end before the next starts.  The model keeps that
and still cuts a handler into one step per iteration of its loop over the disks,
because the interesting order is inside: `FinishIO` (the last tick of a transfer)
calls `GetNextIOs`, which starts I/Os on disks the loop of `Animate` has passed
and on disks it will visit in the same tick.  `ctl` says what the running handler
does next (`"none"`: no handler runs), `caller` who called `GetNextIOs`, `adisk`
and `sdisk` are the two loop variables.

| Code | Actions |
|---|---|
| `Start`, key `s` | `Start`, then `CheckDone` or `CheckNotDone` and `ScheduleDisk` for each disk |
| `Pause`, key `p`; `Exit`, key `q` | `Pause`; `Exit` |
| `Animate`, from the timer | `Tick`, then `AnimatePaused` (which only asks to be called again) or `AdvanceClock`, then for each disk one of `IdleDisk`, `MoveHead`, `Transfer`, `FinishIO`, then `EndAnimate` |
| `MarkDone`, `RequestLevel*Done` | `Completion`, `CountIO`, `WindowAfter` inside `FinishIO` |
| `MarkStart` | `MarkStart` inside `StartRequest` |
| `GetNextIOs` | `CheckDone`, `CheckNotDone`, `ScheduleDisk` |
| `Do*Scheduling`, `StartRead`, `StartWrite`, `StartRequest` | `Offers` (what a request offers an idle disk) and `StartRequest` |

Times are exact: heads move by `seek_speed` pixels a tick over rows of 20
pixels, a transfer takes 1 tick right behind the last block and 10 otherwise.
The order of completions is therefore that of the program and not an arbitrary
one.  The variety comes from the inputs: `Init` picks a command line.

`ios` is a history variable: the physical I/Os that are over, per request;
`underway_ticks` another: the requests underway at each tick, added up.  The
refinement of `RaidIO` maps a disk that seeks or transfers to one that serves
(request, operation), and `logical_requests` to the completions counted.

| Module | Role |
|---|---|
| `RaidCanvas` | the array as it is drawn (lines 176-292): the number of blocks of each level, the disk and row of each rectangle |
| `RequestGenerator` | the part of `Raid.__init__` that makes the requests when no `-a` is given, up to the assertion on their addresses |
| `RequestGeneratorProofs` | the TLAPS proofs |
| `MCRequestGenerator` | the command lines TLC runs |

`random()` is any address.  One turn of the loop of line 354 is `Miss` (an address
of another disk: draw again) or `Hit` (an address of the disk whose turn it is,
used unless it is below the minimum); `Place` is the assertion.

### RAID exercise

| Module | Role |
|---|---|
| `RaidLayout` | `bmap`, `pmap` of `raid.py`: the places of data and parity on levels 0, 1, 4 and 5 (left-symmetric and left-asymmetric) |
| `RaidExercise` | the main loop, the physical I/Os of each request, the disks that time them |
| `RaidExerciseProofs` | TLAPS proofs about the layouts, then about the program |
| `MCRaidExercise` | the command lines TLC runs |

The layouts take the array as an argument, the record `g` of disks, chunk size,
level and RAID-5 type, so that one run covers many arrays and the theorems speak
of all of them (`Arrays`: those on which the program does not divide by zero).

| Code | Actions |
|---|---|
| one iteration of the loop over the requests, lines 430-441 | `Generate` (the block and the kind of request are any), ..., `EndRequest` |
| one iteration of the loop over the stripes of a write, line 340 | `WriteStripe`, with `doPartialWrite` |
| `doSingleRead`, `doSingleWrite`, `disk.enqueue` | `DoSingleIO`, which fails as the assertion of line 69 does |
| `raid.go` | `Go` |

`todo` holds the I/Os of the current request (of the current stripe, for a write
with parity) that are still to come.  `done` is a history variable: the I/Os the
request has made.  Times are in 0.1 ms, so that the transfer of a block takes 1
and a seek 100, and the arithmetic is exact.

### MapReduce

| Module | Role |
|---|---|
| `Grouping` | the abstract specification: a bag of pairs, handed out group by group, least key first |
| `MapReduce` | `sequentual_mapreduce.c`: list, sort, reduce loop |
| `MapReduceProofs`, `MCMapReduce` | the proofs; the jobs TLC runs |

The mapper and the reducer belong to the user.  A mapper emits the pairs of its
file, whatever they are.  A reducer asks for values of its own key: for `"all"`
of them, for `"some"` but at least one, or perhaps for `"none"`.  Each call it
makes of `get_func`, and its return, is a step.  `qsort` is not stable: `Sort`
chooses any order that is sorted by `cmp`.  The refinement maps the bag to the
elements from `kvl_counter` on and the group to the key of the running reducer;
it hides the list, its growth and the position.

### Thread examples

`ThreadExamples` is `t0.c`, `t0_cv.c` (which is the same program with two thread
functions) and `t1.c`; the constant `Programs` says which.  `counter = counter + 1`
on a volatile variable is `Load` and `Store`; the register between them belongs
to the thread.  `ThreadExamplesProofs` holds the proofs, `MCThreadExamples` the
programs TLC runs.

### ext2 readers

`Ext2List` is the four programs of week 10 as one that stops at the structure the
program prints: `ReadSuper`, `ReadGroup`, `ReadInode`, `ReadBlock`, then `Walk`
for each entry.  A disk is what a consistent file system holds: the logarithm of
its block size, the block of the inode table, the root inode, its first block as
a function from the offsets of entries to their headers.  `right` compares the
place a program reads from with the place ext2 uses (`Place`, `GroupPlace`).  If
they differ, or behind the block, the program finds anything (`Headers`), or
crashes (`Crash`).  `Ext2ListProofs` holds the proofs, `MCExt2List` the disks.

## 3. Runs

| Run | Configuration | States | Shows |
|---|---|---|---|
| `pc_readme` | `ProducerConsumer.cfg` | 39 000 | `./pc 2 5 3`, the command of `week-9/README.md` |
| `raid_all_mappings` | `RaidAllMappings.cfg` | 384 000 | about fourteen hundred queues on levels 0, 1, 4, 5 |
| `raid_keys` | `RaidKeys.cfg` | 285 000 | keys `s`, `p` and `q` at every moment |
| `raid_generator` | `RequestGenerator.cfg` | 73 000 | the random requests of 228 command lines |
| `raid_exercise` | `RaidExercise.cfg` | 368 000 | `raid.py` on thirty arrays, all levels |
| `mapreduce` | `MapReduce.cfg` | 12 000 | `MR_Run` on lists of up to five pairs |
| `threads` | `ThreadExamples.cfg` | 6 600 | `t0.c`; `t1.c` with loop counts 0 to 4 |
| `ext2_list` | `Ext2List.cfg` | 940 | the ext2 readers on 34 disks |
| `raid4_sequential_reads` | `RaidSequentialReads.cfg` | | a disagreement of code and comment, section 6 |
| `raid4_busy_data_disk` | `RaidBusyDataDisk.cfg` | | a disagreement of code and comment, section 6 |
| `raid_generator_balance` | `RequestGeneratorBalance.cfg` | | a disagreement of code and help text, section 6 |
| `raid_exercise_last_block` | `RaidLastBlock.cfg` | | a disagreement of the options and an assertion, section 6 |

**`pc_readme`.**  Three consumers, a ring of two slots, five values: the ring
wraps, is full and is empty; more consumers than slots, so several sleep at once
and a signal has to choose; more markers than slots, so the producer sleeps in
its second loop too; one spurious wake-up at any moment.

* `RingFIFO`: the ring holds exactly what was put and not taken, in order.
* `NoLostWakeup`: a thread sleeps only while the wake-up it needs is still to
  come.  For consumers this is a counting argument: each value in the ring has
  an awake consumer of its own, or is the value about to be signalled.
* `MarkerAccounting`, `CleanExit`: one marker per consumer; nothing is left over.
* `Termination`: `main` joins every thread.
* `ImplementsChannel`: the refinement of `BoundedChannel`.

**`raid_all_mappings`.**  All queues of three requests over two or three
addresses (one row and the next, one disk and its neighbour in the stripe), on
each level, with the window open and closed, on levels 4 and 5 with `-w 1` and
`-w 2`; the twenty writes of
`lecture-15/example-parity-sequential-write.sh` (six full stripes and two
writes left over); a longer RAID-5 queue with a slow head and a window; the
empty queue.  Three requests are enough for the interactions the schedulers
have: one request that holds a disk, one that waits for it, one that overtakes.

* `ImplementsRaidIO`: each request has exactly the I/Os of its level, each once,
  parity writes after both reads, one completion with the last I/O.
* `WritesInOrder`: two writes of one address reach each disk in queue order, and
  on levels 0 and 1 no read passes an earlier write of its address.
* `NoIdleDisk`: when no handler runs, no disk idles that could start something.
* `DoneIsReal`, `EventuallyDone`: `is_done` is reached, and only when all is done.
* `SeekApproaches`: each step of a head brings it nearer to its row.
* `LatencyAccounted`: the latencies added up, with the age of the requests
  underway, are the requests underway at each tick added up (Little's law), so
  no I/O of a request restarts its clock and none is counted twice.
* `AtMostWindow`: a window of `w` lets at most `w` requests be underway, although
  it grows with each completion.  In particular `-w 1` keeps parity updates
  apart: the queues of small writes on levels 4 and 5 are run with it.
* `CountersShown`: the counters beside the disks are the reads and writes done.

Two kinds of RAID-4 queues are not in this run (its small queues have no three
consecutive addresses, and its twenty writes begin with full stripes):

* three consecutive requests that *look* like a full stripe without being one, and
  a full stripe whose data disk is busy: the subject of the two violation runs;
* a genuine full stripe that follows small writes.  `WritesInOrder` is false for
  it: with `-m 4 -a w0,w4,w8,w0,w1,w2` and an open window the small write of block
  0 has read the old data and waits for the old parity when disk 0 takes the
  stripe's write of block 0; the small write comes later and its value stays.  So
  this run shows the order of writes for queues without such a stripe, and the
  theorems `WritesOrdered` and `WritesOneAtATime` state it for queues without a full
  stripe and for `-w 1`.

**`raid_keys`.**  `s` and `p` pressed up to twice each at any moment between two
handlers: before the start, during the run, after the end.  A second `s` starts a
second chain of callbacks, so the animation runs at twice the speed, clock and all:
`LatencyAccounted` holds there too.  `q` ends the program.
`StaysDone` says that no key after the end starts an I/O, changes a counter or undoes
the end (`p` does make the clock run again).

**`raid_exercise`.**  Arrays of one to four disks with chunks of one to three
blocks.  Requests of 0 to 9 blocks, that is from nothing to one stripe
and a half of the widest array, begin at each of the first eight blocks, so that
they lie across the stripes in every way; others begin tracks apart or at the
last block of the array; sequential workloads follow one another.  Two requests,
because the heads of the disks stay where the first one leaves them.

* `WritesExact`: a write reaches every block it names (both copies on level 1)
  and the parity of every row it touches, each once, and nothing else.
* `ReadsExact`: a read fetches each of its blocks once, from one of its places.
* `ParityComputable`: whatever parity is written can be computed from what was
  read before, and what was read was not overwritten first.  The choice between
  additive and subtractive parity is made per stripe, so a write over several
  stripes mixes both.
* `FirstIOSeeks`: the first I/O of each disk is counted as random.
* `NearIsCheaper`: an I/O without a seek is not dearer than one with a seek, and
  the total time is at least that of each disk.

**`raid_generator`.**  All draws for requests of at most five, maxima of 1 to 6
(fewer blocks than disks, as many, more), minima below and above them, and the
whole array with a minimum that leaves one turn or two.

* `BalancedFromZero`: with no minimum no disk has two requests more than another,
  at any moment, on the levels where the address modulo the number of disks is
  the disk.  On RAID-5 it is not, so the turns balance nothing there (the option `-B`
  is read, but the value computed from it is never used).
* `Placeable`: requests from the whole array never fail the assertion
  `logical < self.block_count` (with a maximum beyond the array, 81, it fails, as
  it should), and each goes to the disks and the row where its block, and the copy
  or the parity of the row, was drawn.  The code computes the layout twice, and the
  animation uses both: `SetSeekDirection` turns the head to the row where the block
  was drawn, `DoneWithSeek` waits for the row of the request.
* `Starves`, `GeneratesAll`: with fewer blocks than disks the loop of line 354
  waits for ever for an address that no disk has; in all other cases it ends,
  also when the minimum rejects most draws.

**`mapreduce`.**  A list of one slot (the code starts with ten), so that it grows
with the first pairs: all files of up to three pairs over two keys and two values,
two files, five pairs of three keys (the list doubles three times), an empty file and no file;
each with the three kinds of reducers.

* `TypeOK`: the slots are as many as were allocated, so no store is outside.
* `ImplementsGrouping`: each pair goes to a reducer of its key, once, least key
  first; what a reducer leaves is offered again.
* `KeyOnce`: a reducer that takes all values is called once for each key.
* `Finishes`: `MR_Run` returns unless a reducer takes nothing.

**`threads`.**  `CounterBounds`: at most `2 * max`, and from `max = 2` on at least
2: all updates but two can be lost.  Four rounds are enough for every
pattern of overlap of two threads; the theorem has no bound.  `MainBrackets`: the
joins keep main's last line behind those of the threads.

**`ext2_list`.**  Directories of two to four entries that fill the block, with a NULL entry
anywhere among them or none, of one or two blocks; one disk with
blocks of 2048 bytes; one without ext2.  `ListsDirectory`: with blocks of 1024
bytes every structure is found, and the walk, whose `size` is ahead of its place
by the difference of two entry lengths, neither skips an entry nor stops before
the end; a NULL entry stops it inside the block.  Without a NULL entry it reads a
header behind the block before it stops: the run shows that the entries listed are
right, not that the program survives.  The disk with 2048-byte blocks fires the
stray reads.

Deadlock is checked in `pc_readme` (`Exited` is the step of the finished
program) and in `raid_exercise` (`Stopped`).  It is not in the runs of the animation: before the first key and after the last
the program waits for its user, and in the model the keys are bounded.  The other
models stop where their programs do.

### Bounds

`MaxSpurious` (spurious wake-ups), `MaxStarts` and `MaxPauses` (keys), `MaxTimer`
(the clock, and with it the history of the latencies, stops there; the animation
goes on), the queues of `MCRaidGraphics`, the command lines of `MCRaidExercise`
with `numRequests`, the command lines, jobs, programs and disks of the other MC
modules, and the three arguments of `pc` are the only bounds.  The proofs remove
them from the safety properties of every program: they hold for all arguments of
`pc`, all queues and numbers of keys, all arrays, request sizes and jobs, and
whatever the value of the bounds named here.  For TLC, two presses of a key are
the smallest number with each effect: start, start again; pause, resume.

### Fairness

* `pc.c`: weak fairness for `main` and for each thread: the kernel schedules
  runnable threads, and a mutex that stays free is given to some thread that
  wants it.  No strong fairness: a thread may lose the race for `m` again and
  again, and `Termination` holds nonetheless because the others run out of work.
  Nothing obliges a condition variable to wake up spuriously.
* animation: weak fairness of `Tick` (Tk delivers its timers) and of
  `HandlerStep` (a handler runs to its end).  Nobody has to press a key, so
  `EventuallyDone` speaks of runs that were started and are not paused or ended.
* random requests: `random()` keeps drawing addresses of each disk (weak fairness
  of a hit, strong fairness of a hit that is not below the minimum, since the
  turns in between make it impossible for a while).  A fair random source has
  this property with probability one.
* MapReduce: one thread that runs on, weak fairness of `Next`; that covers the
  user's reducer, which returns when it has what it wants.

## 4. Proofs

Every safety property and every refinement of section 3 is a theorem, with no
bound on the constants.  What the proofs assume of the constants:

* `pc.c`: a ring of at least one slot and at least one consumer
  (`ParameterAssumption`);
* animation: any queue of reads and writes of any addresses, a window of `-1` or at
  least one request, a seek speed of the help text (those divide the 20 pixels of a
  row) (`InputAssumption`);
* `raid.py`: an array it accepts (`Arrays`), any number of disks, any chunk size,
  any block;
* MapReduce, generator, ext2: the shape of a job, a command line, a disk.

### Producer/consumer, `ProducerConsumerProofs`

| Theorem | Establishes |
|---|---|
| `TypeCorrect`, `Exclusion` | `[]TypeOK`; one thread at a time in the critical section |
| `RingCorrect` | `[]RingFIFO` |
| `Refinement` | `Spec => Channel!Spec` |
| `WakeupsArrive` | `[]NoLostWakeup` |
| `MarkersCorrect`, `ExitIsClean` | `[]MarkerAccounting`, `[]CleanExit` |
| `NeverStuck` | `[]CanGoOn`: until `main` has returned some thread can go on, without any spurious wake-up |
| `WorkShrinks` | every step leaves less of `Work`, a natural number |

1. `Control`, the inductive invariant: `TypeOK`; `MutexInv` (a thread is in the
   critical section exactly when it owns `m`); `AccessInv` (at `do_fill` the ring
   has room, at `do_get` it has a value); `RoundsInv`, `LifeInv`, `MarkerInv`
   (how the place of a thread relates to `n`, `created`, `joined`, `tmp`).
   `TypeOK` alone is not inductive: `num_full <= max` after `do_fill` needs
   `AccessInv`, and `AccessInv` survives the steps of other threads only by
   `MutexInv`.
2. `RingFIFO` is inductive relative to `Control`.  Slots are computed without
   `%` (`Slot(j)`): `use_ptr + j < 2 * max`, so one subtraction is enough and the
   arithmetic stays linear.
3. `Refinement`: with `RingFIFO`, the slot `do_get` reads holds `Value(Gets)`.
4. `NoLostWakeup` counts: a step that puts a value must leave an awake consumer
   for it.  Lemmas say how the sets of sleeping and of awake consumers, and their
   cardinalities, change in each kind of step; most steps are calm (they touch
   neither set nor `num_full`).
5. `MarkerAccounting` and `CleanExit` follow by the same counting of the
   consumers that hold a marker.
6. `NeverStuck` is what the invariants are for.  If no thread could go on, all
   would be asleep or done.  Then by `NoLostWakeup` a sleeping consumer means an
   empty ring, so the producer is not asleep but done; then by `MarkerAccounting`
   every consumer has its marker, and one that has it does not sleep.
7. `Work` counts what is left: 14 for each value to be put and 7 for each to be
   taken (a round and the wake-up it may cause, whose thread may find nothing and
   sleep again), the steps to the end of the critical section, 2 for each thread
   at `"lock"`, 3 for each thread to be created and 1 to be joined, 3 for each
   spurious wake-up still allowed.  No run is therefore longer than
   `14 * (loops + consumers) + 4 * (consumers + 1) + 3 * MaxSpurious` steps.

`NeverStuck` and `WorkShrinks` are what `Termination` needs besides fairness.

### RAID animation, `RaidShareProofs` and `RaidGraphicsProofs`

| Theorem | Establishes |
|---|---|
| `PlacementInjective` | on every level, different addresses have different (disk, row) |
| `SecondDiskApart` | the mirror or parity disk of a row holds no data block of that row |
| `InvAlways`, `TypeCorrect` | the inductive invariant; `[]TypeOK` |
| `HeadsApproach` | `SeekApproaches` |
| `CountersCorrect` | `[]CountersShown` |
| `ArrayImplemented` | `ImplementsRaidIO`, if `[]FullStripeSkipsParity` |
| `WindowKept`, `LatenciesAdd` | `[]AtMostWindow`, `[]LatencyAccounted`, if `[]FullStripeSkipsParity` |
| `DoneCorrect` | `[]DoneIsReal`, if `StripesAreWrites` and `[]FullStripeSkipsParity` |
| `DoneStays`, `NoDiskIdles` | `StaysDone`, `[]NoIdleDisk`, if `StripesAreWrites` |
| `WritesOrdered` | `[]WritesInOrder`, without a full stripe |
| `PromiseKept` | `[]Promise` (in `RaidIO`) and `[]CompletionsCounted`, if `[]FullStripeSkipsParity`: only the I/Os of the level, none twice, writes after both reads, one completion for each complete request |
| `NeverStalls` | `[]AtWork`, if `StripesAreWrites`: once started and until it is done, some disk works |
| `AnimationShrinks` | until it is done each step of a handler leaves less of a measure, if `StripesAreWrites` |
| `WithoutStripes`, `OneAtATime` | `[]FullStripeSkipsParity`: without a full stripe; with stripes of writes and `-w 1` |
| `ArrayWithoutStripes`, `WritesOneAtATime` | the refinement, and the order of writes, from these |
| `UntroubledRuns` | the conditional theorems, from a condition on the command line alone |

**The hypotheses.**  `StripesAreWrites` (a detected full stripe is one of writes)
and `FullStripeSkipsParity` (only the request that carries the parity of a full
stripe uses the parity disk) are what the code means and two findings of section 6
show it does not always do.  The theorems say that nothing else can go
wrong.  `StripesAreWrites` is a condition on the queue.  `[]FullStripeSkipsParity` is one on
the run, and it follows from the command line in three cases, which `Untroubled`
names: the level is not 4; no three requests in a row look like a full stripe; the
stripes are writes and the window is one request (`-w 1`).  `UntroubledRuns`
states the properties for these, so no theorem speaks of no run.
`WritesOrdered` excludes full stripes altogether with a reason: with the queue
`w0,w4,w8,w0,w1,w2` on `-m 4` and an open window, TLC shows the stripe's write of
block 0 overtaking the small write of block 0, which has read and not yet written.

**The invariant.**  `Inv` is the conjunction of

* `QueueInv`: what `Raid.__init__` sets, the disks and the row of each request and
  the full stripes;
* `ShareInv`: the status list of a request says which of its I/Os are over and
  which a disk is doing now, and every I/O in `ios` is on a disk of its request;
* `DiskInv`: a busy disk works for a request of the queue that has it among its
  disks;
* `HeadInv`: heads stand at multiples of the speed, and a seeking one moves towards
  its row; without it nothing keeps a head from passing its row;
* `TimeInv`: `start_time` is set exactly when a request has begun;
* `ControlInv`: which handler can be where, and that each comes from a key;
* `CountInv`: `logical_requests` counts the requests that are over, the window has
  grown by as many, and every request begun lies in it.

`TypeOK` is not inductive for the reason one expects: `MarkDone` sets a status by
the disk's position in the request, which must be there.

**The refinement.**  A step of the simulator changes what has been done for
requests only where an I/O starts (`Starts`) or ends (`FinishesShare`); all other
steps map to a stutter.  An I/O that starts was offered by its request: for each
level, the lemmas of `RaidShareProofs` say what status lists offer, that they
never offer an I/O that is done or underway, and a parity write only after both
reads; a completion is counted by `RequestLevel*Done` exactly when the last I/O of
the request is over.  `StripeInv` adds what a full-stripe write does without its
parity disk.

**The others** each add one invariant to `Inv`:

* `AtMostWindow` follows by counting: the requests begun lie in the window, which is
  `-w` larger than the requests that are over.
* `LatencyAccounted`: an action property of sums.  A tick of the clock adds one
  for each request underway to both sides; a completion moves the age of its
  request from one sum to the other.
* `EndInv`: `request_count_needed` is the number of (request, share, operation)
  slots a level calls for, and `request_count` the number filled.  When the counts
  are equal so are the sets, for the one contains the other.
* `IdleInv`: behind the scheduler's loop variable no idle disk has a request it
  could start, and nothing new becomes startable before the next completion, which
  calls the scheduler.
* `OrderInv`: of two requests for one address, what the later one has begun on a
  disk the earlier write is through with there.  It needs that the schedulers go
  through the queue from its head, and that a status that blocks a disk stays
  until the disk is done.
* `TurnInv`: with `-w 1` a request begins only when those before it are over.  So
  when the parity disk looks for work the data disk of the same request has been
  asked before and has taken it: the finding needs a second request.

* `Promise` is stated of the abstract array's variables and proved of the
  simulator's: the status list of a request bounds what it has done, and a status
  that allows a write is reached only when both reads are over.
* `AtWork`: suppose all four disks are idle.  The first request that is not over lies
  in the window, because those before it are over and the window has grown by as
  many; a request that is not over and that no disk works for has something for one
  of its disks (`IdleOffers`, level by level); so `IdleInv` is violated.  If all are
  over, the counts are equal, and by `NoticeInv` `GetNextIOs` has noticed.  This is why
  the program can rely on the end of an I/O alone to call the scheduler.
* `AnimationShrinks`: four natural numbers in lexicographic order.  An I/O that ends
  leaves fewer I/Os; one that starts, fewer idle disks; a tick of a busy disk
  less of its way and its transfer (`WayLeft`); every other step of a handler brings
  the next of these nearer (`StepsLeft`).  The last part is where `AtWork` is needed: the
  loop of `Animate` must come to a busy disk.  Keys `s` and `p`, and the callback by
  which a paused animation asks to be called again, leave the first three numbers
  alone.  With `LeftIsNat`, this is what `EventuallyDone` needs besides fairness.

### RAID exercise, `RaidExerciseProofs`

| Theorem | Establishes |
|---|---|
| `DiskExists` | `raid.py` names only disks the array has |
| `BlocksApart` | different blocks have different places |
| `CopiesApart` | level 1: no copy lies where a block or another copy does |
| `DataApartFromParity` | levels 4 and 5: no block is on the parity disk of its stripe (the assertion of line 272) |
| `OneLossPerRow` | levels 4 and 5: two blocks of one row are on different disks, so one lost disk costs each row one block |
| `LeftSymmetricTurns` | left-symmetric RAID-5: each chunk is on the disk after that of the chunk before it |
| `ExerciseTypeCorrect` | `[]TypeOK` |
| `WritesAreExact`, `ReadsAreExact` | `[]WritesExact`, `[]ReadsExact` |
| `ParityIsComputable` | `[]ParityComputable` |
| `FirstSeeks`, `NearCheaper` | `[]FirstIOSeeks`, `[]NearIsCheaper` |

The divisors are parameters, and products of two variables are beyond the SMT
solver's linear arithmetic.  `Division` and `Unique` therefore state what quotient
and remainder are, and that they are unique; `DivDiv` that dividing twice is
dividing by the product.  With them each map becomes a place (row, column,
position in the chunk): the row and the position give the offset, the row and the
column the disk.  Equal offsets give equal rows and positions; equal disks in one
row give equal columns, by the rotation of that row alone.

`BaseInv` is the invariant of the main loop: the types; `LoopInv`, where the
stripe loop stands (`begin` is where the stripe begins, but in the first);
`IdleInv`, nothing to do between requests; `BoundInv`, a bound on the disks'
times, without which `totalTime`, their maximum, need not exist as the code
computes it.  `DiskInv` and `EndInv` relate times, counts and heads and give the
last two theorems.

The I/Os of a request are `done` and those planned, `Plan == done \o todo`.  The
properties of the I/Os done at the end of a request are therefore proved of the
plan, which grows by a stripe at a time: `PlanInv` says that the plan writes
exactly the blocks before `begin` and the parity of their rows, each once, in
chunks before the current stripe, and knows the parity it writes.  A stripe adds to it
only places in its own chunks, which no earlier stripe touches, so that the new
writes neither repeat an old one nor overwrite what is read later.  Within
`doPartialWrite` the reads come before the writes; the subtractive method reads
the blocks it writes and the old parity, the additive one the rest of the row.

### The other programs

| Theorem | Establishes |
|---|---|
| `TypeCorrect`, `Balance`, `AlwaysPlaceable`, `Starvation` (generator) | `[]TypeOK`, `[]BalancedFromZero`, `[]Placeable`, `[]Starves` |
| `TypeCorrect`, `EachKeyOnce` (MapReduce) | `[]TypeOK`: no access outside the list; `KeyOnce` |
| `Refinement` (MapReduce) | `ImplementsGrouping` |
| `RunShrinks` (MapReduce) | with a reducer that takes a value when called, each step leaves less to do |
| `CounterInBounds`, `MainFirstAndLast` | `[]CounterBounds`, `[]MainBrackets`, for every loop count |
| `Lists` | `[]ListsDirectory`, for every set of consistent disks and whatever a stray read finds |
| `OnlyFloppyBlocks` | `BLOCK_OFFSET` is a block's place exactly if blocks have 1024 bytes |

* generator, `AlwaysPlaceable`: without a maximum every request is below
  `block_count`, and for such addresses the two computations of the layout agree
  (`Drawn`, level by level; on RAID-5 by the row modulo four).
* generator, `Balance` and `Starvation`: without a minimum each turn makes a request on the disk it is for, so
  the disks the current round has passed have `q + 1` requests and the others `q`,
  for some `q`.  With fewer blocks than disks the turns go up to the first disk
  without a block and stay there, each having made one request at most.
* MapReduce: from `Sort` on the list is in the order of its keys; a greedy reducer
  returns only when the key at `kvl_counter` is greater than its own, so all keys
  it was called for lie before those left.
* the refinement of `Grouping`: the bag gives each pair the number of slots from
  `kvl_counter` to the end that hold it (`BagOf`).  Storing a pair adds one slot
  (`StoreAdds`), a value that `get_func` returns takes one (`StepRemoves`), and
  `qsort` permutes the slots, which maps each set of slots onto one of equal size
  (`PermutationKeeps`).
* `RunShrinks`: the mappers leave fewer files, or fewer pairs of a file.  The reduce
  loop moves `kvl_counter` only through `get_func`, so it ends because a reducer takes
  at least one value, and `get_func` has one for a reducer just called (`FreshOK`).
  A reducer that returns without asking is called again and again: the theorem
  excludes it.
* threads: a thread's second store adds to a value in which its own first is
  counted, so the register holds at least 1 from the second round on; the last
  store of all is one of these, unless each thread makes only one.
* ext2: at the entry at `pos`, `size = pos + rec_len(pos) - rec_len(0)`.  The entry
  ends in the block, so `size` is less than the block, and so than the
  directory: only a NULL entry can stop the walk inside.  The assumption,
  `DisksAssumption`, is that a directory's entries follow each other without a
  gap to the end of its block and that it takes up whole blocks.

### Only model-checked

`Termination`, `EventuallyDone`, `GeneratesAll` and `Finishes`: liveness under
fairness and `ENABLED` are out of the prover's reach.  For the first two and the
last the part without fairness is proved (`NeverStuck` and `WorkShrinks`;
`NeverStalls` and `AnimationShrinks`; `RunShrinks`).  So are inductions over data
and recursive operators; no module here declares one.

## 5. Not modelled, and why

* failing pthread calls (`assert`) and a failing `malloc` in `pc.c`; `printf` and
  `sleep`, which only delay a thread that holds `m`; a ring of 0 slots or no
  consumers, to which the program gives no meaning;
* in the animation: drawing and colours (but where each block is drawn is `RaidCanvas`); the option `-r` of the generator, which
  only weighs reads against writes; windows below -1, which the message of line
  927 excludes and the test does not: with them nothing is ever scheduled.  `PrintStats` is modelled where it matters: with no finished
  request it divides by zero and the exception ends the handler;
* seek speeds other than those the help text lists (a head whose step does not
  divide 20 passes over its row for ever);
* the contents of blocks: the simulator moves none, so that two small writes of
  one stripe both read the old parity has no effect in it;
* of `raid.py`: the parsing of options and sizes, printing, the percentages of
  `stats`; arrays with a chunk of no blocks or of no disks, on which the program
  divides by zero;
* allocations that fail in MapReduce (`malloc` is checked, the result of `realloc`
  is not), its timing, and the partitioner, which nothing calls;
* inconsistent file systems, short reads, and what the ext2 readers print of a
  structure; `runscan.c`, which works through functions that are not in the
  repository;
* `mysh.c`, `fork_example.c`, `exec_example.c`: one fork each, without a loop or
  shared state.  What can surprise in them, such as copied output buffers, is
  done by the kernel and the C library;
* the small examples of weeks 1, 2 and 4: straight-line code or pure timing.

## 6. Where code and comments disagree

* `raid-graphics.py:428`.  The full-stripe detection compares addresses only.
  Three consecutive *reads* on RAID-4 (`-m 4 -a r0,r1,r2`) lower
  `request_count_needed` by 8, to -5; the count of finished I/Os never equals it,
  and "check if done: if so, print stats and end animation" (line 759) never
  happens.  Run `raid4_sequential_reads`.
* `raid-graphics.py:675`.  "in this case, turn off both reads and write to parity
  disk" (line 677): the code turns off whichever disk is *not* the one that
  became idle first.  With `-m 4 -a r0,r3,r6,w9,w10,w11` the data disk is busy,
  the parity disk takes the write, and the data write is turned off.  Run
  `raid4_busy_data_disk`.
* `raid-graphics.py:356`.  "If generating random requests, balance across disks"
  (line 903): the turn of a disk passes on before the address is compared with the
  minimum, so a rejected draw uses it up.  With `-m 0 -A 2,8,4` both requests can
  be on disk 0.  Run `raid_generator_balance`.
* `raid.py:436`.  A random request begins anywhere in `range(10000)`, the blocks
  of one disk, and may be longer than what follows.  `assert(addr <
  self.blocksPerDisk)` (line 69) says that a disk is asked only for blocks it
  has.  With two disks on level 4 (`-D 2 -S 8k -L 4`) a request of two blocks at
  block 9999 fails the assertion.  Run `raid_exercise_last_block`.

One more behaviour is worth knowing though no comment speaks against it: on RAID-4 a
full-stripe write does not wait for small writes to the same stripe that have begun.
With `-m 4 -a w0,w4,w8,w0,w1,w2` and an open window block 0 is written by the stripe
first and by the earlier small write after it, so the older value stays
(`WritesInOrder`).  Section 3 says what the run and the theorems state instead.

## 7. Plan

In this order:

1. `ProducerConsumer`, `BoundedChannel` and their proofs: done.
2. `RaidMapping`, `RaidIO`, `RaidGraphics`: done, the safety properties and the
   refinement proved.
3. `RaidLayout`, `RaidExercise`: done, the layouts and the safety properties proved.
4. The clock, latencies, counters and key `q` of `RaidGraphics`; `RequestGenerator`:
   done, the safety properties proved.
5. `MapReduce` and `Grouping`: done, safety and refinement proved.
6. `ThreadExamples`: done, proved.
7. `Ext2List`: done, proved.
8. Measures for `pc.c`, the animation and the reduce loop; what `RaidIO` promises, as
   invariants of the simulator: done, proved.
9. Open: a measure for the main loops of `raid.py` and of the generator; what
   `Grouping` promises (no pair given twice), as an invariant of `MapReduce`; which
   windows above one keep a full stripe's writes in order.
