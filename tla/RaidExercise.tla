---------------------------- MODULE RaidExercise ----------------------------
(***************************************************************************)
(* The RAID exercise lecture-15/raid.py: the main loop over the requests,  *)
(* the physical I/Os of each request, and the disks that time them.        *)
(*                                                                         *)
(* Abstractions.  The random block and the random choice between reading   *)
(* and writing are nondeterministic.  Printing is left out.  Times are in  *)
(* units of 0.1 ms, the time to transfer one block.                        *)
(***************************************************************************)
EXTENDS RaidLayout, Sequences, FiniteSetsExt

CONSTANTS
  Inputs,       \* command lines: [g (the array), size, sequential, starts]
  numRequests   \* how many requests are simulated

ASSUME InputAssumption ==
  /\ numRequests \in Nat
  /\ \A in \in Inputs :
       /\ in.g \in Arrays
       /\ in.size \in Nat
       /\ in.sequential \in BOOLEAN
       /\ in.starts \subseteq Nat     \* the blocks a random request may begin at

VARIABLES
  g, size, sequential, starts,   \* set at start
  off,                           \* where the next sequential request begins
  requests,                      \* requests generated so far
  request,                       \* the current one: [addr, isWrite]
  stripe, begin, left,           \* the loop over its stripes in enqueue45
  todo, done,                    \* its physical I/Os still to enqueue; enqueued
  currAddr, countIO, countSeq, countNseq, countRand, utilTime,   \* per disk
  totalTime,                     \* the result of go()
  stage                          \* what main does

inputVars == <<g, size, sequential, starts>>
stripeVars == <<stripe, begin, left>>
diskVars == <<currAddr, countIO, countSeq, countNseq, countRand, utilTime>>
vars == <<inputVars, off, requests, request, stripeVars, todo, done, diskVars,
          totalTime, stage>>

Disks == 0 .. g.numDisks - 1

numTracks == 100
blocksPerTrack == 100
blocksPerDisk == numTracks * blocksPerTrack
seekTime == 100
xferTime == 1

\* Mutant of initialAddr: next to the first block.
initialAddrNext == -1

\* Where the head of a disk is at first.
initialAddr == -10000

-----------------------------------------------------------------------------
Read == "read"
Write == "write"

\* The blocks of range(from, to), in order.
Blocks(from, to) == [i \in 1 .. to - from |-> from + i - 1]

DataIOs(op, blocks) == [i \in DOMAIN blocks |-> [op |-> op, place |-> bmap(g, blocks[i])]]

\* The first blocks of their rows, of the blocks from .. to-1, and the k-th of them.
RowStarts(from, to) ==
  {b \in from .. to - 1 : \A a \in from .. b - 1 : bmap(g, a).off # bmap(g, b).off}
RowStart(k, from, to) ==
  CHOOSE b \in RowStarts(from, to) :
    Cardinality({a \in RowStarts(from, to) : a < b}) = k - 1

\* The parity blocks of these rows, each once, in order (offList).
ParityIOs(op, snum, from, to) ==
  [k \in 1 .. Cardinality(RowStarts(from, to)) |->
     [op |-> op, place |-> [disk |-> pmap(g, snum), off |-> bmap(g, RowStart(k, from, to)).off]]]

\* Subtractive parity: the old data and the old parity of what is written.
SubtractiveReads(snum, from, to) ==
  DataIOs(Read, Blocks(from, to)) \o ParityIOs(Read, snum, from, to)

\* Mutant of AdditiveReads: only the blocks behind those written are read.
AdditiveReadsAfter(snum, from, to) ==
  DataIOs(Read, Blocks(to, (snum + 1) * blocksInStripe(g)))

\* Additive parity: the blocks of the stripe that are not written.
AdditiveReads(snum, from, to) ==
  DataIOs(Read, Blocks(snum * blocksInStripe(g), from))
    \o DataIOs(Read, Blocks(to, (snum + 1) * blocksInStripe(g)))

\* The I/Os of a write of the blocks from .. to-1 of stripe snum.
doPartialWrite(snum, from, to) ==
  LET numWrites == to - from
  IN (IF numWrites + 1 <= blocksInStripe(g) - numWrites
        THEN SubtractiveReads(snum, from, to)
        ELSE AdditiveReads(snum, from, to))
     \o DataIOs(Write, Blocks(from, to))
     \o ParityIOs(Write, snum, from, to)

\* Mutant of BalancedRead: the other copy is looked for on disk 1 - disk.
BalancedReadFirstPair(bnum) ==
  LET first == bmap1(g, bnum)
  IN [op |-> Read, place |-> IF first.off % 2 = 0 THEN first ELSE [first EXCEPT !.disk = 1 - @]]

\* The balancing of reads over the two copies of a block, by its offset.
BalancedRead(bnum) ==
  LET first == bmap1(g, bnum)
  IN [op |-> Read, place |-> IF first.off % 2 = 0 THEN first ELSE Copy(first)]

\* The first and the second copy of each block, in turn.
BothCopies(blocks) ==
  [i \in 1 .. 2 * Len(blocks) |->
     LET first == bmap1(g, blocks[(i + 1) \div 2])
     IN [op |-> Write, place |-> IF i % 2 = 1 THEN first ELSE Copy(first)]]

\* enqueue0, enqueue1 and the reads of enqueue45: the I/Os of a request.
RequestIOs(addr, isWrite) ==
  LET blocks == Blocks(addr, addr + size)
  IN CASE g.raidLevel # 1 -> DataIOs(IF isWrite THEN Write ELSE Read, blocks)
       [] g.raidLevel = 1 /\ ~ isWrite -> [i \in DOMAIN blocks |-> BalancedRead(blocks[i])]
       [] OTHER -> BothCopies(blocks)
-----------------------------------------------------------------------------
Init ==
  \E in \in Inputs :
    /\ g = in.g
    /\ size = in.size
    /\ sequential = in.sequential
    /\ starts = in.starts
    /\ off = 0
    /\ requests = 0
    /\ request = [addr |-> 0, isWrite |-> FALSE]
    /\ stripe = 0 /\ begin = 0 /\ left = 0
    /\ todo = <<>>
    /\ done = <<>>
    /\ currAddr = [d \in 0 .. in.g.numDisks - 1 |-> initialAddr]
    /\ countIO = [d \in 0 .. in.g.numDisks - 1 |-> 0]
    /\ countSeq = countIO /\ countNseq = countIO /\ countRand = countIO
    /\ utilTime = countIO
    /\ totalTime = 0
    /\ stage = "generate"

\* The main loop generates a request: the next blocks, or any.
Generate ==
  /\ stage = "generate"
  /\ requests < numRequests
  /\ \E blk \in (IF sequential THEN {off} ELSE starts), isWrite \in BOOLEAN :
       /\ request' = [addr |-> blk, isWrite |-> isWrite]
       /\ off' = IF sequential THEN off + size ELSE off
       /\ IF isWrite /\ g.raidLevel \in {4, 5}
            THEN /\ stage' = "stripes"
                 /\ stripe' = blk \div blocksInStripe(g)
                 /\ begin' = blk
                 /\ left' = size
                 /\ todo' = <<>>
            ELSE /\ stage' = "enqueue"
                 /\ todo' = RequestIOs(blk, isWrite)
                 /\ UNCHANGED stripeVars
  /\ requests' = requests + 1
  /\ done' = <<>>
  /\ UNCHANGED <<inputVars, diskVars, totalTime>>

\* int(a / b): the quotient rounded towards 0.
Quotient(a, b) == IF a >= 0 THEN a \div b ELSE -((-a) \div b)

\* The last stripe the request touches; one before the first block of the
\* array when a request of no blocks begins there.
finalStripe == Quotient(request.addr + size - 1, blocksInStripe(g))

\* Mutant of StripeEnd: the write is not cut at the end of the stripe.
StripeEndUncut == begin + (IF left >= blocksInStripe(g) THEN blocksInStripe(g) ELSE left)

\* Where the part of the request in the current stripe ends.
StripeEnd ==
  LET end == begin + (IF left >= blocksInStripe(g) THEN blocksInStripe(g) ELSE left)
      endOfStripe == (stripe + 1) * blocksInStripe(g)
  IN IF end >= endOfStripe THEN endOfStripe ELSE end

\* One iteration of the loop over the stripes of a write.
WriteStripe ==
  /\ stage = "stripes"
  /\ todo = <<>>
  /\ stripe <= finalStripe
  /\ todo' = doPartialWrite(stripe, begin, StripeEnd)
  /\ left' = left - (StripeEnd - begin)
  /\ begin' = StripeEnd
  /\ stripe' = stripe + 1
  /\ UNCHANGED <<inputVars, off, requests, request, done, diskVars, totalTime, stage>>

\* Mutant of Track: divided by the size of the disk.
TrackWide(addr) == Quotient(addr, blocksPerDisk)

Track(addr) == Quotient(addr, numTracks)

\* Same track, or close: an I/O at address to needs no seek when
\* the disk is at address from.
Near(from, to) ==
  Track(from) = Track(to) \/ (to - from \in -blocksPerTrack + 1 .. blocksPerTrack - 1)

Distance(a, b) == IF a < b THEN b - a ELSE a - b

\* disk.enqueue: the disk times the I/O and moves there.
EnqueueAt(d, addr) ==
  LET near == Near(currAddr[d], addr)
      diff == Distance(currAddr[d], addr)
  IN /\ countIO' = [countIO EXCEPT ![d] = @ + 1]
     /\ countSeq' = [countSeq EXCEPT ![d] = IF near /\ diff = 1 THEN @ + 1 ELSE @]
     /\ countNseq' = [countNseq EXCEPT ![d] = IF near /\ diff # 1 THEN @ + 1 ELSE @]
     /\ countRand' = [countRand EXCEPT ![d] = IF near THEN @ ELSE @ + 1]
     /\ utilTime' = [utilTime EXCEPT ![d] =
                       @ + (IF near THEN diff * xferTime ELSE seekTime + xferTime)]
     /\ currAddr' = [currAddr EXCEPT ![d] = addr]

\* doSingleRead and doSingleWrite: the next I/O goes to its disk, where an
\* assertion ends the program when there is no such block.
DoSingleIO ==
  /\ todo # <<>>
  /\ stage # "failed"
  /\ LET io == Head(todo)
     IN IF io.place.off < blocksPerDisk
          THEN /\ EnqueueAt(io.place.disk, io.place.off)
               /\ done' = Append(done, io)
               /\ todo' = Tail(todo)
               /\ UNCHANGED stage
          ELSE /\ stage' = "failed"
               /\ UNCHANGED <<diskVars, done, todo>>
  /\ UNCHANGED <<inputVars, off, requests, request, stripeVars, totalTime>>

\* enqueue returns to the main loop.
EndRequest ==
  /\ todo = <<>>
  /\ stage = "enqueue" \/ (stage = "stripes" /\ stripe > finalStripe)
  /\ stage' = "generate"
  /\ UNCHANGED <<inputVars, off, requests, request, stripeVars, todo, done, diskVars,
                 totalTime>>

\* raid.go: the time of the disk that takes longest.
Go ==
  /\ stage = "generate"
  /\ requests = numRequests
  /\ totalTime' = Max({utilTime[d] : d \in Disks} \cup {0})
  /\ stage' = "end"
  /\ UNCHANGED <<inputVars, off, requests, request, stripeVars, todo, done, diskVars>>

\* main has ended, or an assertion has failed.
Stopped ==
  /\ stage \in {"end", "failed"}
  /\ UNCHANGED vars

Next == Generate \/ WriteStripe \/ DoSingleIO \/ EndRequest \/ Go \/ Stopped

Spec == Init /\ [][Next]_vars
-----------------------------------------------------------------------------
(***************************************************************************)
(* Properties.                                                             *)
(***************************************************************************)
\* The blocks of the request, and the places of a block and of its copy.
RequestBlocks == request.addr .. request.addr + size - 1
Places(b) == {bmap(g, b)} \cup (IF g.raidLevel = 1 THEN {Copy(bmap(g, b))} ELSE {})

\* The data blocks that share their row of a stripe with block b, and the
\* parity block that protects them.
RowOf(b) ==
  LET s == b \div blocksInStripe(g)
  IN {c \in s * blocksInStripe(g) .. (s + 1) * blocksInStripe(g) - 1 :
        bmap(g, c).off = bmap(g, b).off}
Parity(b) == [disk |-> pmap(g, b \div blocksInStripe(g)), off |-> bmap(g, b).off]

\* The places the I/Os done before the i-th have read, before writing them.
ReadBefore(i) ==
  {done[j].place : j \in {j \in 1 .. i - 1 :
     done[j].op = Read /\ \A k \in 1 .. j - 1 : done[k] # [done[j] EXCEPT !.op = Write]}}

Writes == {i \in DOMAIN done : done[i].op = Write}
RequestDone == stage = "generate" /\ requests > 0

\* The type of every variable.
TypeOK ==
  /\ off \in Nat /\ requests \in 0 .. numRequests
  /\ request \in [addr : Nat, isWrite : BOOLEAN]
  /\ stripe \in Nat /\ begin \in Nat /\ left \in 0 .. size
  /\ {todo, done} \subseteq Seq([op : {Read, Write}, place : [disk : Disks, off : Nat]])
  /\ currAddr \in [Disks -> {initialAddr} \cup 0 .. blocksPerDisk - 1]
  /\ \A count \in {countIO, countSeq, countNseq, countRand, utilTime} :
       count \in [Disks -> Nat]
  /\ totalTime \in Nat
  /\ stage \in {"generate", "enqueue", "stripes", "end", "failed"}

\* A write reaches every place of its blocks and the parity of every row it
\* touches, each once, and nothing else, however it lies across the stripes.
WritesExact ==
  RequestDone =>
    /\ \A i, j \in Writes : done[i] = done[j] => i = j
    /\ {done[i].place : i \in Writes} =
         IF ~ request.isWrite THEN {}
         ELSE (UNION {Places(b) : b \in RequestBlocks})
                \cup (IF g.raidLevel \in {4, 5} THEN {Parity(b) : b \in RequestBlocks} ELSE {})

\* A read fetches each of its blocks once, from one of its places.
ReadsExact ==
  RequestDone /\ ~ request.isWrite =>
    /\ Len(done) = size
    /\ \A b \in RequestBlocks : \E i \in DOMAIN done :
         done[i].op = Read /\ done[i].place \in Places(b)

\* When a parity block is written, what was read before determines its new
\* value: the old blocks of the row that are not written, or the old parity
\* and the old value of every block of the row that is.
ParityComputable ==
  g.raidLevel \in {4, 5} =>
    \A i \in DOMAIN done, b \in RequestBlocks :
      done[i] = [op |-> Write, place |-> Parity(b)] =>
        LET new == {bmap(g, c) : c \in RowOf(b) \cap RequestBlocks}
            kept == {bmap(g, c) : c \in RowOf(b) \ RequestBlocks}
        IN kept \subseteq ReadBefore(i) \/ new \cup {Parity(b)} \subseteq ReadBefore(i)

\* "make it negative so that whatever the first read is, it causes a seek" (line
\* 46), whatever the first request is and whichever its disk.
FirstIOSeeks == \A d \in Disks : countIO[d] > 0 => countRand[d] > 0

\* An I/O taken to need no seek is never dearer than one that does, and every
\* disk has finished when the array has.
NearIsCheaper ==
  \A d \in Disks :
    /\ utilTime[d] <= countIO[d] * (seekTime + xferTime)
    /\ stage = "end" => utilTime[d] <= totalTime

\* A disk has the block it is asked for (the assertion of line 69).
BlockExists == stage # "failed"
=============================================================================
