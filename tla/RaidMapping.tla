----------------------------- MODULE RaidMapping -----------------------------
(***************************************************************************)
(* Where lecture-15/raid-graphics.py puts the blocks of a request: the     *)
(* part of Raid.__init__ that turns the list of logical requests into      *)
(* physical ones, and the physical I/Os it expects for them.               *)
(***************************************************************************)
EXTENDS Integers, Sequences, FiniteSets

disk_count == 4               \* the program always builds four disks
DiskIds == 0 .. disk_count - 1

Read == "read"
Write == "write"

\* RAID-5: the parity disk moves left from row to row, and the data disks
\* from the parity disk on move right by one.
Raid5Parity(row) == 3 - (row % 4)

Raid5Data(addr) ==
  LET disk == addr % (disk_count - 1)
      parity_disk == Raid5Parity(addr \div (disk_count - 1))
  IN IF disk >= parity_disk THEN disk + 1 ELSE disk

\* The disks of a logical address, as in Request.phys_disk_list: the data disk
\* first, then the second copy (mirroring) or the parity disk (RAID-4 and 5).
PhysDisks(mapping, addr) ==
  CASE mapping = 0 -> <<addr % disk_count>>
    [] mapping = 1 -> LET pair == addr % (disk_count \div 2)
                      IN <<2 * pair, 2 * pair + 1>>
    [] mapping = 4 -> <<addr % (disk_count - 1), 3>>
    [] mapping = 5 -> <<Raid5Data(addr), Raid5Parity(addr \div (disk_count - 1))>>

\* The row of a logical address on each of its disks.
PhysOffset(mapping, addr) ==
  CASE mapping = 0 -> addr \div disk_count
    [] mapping = 1 -> addr \div (disk_count \div 2)
    [] mapping \in {4, 5} -> addr \div (disk_count - 1)

\* The first of three requests, counted in threes from the front, for three
\* consecutive addresses: taken for a full-stripe write on RAID-4.  The code
\* looks neither at the operations nor at where the stripe begins.
StripeStarts(mapping, queue) ==
  {i \in DOMAIN queue :
     /\ mapping = 4
     /\ i % 3 = 1
     /\ i + 2 <= Len(queue)
     /\ queue[i + 1].addr = queue[i].addr + 1
     /\ queue[i + 2].addr = queue[i].addr + 2}

\* The Request objects of a queue of [op, addr].
Requests(mapping, queue) ==
  LET stripes == StripeStarts(mapping, queue)
  IN [i \in DOMAIN queue |->
        [op     |-> queue[i].op,
         addr   |-> queue[i].addr,
         disks  |-> PhysDisks(mapping, queue[i].addr),
         offset |-> PhysOffset(mapping, queue[i].addr),
         full_stripe_write        |-> \E s \in stripes : i \in s .. s + 2,
         full_stripe_write_parity |-> i - 2 \in stripes]]

Writes(queue) == {i \in DOMAIN queue : queue[i].op = Write}

\* Mutant of CountNeeded: the second copy of a mirrored write is not expected.
CountNeededOneCopy(mapping, queue) ==
  Len(queue) + (IF mapping \in {4, 5} THEN 3 ELSE 0) * Cardinality(Writes(queue))
    - 8 * Cardinality(StripeStarts(mapping, queue))

\* request_count_needed: one I/O per request, one more per mirrored write,
\* three more per parity update, eight fewer per full stripe.
CountNeeded(mapping, queue) ==
  LET extra == CASE mapping = 0 -> 0 [] mapping = 1 -> 1 [] mapping \in {4, 5} -> 3
  IN Len(queue) + extra * Cardinality(Writes(queue))
       - 8 * Cardinality(StripeStarts(mapping, queue))
=============================================================================
