------------------------- MODULE RaidExerciseProofs -------------------------
(***************************************************************************)
(* Proofs about lecture-15/raid.py.  First the block maps, for every       *)
(* number of disks, every chunk size and every block; then the requests    *)
(* and the disks, for every workload.                                      *)
(***************************************************************************)
EXTENDS RaidExercise, FiniteSetTheorems, SequenceTheorems, WellFoundedInduction, TLAPS

Nats1 == Nat \ {0}

ParityArrays == {ar \in Arrays : ar.raidLevel \in {4, 5}}

-----------------------------------------------------------------------------
\* Arithmetic: quotient and remainder, and that they are unique.
LEMMA Division ==
  ASSUME NEW a \in Nat, NEW c \in Nats1
  PROVE  a = (a \div c) * c + (a % c) /\ a % c \in 0 .. c - 1 /\ a \div c \in Nat
  BY SMT DEF Nats1

LEMMA Unique ==
  ASSUME NEW c \in Nats1, NEW q \in Nat, NEW r \in 0 .. c - 1,
         NEW p \in Nat, NEW s \in 0 .. c - 1, q * c + r = p * c + s
  PROVE  q = p /\ r = s
<1>1. ASSUME q < p PROVE FALSE
  <2>1. (p - q) * c >= c
    BY <1>1, SMT DEF Nats1
  <2> QED
    BY <2>1, SMT DEF Nats1
<1>2. ASSUME p < q PROVE FALSE
  <2>1. (q - p) * c >= c
    BY <1>2, SMT DEF Nats1
  <2> QED
    BY <2>1, SMT DEF Nats1
<1> QED
  BY <1>1, <1>2, SMT DEF Nats1

\* A number is determined by its quotient and its remainder.
LEMMA Recombine ==
  ASSUME NEW c \in Nats1, NEW a \in Nat, NEW b \in Nat, a \div c = b \div c, a % c = b % c
  PROVE  a = b
  BY Division, SMT

\* Dividing by c and then by n is dividing by n * c.
LEMMA DivDiv ==
  ASSUME NEW a \in Nat, NEW c \in Nats1, NEW n \in Nats1
  PROVE  (a \div c) \div n = a \div (n * c)
<1> DEFINE q == a \div c
           p == q \div n
           r == (q % n) * c + (a % c)
           B == n * c
<1>1. a = q * c + (a % c) /\ a % c \in 0 .. c - 1 /\ q \in Nat
  BY Division
<1>2. q = p * n + (q % n) /\ q % n \in 0 .. n - 1 /\ p \in Nat
  BY <1>1, Division
<1>3. B \in Nats1
  BY SMT DEF Nats1
<1>4. r \in 0 .. B - 1
  <2>1. (q % n) * c <= (n - 1) * c
    BY <1>2, SMT DEF Nats1
  <2>2. (n - 1) * c = B - c
    BY SMT DEF Nats1
  <2>3. (q % n) * c >= 0
    BY <1>2, SMT DEF Nats1
  <2> QED
    BY <1>1, <1>2, <1>3, <2>1, <2>2, <2>3, SMT DEF Nats1
<1>5. a = p * B + r
  <2>1. q * c = (p * n) * c + (q % n) * c
    BY <1>1, <1>2, SMT DEF Nats1
  <2>2. (p * n) * c = p * B
    BY <1>2, SMT DEF Nats1
  <2> QED
    BY <1>1, <1>2, <1>3, <2>1, <2>2, SMT DEF Nats1
<1>6. a = (a \div B) * B + (a % B) /\ a % B \in 0 .. B - 1 /\ a \div B \in Nat
  BY <1>3, Division
<1> HIDE DEF r, B, p, q
<1>7. p = a \div B
  BY <1>2, <1>3, <1>4, <1>5, <1>6, Unique
<1> QED
  BY <1>7 DEF p, q, B

-----------------------------------------------------------------------------
\* How many chunks of data a row of chunks holds.
Width(ar) == CASE ar.raidLevel = 0 -> ar.numDisks
              [] ar.raidLevel = 1 -> ar.numDisks \div 2
              [] ar.raidLevel \in {4, 5} -> ar.numDisks - 1

\* The row of chunks of a block, and its column.
RowNum(ar, b) == (b \div ar.chunkSize) \div Width(ar)
Column(ar, b) == (b \div ar.chunkSize) % Width(ar)

\* Every level places a block in its row and leaves its place in the chunk.
LEMMA PlaceOff ==
  ASSUME NEW ar \in Arrays, NEW b \in Nat
  PROVE  /\ Width(ar) \in Nats1
         /\ bmap(ar, b).off = RowNum(ar, b) * ar.chunkSize + (b % ar.chunkSize)
         /\ RowNum(ar, b) \in Nat /\ Column(ar, b) \in 0 .. Width(ar) - 1
<1>1. Width(ar) \in Nats1
  BY SMT DEF Arrays, Width, Nats1
<1>2. b \div ar.chunkSize \in Nat
  BY Division DEF Arrays
<1>3. RowNum(ar, b) \in Nat /\ Column(ar, b) \in 0 .. Width(ar) - 1
  BY <1>1, <1>2, Division DEF RowNum, Column
<1>4. bmap(ar, b).off = RowNum(ar, b) * ar.chunkSize + (b % ar.chunkSize)
  BY DEF Arrays, bmap, bmap0, bmap1, bmap4, bmap5, Offset, RowNum, Width
<1> QED
  BY <1>1, <1>3, <1>4

\* The disk of a block as a function of its row and its column.
DiskOf(ar, row, col) ==
  CASE ar.raidLevel = 0 -> col
    [] ar.raidLevel = 1 -> 2 * col
    [] ar.raidLevel = 4 -> col
    [] ar.raidLevel = 5 -> IF ar.raid5type = "LA" THEN LeftAsymmetric(ar, col, row)
                                                ELSE LeftSymmetric(ar, col, row)

LEMMA PlaceDisk ==
  ASSUME NEW ar \in Arrays, NEW b \in Nat
  PROVE  bmap(ar, b).disk = DiskOf(ar, RowNum(ar, b), Column(ar, b))
  BY DEF Arrays, bmap, bmap0, bmap1, bmap4, bmap5, RowNum, Column, Width, DiskOf

\* A remainder of a number that is at most one divisor away.
LEMMA Wrap ==
  ASSUME NEW n \in Nats1, NEW a \in Int
  PROVE  /\ a \in 0 .. n - 1 => a % n = a
         /\ a \in -n .. -1 => a % n = a + n
         /\ a \in n .. 2 * n - 1 => a % n = a - n
  BY SMT DEF Nats1

\* The left-symmetric layout without remainders of negative numbers.
LEMMA LeftSymmetricUnfold ==
  ASSUME NEW ar \in ParityArrays, NEW row \in Nat, NEW col \in 0 .. ar.numDisks - 2
  PROVE  LET t == row % ar.numDisks
         IN /\ t \in 0 .. ar.numDisks - 1
            /\ LeftSymmetric(ar, col, row) = IF col >= t THEN col - t ELSE col - t + ar.numDisks
<1> DEFINE n == ar.numDisks
           t == row % n
<1>1. n \in Nats1
  BY DEF ParityArrays, Arrays, Nats1
<1>2. t \in 0 .. n - 1
  BY <1>1, Division
<1>3. LeftSymmetric(ar, col, row) = (col - t) % n
  BY DEF LeftSymmetric
<1> HIDE DEF n, t
<1>4. col \in 0 .. n - 2
  BY DEF n
<1>5. (col - t) % n = IF col >= t THEN col - t ELSE col - t + n
  <2>1. /\ col - t \in Int
        /\ col >= t => col - t \in 0 .. n - 1
        /\ ~ (col >= t) => col - t \in -n .. -1
    BY <1>1, <1>2, <1>4, SMT DEF Nats1
  <2>2. /\ col - t \in 0 .. n - 1 => (col - t) % n = col - t
        /\ col - t \in -n .. -1 => (col - t) % n = (col - t) + n
    BY <1>1, <2>1, Wrap
  <2> QED
    BY <2>1, <2>2
<1> QED
  BY <1>2, <1>3, <1>5 DEF n, t

\* In one row, the disks of different columns differ, are disks of the array, and
\* on RAID-4 and RAID-5 are none of them the parity disk.
LEMMA Columns ==
  ASSUME NEW ar \in Arrays, NEW row \in Nat, NEW i \in 0 .. Width(ar) - 1
  PROVE  /\ DiskOf(ar, row, i) \in 0 .. ar.numDisks - 1
         /\ ar.raidLevel = 1 => DiskOf(ar, row, i) + 1 \in 0 .. ar.numDisks - 1
         /\ ar.raidLevel = 4 => DiskOf(ar, row, i) # ar.numDisks - 1
         /\ ar.raidLevel = 5 => DiskOf(ar, row, i) # Raid5Pdisk(ar, row)
         /\ \A j \in 0 .. Width(ar) - 1 : DiskOf(ar, row, i) = DiskOf(ar, row, j) => i = j
<1>1. CASE ar.raidLevel = 0
  BY <1>1, SMT DEF Arrays, DiskOf, Width, Nats1
<1>2. CASE ar.raidLevel = 1
  BY <1>2, SMT DEF Arrays, DiskOf, Width, Nats1
<1>3. CASE ar.raidLevel = 4
  BY <1>3, SMT DEF Arrays, DiskOf, Width, Nats1
<1>4. CASE ar.raidLevel = 5 /\ ar.raid5type = "LA"
  <2>1. row % ar.numDisks \in 0 .. ar.numDisks - 1
    BY Division DEF Arrays
  <2> QED
    BY <1>4, <2>1, SMT DEF Arrays, Nats1, DiskOf, Width, Nats1, LeftAsymmetric, Raid5Pdisk
<1>5. CASE ar.raidLevel = 5 /\ ar.raid5type = "LS"
  <2>1. ar \in ParityArrays /\ Width(ar) = ar.numDisks - 1 /\ ar.numDisks \in Nats1
    BY <1>5 DEF ParityArrays, Arrays, Nats1, Width
  <2>2. \A j \in 0 .. Width(ar) - 1 :
          LET t == row % ar.numDisks
          IN /\ t \in 0 .. ar.numDisks - 1
             /\ DiskOf(ar, row, j) = IF j >= t THEN j - t ELSE j - t + ar.numDisks
    <3> SUFFICES ASSUME NEW j \in 0 .. Width(ar) - 1
                 PROVE  LET t == row % ar.numDisks
                        IN /\ t \in 0 .. ar.numDisks - 1
                           /\ DiskOf(ar, row, j) = IF j >= t THEN j - t ELSE j - t + ar.numDisks
      OBVIOUS
    <3>1. j \in 0 .. ar.numDisks - 2
      BY <2>1, SMT DEF Nats1
    <3>2. DiskOf(ar, row, j) = LeftSymmetric(ar, j, row)
      BY <1>5 DEF DiskOf
    <3> QED
      BY <2>1, <3>1, <3>2, LeftSymmetricUnfold
  <2> QED
    BY <1>5, <2>1, <2>2, SMT DEF Raid5Pdisk, Nats1
<1> QED
  BY <1>1, <1>2, <1>3, <1>4, <1>5 DEF Arrays

-----------------------------------------------------------------------------
\* Every block lies on a disk of the array, its copy too.
THEOREM DiskExists ==
  ASSUME NEW ar \in Arrays, NEW b \in Nat
  PROVE  /\ bmap(ar, b).disk \in 0 .. ar.numDisks - 1
         /\ ar.raidLevel = 1 => Copy(bmap(ar, b)).disk \in 0 .. ar.numDisks - 1
<1>1. ar.raidLevel = 1 => Copy(bmap(ar, b)).disk = bmap(ar, b).disk + 1
  BY DEF bmap, bmap1, Copy
<1>2. RowNum(ar, b) \in Nat /\ Column(ar, b) \in 0 .. Width(ar) - 1
  BY PlaceOff
<1>3. /\ DiskOf(ar, RowNum(ar, b), Column(ar, b)) \in 0 .. ar.numDisks - 1
      /\ ar.raidLevel = 1 =>
           DiskOf(ar, RowNum(ar, b), Column(ar, b)) + 1 \in 0 .. ar.numDisks - 1
  BY <1>2, Columns
<1> QED
  BY <1>1, <1>3, PlaceDisk

\* No two blocks share a place: no block overwrites another, on any level.
THEOREM BlocksApart ==
  ASSUME NEW ar \in Arrays, NEW a \in Nat, NEW b \in Nat, bmap(ar, a) = bmap(ar, b)
  PROVE  a = b
<1> DEFINE c == ar.chunkSize
<1>1. c \in Nats1
  BY DEF Arrays, Nats1
<1>2. a % c \in 0 .. c - 1 /\ b % c \in 0 .. c - 1
  BY <1>1, Division
<1>3. RowNum(ar, a) * c + (a % c) = RowNum(ar, b) * c + (b % c)
  BY PlaceOff
<1>4. RowNum(ar, a) = RowNum(ar, b) /\ a % c = b % c
  <2>1. RowNum(ar, a) \in Nat /\ RowNum(ar, b) \in Nat
    BY PlaceOff
  <2> HIDE DEF c
  <2> QED
    BY <1>1, <1>2, <1>3, <2>1, Unique
<1>5. Column(ar, a) = Column(ar, b)
  <2>1. /\ RowNum(ar, a) \in Nat
        /\ Column(ar, a) \in 0 .. Width(ar) - 1 /\ Column(ar, b) \in 0 .. Width(ar) - 1
    BY PlaceOff
  <2>2. DiskOf(ar, RowNum(ar, a), Column(ar, a)) = DiskOf(ar, RowNum(ar, a), Column(ar, b))
    BY <1>4, PlaceDisk
  <2> QED
    BY <2>1, <2>2, Columns
<1>6. a \div c = b \div c
  <2>1. a \div c \in Nat /\ b \div c \in Nat
    BY <1>1, Division
  <2> QED
    BY <1>4, <1>5, <2>1, PlaceOff, Recombine DEF RowNum, Column
<1> QED
  BY <1>1, <1>4, <1>6, Recombine

\* The stripe of enqueue45 is the row of chunks of the maps.
LEMMA StripeIsRow ==
  ASSUME NEW ar \in ParityArrays, NEW b \in Nat
  PROVE  RowNum(ar, b) = b \div blocksInStripe(ar)
<1>1. ar.chunkSize \in Nats1 /\ ar.numDisks - 1 \in Nats1 /\ Width(ar) = ar.numDisks - 1
  BY SMT DEF ParityArrays, Arrays, Width, Nats1
<1> QED
  BY <1>1, DivDiv DEF RowNum, blocksInStripe

\* pmap5 undoes the multiplication by blocksInStripe.
LEMMA ParityDisk ==
  ASSUME NEW ar \in ParityArrays, NEW s \in Nat
  PROVE  pmap(ar, s) = IF ar.raidLevel = 4 THEN ar.numDisks - 1 ELSE Raid5Pdisk(ar, s)
<1> DEFINE B == blocksInStripe(ar)
<1>1. ar.chunkSize \in Nats1 /\ ar.numDisks - 1 \in Nats1
  BY SMT DEF ParityArrays, Arrays, Nats1
<1>2. B \in Nats1
  <2>1. (ar.numDisks - 1) * ar.chunkSize \in Nats1
    <3> DEFINE n == ar.numDisks - 1
               c == ar.chunkSize
    <3> HIDE DEF n, c
    <3>1. n \in Nats1 /\ c \in Nats1 => n * c \in Nats1
      BY SMT DEF Nats1
    <3> QED
      BY <1>1, <3>1 DEF n, c
  <2> QED
    BY <2>1 DEF blocksInStripe
<1>3. s * B \in Nat
  BY <1>2, SMT DEF Nats1
<1>4. ((s * B) \div ar.chunkSize) \div (ar.numDisks - 1) = (s * B) \div B
  BY <1>1, <1>3, DivDiv DEF blocksInStripe
<1>5. (s * B) \div B = s
  <2> HIDE DEF B
  <2>1. s * B = ((s * B) \div B) * B + ((s * B) % B) /\ (s * B) % B \in 0 .. B - 1
        /\ (s * B) \div B \in Nat
    BY <1>2, <1>3, Division
  <2>2. s * B = s * B + 0 /\ 0 \in 0 .. B - 1
    BY <1>2, SMT DEF Nats1
  <2> QED
    BY <1>2, <2>1, <2>2, Unique
<1> QED
  BY <1>4, <1>5 DEF pmap

\* The assertion "disk != pdisk" of __bmap5 never fails, and RAID-4 has the same:
\* a data block never lies on the parity disk of its stripe.
THEOREM DataApartFromParity ==
  ASSUME NEW ar \in ParityArrays, NEW b \in Nat
  PROVE  bmap(ar, b).disk # pmap(ar, b \div blocksInStripe(ar))
<1>1. ar \in Arrays
  BY DEF ParityArrays
<1>2. RowNum(ar, b) = b \div blocksInStripe(ar) /\ RowNum(ar, b) \in Nat
  BY <1>1, StripeIsRow, PlaceOff
<1>3. pmap(ar, RowNum(ar, b)) =
        IF ar.raidLevel = 4 THEN ar.numDisks - 1 ELSE Raid5Pdisk(ar, RowNum(ar, b))
  BY <1>2, ParityDisk
<1>4. Column(ar, b) \in 0 .. Width(ar) - 1
  BY <1>1, PlaceOff
<1>5. /\ ar.raidLevel = 4 => DiskOf(ar, RowNum(ar, b), Column(ar, b)) # ar.numDisks - 1
      /\ ar.raidLevel = 5 => DiskOf(ar, RowNum(ar, b), Column(ar, b)) # Raid5Pdisk(ar, RowNum(ar, b))
  BY <1>1, <1>2, <1>4, Columns
<1>6. bmap(ar, b).disk = DiskOf(ar, RowNum(ar, b), Column(ar, b))
  BY <1>1, PlaceDisk
<1> QED
  BY <1>2, <1>3, <1>5, <1>6 DEF ParityArrays

\* One lost disk loses at most one block of a row: the data blocks a parity block
\* protects lie on different disks.
THEOREM OneLossPerRow ==
  ASSUME NEW ar \in ParityArrays, NEW a \in Nat, NEW b \in Nat, a # b,
         a \div blocksInStripe(ar) = b \div blocksInStripe(ar),
         bmap(ar, a).off = bmap(ar, b).off
  PROVE  bmap(ar, a).disk # bmap(ar, b).disk
<1>1. ar \in Arrays
  BY DEF ParityArrays
<1>2. \A x \in Nat : bmap(ar, x) = [disk |-> bmap(ar, x).disk, off |-> bmap(ar, x).off]
  BY <1>1 DEF Arrays, bmap, bmap0, bmap1, bmap4, bmap5
<1> QED
  BY <1>1, <1>2, BlocksApart

\* The copy of a block never lies where a block or another copy does.
THEOREM CopiesApart ==
  ASSUME NEW ar \in Arrays, ar.raidLevel = 1, NEW a \in Nat, NEW b \in Nat
  PROVE  /\ Copy(bmap(ar, a)) # bmap(ar, b)
         /\ Copy(bmap(ar, a)) = Copy(bmap(ar, b)) => a = b
<1>1. \A x \in Nat :
        /\ bmap(ar, x) = [disk |-> 2 * Column(ar, x), off |-> bmap(ar, x).off]
        /\ Copy(bmap(ar, x)) = [disk |-> 2 * Column(ar, x) + 1, off |-> bmap(ar, x).off]
  BY DEF bmap, bmap1, Copy, Column, Width
<1>2. Column(ar, a) \in Nat /\ Column(ar, b) \in Nat
  <2>1. /\ Width(ar) \in Nats1
        /\ Column(ar, a) \in 0 .. Width(ar) - 1 /\ Column(ar, b) \in 0 .. Width(ar) - 1
    BY PlaceOff
  <2> QED
    BY <2>1, SMT DEF Nats1
<1>3. Copy(bmap(ar, a)).disk = 2 * Column(ar, a) + 1 /\ bmap(ar, b).disk = 2 * Column(ar, b)
  BY <1>1
<1>4. Copy(bmap(ar, a)) # bmap(ar, b)
  BY <1>2, <1>3, SMT
<1>5. ASSUME Copy(bmap(ar, a)) = Copy(bmap(ar, b)) PROVE a = b
  <2>1. Copy(bmap(ar, b)).disk = 2 * Column(ar, b) + 1
    BY <1>1
  <2>2. Column(ar, a) = Column(ar, b)
    BY <1>2, <1>3, <1>5, <2>1, SMT
  <2>3. bmap(ar, a).off = bmap(ar, b).off
    <3>1. Copy(bmap(ar, a)).off = bmap(ar, a).off /\ Copy(bmap(ar, b)).off = bmap(ar, b).off
      BY <1>1
    <3> QED
      BY <1>5, <3>1
  <2>4. bmap(ar, a) = bmap(ar, b)
    BY <1>1, <2>2, <2>3
  <2> QED
    BY <2>4, BlocksApart
<1> QED
  BY <1>4, <1>5

\* The quotient and the remainder of the next number.
LEMMA NextNumber ==
  ASSUME NEW n \in Nats1, NEW a \in Nat
  PROVE  IF a % n < n - 1 THEN (a + 1) % n = (a % n) + 1 /\ (a + 1) \div n = a \div n
                          ELSE (a + 1) % n = 0 /\ (a + 1) \div n = (a \div n) + 1
<1> DEFINE q == a \div n
           r == a % n
<1>1. a = q * n + r /\ r \in 0 .. n - 1 /\ q \in Nat
  BY Division
<1>2. /\ a + 1 = ((a + 1) \div n) * n + ((a + 1) % n)
      /\ (a + 1) % n \in 0 .. n - 1 /\ (a + 1) \div n \in Nat
  BY Division
<1> HIDE DEF q, r
<1>3. CASE r < n - 1
  <2>1. a + 1 = q * n + (r + 1) /\ r + 1 \in 0 .. n - 1
    BY <1>1, <1>3, SMT DEF Nats1
  <2>2. (a + 1) \div n = q /\ (a + 1) % n = r + 1
    BY <1>1, <1>2, <2>1, Unique
  <2> QED
    BY <1>3, <2>2 DEF q, r
<1>4. CASE ~ (r < n - 1)
  <2>1. (q + 1) * n = q * n + n
    BY <1>1, SMT DEF Nats1
  <2>2. a + 1 = (q + 1) * n + 0 /\ 0 \in 0 .. n - 1 /\ q + 1 \in Nat
    BY <1>1, <1>4, <2>1, SMT DEF Nats1
  <2>3. (a + 1) \div n = q + 1 /\ (a + 1) % n = 0
    BY <1>2, <2>2, Unique
  <2> QED
    BY <1>4, <2>3 DEF q, r
<1> QED
  BY <1>3, <1>4

\* The next chunk is the next multiple of the chunk size.
LEMMA NextChunk ==
  ASSUME NEW c \in Nats1, NEW b \in Nat
  PROVE  (b + c) \div c = (b \div c) + 1
<1> DEFINE q == b \div c
<1>1. b = q * c + (b % c) /\ b % c \in 0 .. c - 1 /\ q \in Nat
  BY Division
<1>2. b + c \in Nat
  BY SMT DEF Nats1
<1>3. /\ b + c = ((b + c) \div c) * c + ((b + c) % c)
      /\ (b + c) % c \in 0 .. c - 1 /\ (b + c) \div c \in Nat
  BY <1>2, Division
<1> HIDE DEF q
<1>4. (q + 1) * c = q * c + c
  BY <1>1, SMT DEF Nats1
<1>5. b + c = (q + 1) * c + (b % c) /\ q + 1 \in Nat
  BY <1>1, <1>4, SMT DEF Nats1
<1>6. (b + c) \div c = q + 1
  BY <1>1, <1>3, <1>5, Unique
<1> QED
  BY <1>6 DEF q

\* Left-symmetric RAID-5: consecutive chunks lie on consecutive disks, across the
\* ends of the rows too, so that reading in sequence uses all disks in turn.
THEOREM LeftSymmetricTurns ==
  ASSUME NEW ar \in ParityArrays, ar.raidLevel = 5, ar.raid5type = "LS", NEW b \in Nat
  PROVE  bmap(ar, b + ar.chunkSize).disk = (bmap(ar, b).disk + 1) % ar.numDisks
<1> DEFINE n == ar.numDisks
           cnum == b \div ar.chunkSize
           row == cnum \div (n - 1)
           col == cnum % (n - 1)
           row1 == (cnum + 1) \div (n - 1)
           col1 == (cnum + 1) % (n - 1)
           t == row % n
           t1 == row1 % n
           disk == bmap(ar, b).disk
           disk1 == bmap(ar, b + ar.chunkSize).disk
<1>1. n \in Nats1 /\ n - 1 \in Nats1
  BY SMT DEF ParityArrays, Arrays, Nats1
<1>2. cnum \in Nat /\ (b + ar.chunkSize) \div ar.chunkSize = cnum + 1
  <2>1. ar.chunkSize \in Nats1
    BY DEF ParityArrays, Arrays, Nats1
  <2> QED
    BY <2>1, Division, NextChunk
<1>3. row \in Nat /\ col \in 0 .. (n - 1) - 1 /\ row1 \in Nat /\ col1 \in 0 .. (n - 1) - 1
  <2>1. cnum + 1 \in Nat
    BY <1>2, SMT
  <2> QED
    BY <1>1, <1>2, <2>1, Division
<1>4. disk = LeftSymmetric(ar, col, row) /\ disk1 = LeftSymmetric(ar, col1, row1)
  BY <1>2 DEF bmap, bmap5
<1>5. /\ disk = IF col >= t THEN col - t ELSE col - t + n
      /\ disk1 = IF col1 >= t1 THEN col1 - t1 ELSE col1 - t1 + n
      /\ t \in 0 .. n - 1 /\ t1 \in 0 .. n - 1
  <2> HIDE DEF col, row, col1, row1
  <2>1. col \in 0 .. ar.numDisks - 2 /\ col1 \in 0 .. ar.numDisks - 2
    BY <1>1, <1>3, SMT DEF Nats1
  <2> QED
    BY <1>3, <1>4, <2>1, LeftSymmetricUnfold
<1>6. IF col < (n - 1) - 1 THEN col1 = col + 1 /\ row1 = row ELSE col1 = 0 /\ row1 = row + 1
  BY <1>1, <1>2, NextNumber
<1>7. IF t < n - 1 THEN (row + 1) % n = t + 1 ELSE (row + 1) % n = 0
  BY <1>1, <1>3, NextNumber
<1>8. t1 = IF row1 = row THEN t ELSE IF t < n - 1 THEN t + 1 ELSE 0
  <2> HIDE DEF row, row1, col, col1, n
  <2>1. row1 = row \/ row1 = row + 1
    BY <1>6
  <2> QED
    BY <1>7, <2>1 DEF t1, t
<1> HIDE DEF n, cnum, row, col, row1, col1, t, t1, disk, disk1
<1>9. /\ disk \in 0 .. n - 1
      /\ disk1 = IF disk + 1 = n THEN 0 ELSE disk + 1
  BY <1>1, <1>3, <1>5, <1>6, <1>8, SMT DEF Nats1
<1>10. (disk + 1) % n = IF disk + 1 = n THEN 0 ELSE disk + 1
  <2>1. disk + 1 \in Int /\ (disk + 1 = n \/ disk + 1 \in 0 .. n - 1)
    BY <1>1, <1>9, SMT DEF Nats1
  <2>2. n % n = 0
    BY <1>1, SMT DEF Nats1
  <2> QED
    BY <1>1, <2>1, <2>2, Wrap, SMT DEF Nats1
<1> QED
  BY <1>9, <1>10 DEF n, disk, disk1
-----------------------------------------------------------------------------
(***************************************************************************)
(* Sets of numbers: the least, the greatest, the k-th.                     *)
(***************************************************************************)
LEMMA LeastNumber ==
  ASSUME NEW S \in SUBSET Nat, S # {}
  PROVE  \E n \in S : \A x \in S : n <= x
<1>1. PICK n \in S : \A x \in S : ~ (<<x, n>> \in OpToRel(<, Nat))
  BY WFMin, NatLessThanWellFounded
<1>2. OpToRel(<, Nat) = {ss \in Nat \X Nat : ss[1] < ss[2]}
  BY Zenon DEF OpToRel
<1>3. ASSUME NEW x \in S PROVE n <= x
  <2>1. ~ (<<x, n>> \in {ss \in Nat \X Nat : ss[1] < ss[2]})
    BY <1>1, <1>2
  <2> QED
    BY <2>1
<1> QED
  BY <1>3

\* A bounded set has a greatest element: the least of its bounds.
LEMMA GreatestNumber ==
  ASSUME NEW S \in SUBSET Nat, S # {}, NEW bound \in Nat, \A x \in S : x <= bound
  PROVE  /\ Max(S) \in S
         /\ \A x \in S : x <= Max(S)
<1> DEFINE T == {n \in Nat : \A x \in S : x <= n}
<1>1. PICK n \in T : \A x \in T : n <= x
  <2>1. T \in SUBSET Nat /\ bound \in T
    OBVIOUS
  <2> QED
    BY <2>1, LeastNumber
<1>2. n \in S
  <2> SUFFICES ASSUME n \notin S PROVE FALSE
    OBVIOUS
  <2>0. n \in Nat /\ \A x \in S : x \in Nat /\ x <= n /\ x # n
    BY <1>1
  <2>1. \A x \in S : x <= n - 1
    BY <2>0
  <2>2. n # 0
    <3>1. PICK x \in S : TRUE
      OBVIOUS
    <3>2. x \in Nat /\ x <= n - 1
      BY <2>0, <2>1
    <3> QED
      BY <3>2
  <2>3. n - 1 \in T
    BY <2>0, <2>1, <2>2
  <2> QED
    BY <1>1, <2>0, <2>3
<1>3. n \in S /\ \A x \in S : n >= x
  BY <1>1, <1>2
<1>4. Max(S) \in S /\ \A x \in S : Max(S) >= x
  BY <1>3 DEF Max
<1> QED
  BY <1>4

\* The elements of a finite set of numbers, counted from 0 in their order.
RankIn(S, b) == Cardinality({a \in S : a < b})

LEMMA RanksDiffer ==
  ASSUME NEW S \in SUBSET Int, IsFiniteSet(S), NEW b \in S, NEW c \in S, b < c
  PROVE  RankIn(S, b) \in Nat /\ RankIn(S, c) \in Nat /\ RankIn(S, b) < RankIn(S, c)
<1> DEFINE B == {a \in S : a < b}
           C == {a \in S : a < c}
<1>1. IsFiniteSet(C) /\ B \in SUBSET C /\ b \in C /\ b \notin B
  <2>1. C \in SUBSET S
    OBVIOUS
  <2>2. IsFiniteSet(C)
    BY <2>1, FS_Subset
  <2>3. b \in C /\ b \notin B
    OBVIOUS
  <2>4. B \in SUBSET C
    <3> SUFFICES ASSUME NEW a \in S, a < b PROVE a < c
      OBVIOUS
    <3> QED
      OBVIOUS
  <2> QED
    BY <2>2, <2>3, <2>4
<1> HIDE DEF B, C
<1>2. IsFiniteSet(B) /\ Cardinality(B) <= Cardinality(C) /\ Cardinality(B) # Cardinality(C)
  BY <1>1, FS_Subset
<1>3. Cardinality(B) \in Nat /\ Cardinality(C) \in Nat
  BY <1>1, <1>2, FS_CardinalityType
<1> QED
  BY <1>2, <1>3 DEF RankIn, B, C

LEMMA Ranked ==
  ASSUME NEW S \in SUBSET Int, IsFiniteSet(S)
  PROVE  /\ \A b, c \in S : RankIn(S, b) = RankIn(S, c) => b = c
         /\ \A k \in 1 .. Cardinality(S) : \E b \in S : RankIn(S, b) = k - 1
         /\ \A b \in S : RankIn(S, b) \in 0 .. Cardinality(S) - 1
<1>1. \A b, c \in S : RankIn(S, b) = RankIn(S, c) => b = c
  <2> SUFFICES ASSUME NEW b \in S, NEW c \in S, RankIn(S, b) = RankIn(S, c) PROVE b = c
    OBVIOUS
  <2>1. ~ b < c
    BY RanksDiffer
  <2>2. ~ c < b
    BY RanksDiffer
  <2> QED
    BY <2>1, <2>2
<1>2. ASSUME NEW b \in S PROVE RankIn(S, b) \in 0 .. Cardinality(S) - 1
  <2> DEFINE B == {a \in S : a < b}
  <2>1. B \in SUBSET S /\ b \in S /\ b \notin B
    OBVIOUS
  <2> HIDE DEF B
  <2>2. IsFiniteSet(B) /\ Cardinality(B) <= Cardinality(S) /\ Cardinality(B) # Cardinality(S)
    BY <2>1, FS_Subset
  <2>3. Cardinality(B) \in Nat /\ Cardinality(S) \in Nat
    BY <2>2, FS_CardinalityType
  <2> QED
    BY <2>2, <2>3 DEF RankIn, B
<1>3. ASSUME NEW k \in 1 .. Cardinality(S) PROVE \E b \in S : RankIn(S, b) = k - 1
  <2> DEFINE n == Cardinality(S)
             T == 0 .. n - 1
             f == [b \in S |-> RankIn(S, b)]
  <2>1. n \in Nat
    BY FS_CardinalityType
  <2>2. IsFiniteSet(T) /\ Cardinality(T) = n
    <3>1. 0 \in Int /\ n - 1 \in Int
      BY <2>1
    <3> HIDE DEF n
    <3>2. IsFiniteSet(0 .. n - 1) /\ Cardinality(0 .. n - 1) = IF 0 > n - 1 THEN 0 ELSE n - 1 - 0 + 1
      BY <3>1, FS_Interval
    <3> QED
      BY <2>1, <3>2
  <2>3. f \in Injection(S, T)
    BY <1>1, <1>2 DEF Injection, IsInjective
  <2> HIDE DEF f, T
  <2>4. f \in Surjection(S, T)
    BY <2>2, <2>3, FS_Injection
  <2>5. k - 1 \in T
    BY <2>1 DEF T
  <2> QED
    BY <2>4, <2>5 DEF Surjection, f
<1> QED
  BY <1>1, <1>2, <1>3
-----------------------------------------------------------------------------
(***************************************************************************)
(* Places, and the blocks of a stripe.                                     *)
(***************************************************************************)
PlacesOf(ar) == [disk : 0 .. ar.numDisks - 1, off : Nat]

LEMMA PlaceType ==
  ASSUME NEW ar \in Arrays, NEW b \in Nat
  PROVE  /\ bmap(ar, b) \in PlacesOf(ar)
         /\ ar.raidLevel = 1 =>
              /\ Copy(bmap(ar, b)) \in PlacesOf(ar)
              /\ Copy(bmap(ar, b)).off = bmap(ar, b).off
              /\ bmap(ar, b) = bmap1(ar, b)
<1>1. bmap(ar, b) = [disk |-> bmap(ar, b).disk, off |-> bmap(ar, b).off]
  BY DEF Arrays, bmap, bmap0, bmap1, bmap4, bmap5
<1>2. bmap(ar, b).off \in Nat
  <2>1. /\ bmap(ar, b).off = RowNum(ar, b) * ar.chunkSize + (b % ar.chunkSize)
        /\ RowNum(ar, b) \in Nat
    BY PlaceOff
  <2>2. ar.chunkSize \in Nats1
    BY DEF Arrays, Nats1
  <2>3. b % ar.chunkSize \in Nat
    BY <2>2, Division
  <2>4. RowNum(ar, b) * ar.chunkSize \in Nat
    BY <2>1, <2>2, SMT DEF Nats1
  <2> QED
    BY <2>1, <2>3, <2>4
<1>3. /\ bmap(ar, b).disk \in 0 .. ar.numDisks - 1
      /\ ar.raidLevel = 1 => Copy(bmap(ar, b)).disk \in 0 .. ar.numDisks - 1
  BY DiskExists
<1>4. bmap(ar, b) \in PlacesOf(ar)
  BY <1>1, <1>2, <1>3 DEF PlacesOf
<1>5. ASSUME ar.raidLevel = 1
      PROVE  Copy(bmap(ar, b)) = [disk |-> Copy(bmap(ar, b)).disk, off |-> bmap(ar, b).off]
  <2> DEFINE p == bmap(ar, b)
  <2>1. p = [disk |-> p.disk, off |-> p.off]
    BY <1>1
  <2> HIDE DEF p
  <2>2. [p EXCEPT !.disk = @ + 1] = [disk |-> [p EXCEPT !.disk = @ + 1].disk, off |-> p.off]
    BY <2>1
  <2> QED
    BY <2>2 DEF Copy, p
<1>6. ar.raidLevel = 1 => bmap(ar, b) = bmap1(ar, b)
  BY DEF bmap
<1> QED
  BY <1>2, <1>3, <1>4, <1>5, <1>6 DEF PlacesOf

LEMMA ParityType ==
  ASSUME NEW ar \in ParityArrays, NEW s \in Nat
  PROVE  pmap(ar, s) \in 0 .. ar.numDisks - 1
<1>1. ar.numDisks \in Nats1 /\ ar.numDisks >= 2
  BY DEF ParityArrays, Arrays, Nats1
<1>2. s % ar.numDisks \in 0 .. ar.numDisks - 1
  BY <1>1, Division
<1>3. pmap(ar, s) = IF ar.raidLevel = 4 THEN ar.numDisks - 1
                                        ELSE (ar.numDisks - 1) - (s % ar.numDisks)
  BY ParityDisk DEF Raid5Pdisk
<1> QED
  BY <1>1, <1>2, <1>3 DEF Nats1

LEMMA StripeSize ==
  ASSUME NEW ar \in ParityArrays
  PROVE  ar.chunkSize \in Nats1 /\ blocksInStripe(ar) \in Nats1 /\ ar \in Arrays
<1>1. ar.chunkSize \in Nats1 /\ ar.numDisks - 1 \in Nats1 /\ ar \in Arrays
  BY DEF ParityArrays, Arrays, Nats1
<1> DEFINE m == ar.numDisks - 1
           c == ar.chunkSize
<1>2. m * c \in Nats1
  <2> HIDE DEF m, c
  <2>1. ASSUME NEW x \in Nats1, NEW y \in Nats1 PROVE x * y \in Nats1
    BY SMT DEF Nats1
  <2> QED
    BY <1>1, <2>1 DEF m, c
<1> QED
  BY <1>1, <1>2 DEF blocksInStripe

\* The blocks of a stripe are an interval.
LEMMA InStripe ==
  ASSUME NEW c \in Nats1, NEW s \in Nat, NEW b \in Nat
  PROVE  /\ s * c \in Nat /\ (s + 1) * c = s * c + c
         /\ b \div c = s <=> s * c <= b /\ b < s * c + c
         /\ b \div c < s => b < s * c
         /\ s <= b \div c <=> s * c <= b
<1>1. s * c \in Nat /\ (s + 1) * c = s * c + c
  BY SMT DEF Nats1
<1>2. b = (b \div c) * c + (b % c) /\ b % c \in 0 .. c - 1 /\ b \div c \in Nat
  BY Division
<1>3. ASSUME b \div c = s PROVE s * c <= b /\ b < s * c + c
  BY <1>1, <1>2, <1>3 DEF Nats1
<1>4. ASSUME s * c <= b, b < s * c + c PROVE b \div c = s
  <2>1. b - s * c \in 0 .. c - 1 /\ b = s * c + (b - s * c)
    BY <1>1, <1>4 DEF Nats1
  <2> QED
    BY <1>2, <2>1, Unique
<1>5. ASSUME b \div c < s PROVE b < s * c
  <2> DEFINE q == b \div c
  <2>1. q \in Nat /\ q + 1 <= s /\ b < q * c + c
    BY <1>2, <1>5 DEF Nats1
  <2> HIDE DEF q
  <2>2. q * c + c <= s * c
    <3>1. (q + 1) * c <= s * c
      BY <2>1, SMT DEF Nats1
    <3>2. (q + 1) * c = q * c + c
      BY <2>1, SMT DEF Nats1
    <3> QED
      BY <3>1, <3>2
  <2> QED
    BY <1>1, <2>1, <2>2, SMT DEF Nats1
<1>6. ASSUME s <= b \div c PROVE s * c <= b
  <2> DEFINE q == b \div c
  <2>1. q \in Nat /\ s <= q /\ q * c <= b
    <3>1. q * c \in Nat
      BY <1>2, SMT DEF Nats1
    <3> QED
      BY <1>2, <1>6, <3>1
  <2> HIDE DEF q
  <2>2. s * c <= q * c /\ q * c \in Nat
    BY <2>1, SMT DEF Nats1
  <2> QED
    BY <1>1, <2>1, <2>2
<1>7. b \div c < s \/ s <= b \div c
  BY <1>2
<1> QED
  BY <1>1, <1>3, <1>4, <1>5, <1>6, <1>7

\* What a stripe occupies of each disk: one chunk, the same on all.
LEMMA StripeOffsets ==
  ASSUME NEW ar \in ParityArrays, NEW b \in Nat, NEW s \in Nat, b \div blocksInStripe(ar) = s
  PROVE  /\ s * ar.chunkSize \in Nat
         /\ s * ar.chunkSize <= bmap(ar, b).off
         /\ bmap(ar, b).off < s * ar.chunkSize + ar.chunkSize
<1>1. ar \in Arrays /\ ar.chunkSize \in Nats1
  BY StripeSize
<1>2. bmap(ar, b).off = s * ar.chunkSize + (b % ar.chunkSize)
  BY <1>1, PlaceOff, StripeIsRow
<1>3. b % ar.chunkSize \in 0 .. ar.chunkSize - 1 /\ s * ar.chunkSize \in Nat
  BY <1>1, Division, InStripe
<1> QED
  BY <1>1, <1>2, <1>3 DEF Nats1
-----------------------------------------------------------------------------
(***************************************************************************)
(* Sequences of I/Os.                                                      *)
(***************************************************************************)
Ios == [op : {Read, Write}, place : PlacesOf(g)]

IO(op, place) == [op |-> op, place |-> place]

LEMMA IOType ==
  ASSUME NEW op \in {Read, Write}, NEW place \in PlacesOf(g)
  PROVE  IO(op, place) \in Ios /\ IO(op, place).op = op /\ IO(op, place).place = place
  BY DEF IO, Ios

LEMMA IOsDiffer ==
  ASSUME NEW o1, NEW o2, NEW p1, NEW p2, IO(o1, p1) = IO(o2, p2)
  PROVE  o1 = o2 /\ p1 = p2
  BY DEF IO

LEMMA DataAre ==
  ASSUME g \in Arrays, NEW op \in {Read, Write}, NEW from \in Nat, NEW to \in Nat, from <= to
  PROVE  LET X == DataIOs(op, Blocks(from, to))
         IN /\ X \in Seq(Ios) /\ Len(X) = to - from
            /\ \A i \in 1 .. to - from : X[i] = IO(op, bmap(g, from + i - 1))
<1> DEFINE X == DataIOs(op, Blocks(from, to))
           n == to - from
<1>1. n \in Nat
  OBVIOUS
<1>2. X = [i \in 1 .. n |-> IO(op, bmap(g, from + i - 1))]
  BY DEF DataIOs, Blocks, IO
<1>3. \A i \in 1 .. n : IO(op, bmap(g, from + i - 1)) \in Ios
  <2> SUFFICES ASSUME NEW i \in 1 .. n PROVE IO(op, bmap(g, from + i - 1)) \in Ios
    OBVIOUS
  <2>1. from + i - 1 \in Nat
    OBVIOUS
  <2> QED
    BY <2>1, PlaceType, IOType
<1> HIDE DEF X, n
<1>4. X \in [1 .. n -> Ios]
  BY <1>2, <1>3
<1>5. X \in Seq(Ios) /\ Len(X) = n
  BY <1>1, <1>4
<1> QED
  BY <1>2, <1>5 DEF X, n

LEMMA RowStartsAre ==
  ASSUME g \in Arrays, NEW from \in Nat, NEW to \in Nat, from <= to
  PROVE  LET F == RowStarts(from, to)
         IN /\ F \in SUBSET (from .. to - 1) /\ IsFiniteSet(F) /\ Cardinality(F) \in Nat
            /\ \A k \in 1 .. Cardinality(F) :
                 /\ RowStart(k, from, to) \in F
                 /\ RankIn(F, RowStart(k, from, to)) = k - 1
            /\ \A b \in F : \E k \in 1 .. Cardinality(F) : RowStart(k, from, to) = b
            /\ \A b \in from .. to - 1 : \E a \in F : bmap(g, a).off = bmap(g, b).off
            /\ \A a, b \in F : bmap(g, a).off = bmap(g, b).off => a = b
<1> DEFINE F == RowStarts(from, to)
<1>1. F \in SUBSET (from .. to - 1)
  BY DEF RowStarts
<1>2. IsFiniteSet(F)
  <2>1. from \in Int /\ to - 1 \in Int
    OBVIOUS
  <2>2. IsFiniteSet(from .. to - 1)
    BY <2>1, FS_Interval
  <2> QED
    BY <1>1, <2>2, FS_Subset
<1>3. Cardinality(F) \in Nat
  BY <1>2, FS_CardinalityType
<1>4. F \in SUBSET Int
  BY <1>1
<1>5. /\ \A b, c \in F : RankIn(F, b) = RankIn(F, c) => b = c
      /\ \A k \in 1 .. Cardinality(F) : \E b \in F : RankIn(F, b) = k - 1
      /\ \A b \in F : RankIn(F, b) \in 0 .. Cardinality(F) - 1
  BY <1>2, <1>4, Ranked
<1>6. \A k : RowStart(k, from, to) = CHOOSE b \in F : RankIn(F, b) = k - 1
  BY DEF RowStart, RankIn
<1>7. ASSUME NEW b \in from .. to - 1
      PROVE  \E a \in F : bmap(g, a).off = bmap(g, b).off
  <2> DEFINE S == {a \in from .. to - 1 : bmap(g, a).off = bmap(g, b).off}
  <2>1. S \in SUBSET Nat /\ b \in S
    OBVIOUS
  <2>2. PICK a \in S : \A x \in S : a <= x
    BY <2>1, LeastNumber
  <2>3. ASSUME NEW x \in from .. a - 1 PROVE bmap(g, x).off # bmap(g, a).off
    <3>1. x \in from .. to - 1 /\ ~ a <= x
      BY <2>2
    <3> QED
      BY <2>2, <3>1
  <2>4. a \in F
    BY <2>2, <2>3 DEF RowStarts
  <2> QED
    BY <2>2, <2>4
<1>8. ASSUME NEW a \in F, NEW b \in F, bmap(g, a).off = bmap(g, b).off PROVE a = b
  <2>1. a \in from .. to - 1 /\ b \in from .. to - 1
    BY <1>1
  <2>2. ~ a < b
    <3> SUFFICES ASSUME a < b PROVE FALSE
      OBVIOUS
    <3>1. a \in from .. b - 1
      BY <2>1
    <3> QED
      BY <1>8, <3>1 DEF RowStarts
  <2>3. ~ b < a
    <3> SUFFICES ASSUME b < a PROVE FALSE
      OBVIOUS
    <3>1. b \in from .. a - 1
      BY <2>1
    <3> QED
      BY <1>8, <3>1 DEF RowStarts
  <2> QED
    BY <2>1, <2>2, <2>3
<1> HIDE DEF F
<1>9. \A k \in 1 .. Cardinality(F) :
        RowStart(k, from, to) \in F /\ RankIn(F, RowStart(k, from, to)) = k - 1
  BY <1>5, <1>6
<1>10. ASSUME NEW b \in F PROVE \E k \in 1 .. Cardinality(F) : RowStart(k, from, to) = b
  <2> DEFINE k == RankIn(F, b) + 1
  <2>1. RankIn(F, b) \in 0 .. Cardinality(F) - 1
    BY <1>5
  <2>2. k \in 1 .. Cardinality(F) /\ k - 1 = RankIn(F, b)
    BY <1>3, <2>1
  <2>3. RowStart(k, from, to) \in F /\ RankIn(F, RowStart(k, from, to)) = RankIn(F, b)
    BY <1>9, <2>2
  <2> QED
    BY <1>5, <2>2, <2>3
<1> QED
  BY <1>1, <1>2, <1>3, <1>7, <1>8, <1>9, <1>10 DEF F

ParityAt(s, b) == [disk |-> pmap(g, s), off |-> bmap(g, b).off]

\* X are the I/Os of kind op on the parity of the rows of the blocks from .. to-1.
IsParity(X, op, s, from, to) ==
  /\ X \in Seq(Ios)
  /\ \A i \in 1 .. Len(X) : \E b \in from .. to - 1 : X[i] = IO(op, ParityAt(s, b))
  /\ \A b \in from .. to - 1 : \E i \in 1 .. Len(X) : X[i] = IO(op, ParityAt(s, b))
  /\ \A i, j \in 1 .. Len(X) : X[i] = X[j] => i = j

LEMMA ParityAre ==
  ASSUME g \in ParityArrays, NEW op \in {Read, Write}, NEW s \in Nat,
         NEW from \in Nat, NEW to \in Nat, from <= to
  PROVE  IsParity(ParityIOs(op, s, from, to), op, s, from, to)
<1> DEFINE X == ParityIOs(op, s, from, to)
           F == RowStarts(from, to)
           n == Cardinality(F)
           at(k) == RowStart(k, from, to)
<1>1. /\ F \in SUBSET (from .. to - 1) /\ n \in Nat
      /\ \A k \in 1 .. n : at(k) \in F /\ RankIn(F, at(k)) = k - 1
      /\ \A b \in F : \E k \in 1 .. n : at(k) = b
      /\ \A b \in from .. to - 1 : \E a \in F : bmap(g, a).off = bmap(g, b).off
      /\ \A a, b \in F : bmap(g, a).off = bmap(g, b).off => a = b
  BY StripeSize, RowStartsAre
<1>2. X = [k \in 1 .. n |-> IO(op, ParityAt(s, at(k)))]
  BY DEF ParityIOs, IO, ParityAt
<1>3. \A b \in from .. to - 1 : IO(op, ParityAt(s, b)) \in Ios
  <2> SUFFICES ASSUME NEW b \in from .. to - 1 PROVE IO(op, ParityAt(s, b)) \in Ios
    OBVIOUS
  <2>1. bmap(g, b) \in PlacesOf(g) /\ pmap(g, s) \in 0 .. g.numDisks - 1
    BY StripeSize, PlaceType, ParityType
  <2>2. ParityAt(s, b) \in PlacesOf(g)
    BY <2>1 DEF PlacesOf, ParityAt
  <2> QED
    BY <2>2, IOType
<1> HIDE DEF X, F, n, at
<1>4. X \in [1 .. n -> Ios]
  BY <1>1, <1>2, <1>3
<1>5. X \in Seq(Ios) /\ Len(X) = n
  BY <1>1, <1>4
<1>6. \A i \in 1 .. n : \E b \in from .. to - 1 : X[i] = IO(op, ParityAt(s, b))
  BY <1>1, <1>2
<1>7. ASSUME NEW b \in from .. to - 1
      PROVE  \E i \in 1 .. n : X[i] = IO(op, ParityAt(s, b))
  <2>1. PICK a \in F : bmap(g, a).off = bmap(g, b).off
    BY <1>1
  <2>2. PICK k \in 1 .. n : at(k) = a
    BY <1>1
  <2> QED
    BY <1>2, <2>1, <2>2 DEF ParityAt
<1>8. ASSUME NEW i \in 1 .. n, NEW j \in 1 .. n, X[i] = X[j] PROVE i = j
  <2>1. ParityAt(s, at(i)) = ParityAt(s, at(j))
    BY <1>2, <1>8, IOsDiffer
  <2>2. bmap(g, at(i)).off = bmap(g, at(j)).off
    BY <2>1 DEF ParityAt
  <2>3. at(i) = at(j)
    BY <1>1, <2>2
  <2>4. i - 1 = j - 1
    BY <1>1, <2>3
  <2> QED
    BY <2>4
<1> QED
  BY <1>5, <1>6, <1>7, <1>8 DEF X, IsParity
\* Z is X followed by Y.
Follows(X, Y, Z) ==
  /\ Z \in Seq(Ios) /\ Len(Z) = Len(X) + Len(Y)
  /\ \A i \in 1 .. Len(X) : i \in 1 .. Len(Z) /\ Z[i] = X[i]
  /\ \A j \in 1 .. Len(Y) : Len(X) + j \in 1 .. Len(Z) /\ Z[Len(X) + j] = Y[j]
  /\ \A i \in 1 .. Len(Z) : i > Len(X) => i - Len(X) \in 1 .. Len(Y) /\ Z[i] = Y[i - Len(X)]

LEMMA Joined ==
  ASSUME NEW X \in Seq(Ios), NEW Y \in Seq(Ios)
  PROVE  Follows(X, Y, X \o Y)
<1>1. /\ X \o Y \in Seq(Ios) /\ Len(X \o Y) = Len(X) + Len(Y)
      /\ \A i \in 1 .. Len(X) + Len(Y) :
           (X \o Y)[i] = IF i <= Len(X) THEN X[i] ELSE Y[i - Len(X)]
  BY ConcatProperties
<1>2. Len(X) \in Nat /\ Len(Y) \in Nat
  BY LenProperties
<1> DEFINE Z == X \o Y
<1> HIDE DEF Z
<1>3. /\ Z \in Seq(Ios) /\ Len(Z) = Len(X) + Len(Y)
      /\ \A i \in 1 .. Len(Z) : Z[i] = IF i <= Len(X) THEN X[i] ELSE Y[i - Len(X)]
  BY <1>1 DEF Z
<1>4. \A j \in 1 .. Len(Y) : Len(X) + j \in 1 .. Len(Z) /\ Z[Len(X) + j] = Y[j]
  <2> SUFFICES ASSUME NEW j \in 1 .. Len(Y)
               PROVE  Len(X) + j \in 1 .. Len(Z) /\ Z[Len(X) + j] = Y[j]
    OBVIOUS
  <2>1. Len(X) + j \in 1 .. Len(Z) /\ ~ (Len(X) + j <= Len(X)) /\ (Len(X) + j) - Len(X) = j
    BY <1>2, <1>3
  <2> QED
    BY <1>3, <2>1
<1>5. \A i \in 1 .. Len(X) : i \in 1 .. Len(Z) /\ Z[i] = X[i]
  BY <1>2, <1>3
<1>6. \A i \in 1 .. Len(Z) : i > Len(X) => i - Len(X) \in 1 .. Len(Y) /\ Z[i] = Y[i - Len(X)]
  BY <1>2, <1>3
<1>7. Follows(X, Y, Z)
  BY <1>3, <1>4, <1>5, <1>6 DEF Follows
<1> QED
  BY <1>7 DEF Z

(***************************************************************************)
(* The part of a write that lies in one stripe: first it reads, either all *)
(* blocks of the stripe it does not write, or all it writes and their      *)
(* parity; then it writes its blocks and the parity of their rows, each    *)
(* once, and touches nothing but the chunks of its stripe.                 *)
(***************************************************************************)
ReadsFor(s, from, to, reads) ==
  \/ \A b \in Nat :
       b \div blocksInStripe(g) = s /\ b \notin from .. to - 1 => bmap(g, b) \in reads
  \/ \A b \in from .. to - 1 : bmap(g, b) \in reads /\ ParityAt(s, b) \in reads

InChunks(s, place) ==
  s * g.chunkSize <= place.off /\ place.off < s * g.chunkSize + g.chunkSize

ReadsFirst(w, s, from, to) ==
  \E r \in 0 .. Len(w) :
    /\ \A i \in 1 .. Len(w) : w[i].op = IF i <= r THEN Read ELSE Write
    /\ ReadsFor(s, from, to, {w[i].place : i \in 1 .. r})

WritesOnce(w, s, from, to) ==
  /\ \A b \in from .. to - 1 : \A place \in {bmap(g, b), ParityAt(s, b)} :
       \E i \in 1 .. Len(w) : w[i] = IO(Write, place)
  /\ \A i \in 1 .. Len(w) :
       w[i].op = Write => \E b \in from .. to - 1 : w[i].place \in {bmap(g, b), ParityAt(s, b)}
  /\ \A i, j \in 1 .. Len(w) : w[i].op = Write /\ w[i] = w[j] => i = j

\* The reads of both kinds of parity.
IsReads(R, s, from, to) ==
  /\ R \in Seq(Ios)
  /\ \A i \in 1 .. Len(R) : R[i].op = Read /\ InChunks(s, R[i].place)
  /\ ReadsFor(s, from, to, {R[i].place : i \in 1 .. Len(R)})

LEMMA BlockInChunks ==
  ASSUME g \in ParityArrays, NEW s \in Nat, NEW b \in Nat, b \div blocksInStripe(g) = s
  PROVE  InChunks(s, bmap(g, b)) /\ InChunks(s, ParityAt(s, b))
  BY StripeOffsets DEF InChunks, ParityAt

LEMMA SubtractiveAre ==
  ASSUME g \in ParityArrays, NEW s \in Nat, NEW from \in Nat, NEW to \in Nat, from <= to,
         \A b \in from .. to - 1 : b \div blocksInStripe(g) = s
  PROVE  IsReads(SubtractiveReads(s, from, to), s, from, to)
<1> DEFINE X == DataIOs(Read, Blocks(from, to))
           Y == ParityIOs(Read, s, from, to)
           R == SubtractiveReads(s, from, to)
<1>1. /\ X \in Seq(Ios) /\ Len(X) = to - from
      /\ \A i \in 1 .. to - from : X[i] = IO(Read, bmap(g, from + i - 1))
  BY StripeSize, DataAre
<1>2. /\ Y \in Seq(Ios)
      /\ \A i \in 1 .. Len(Y) : \E b \in from .. to - 1 : Y[i] = IO(Read, ParityAt(s, b))
      /\ \A b \in from .. to - 1 : \E i \in 1 .. Len(Y) : Y[i] = IO(Read, ParityAt(s, b))
  <2>1. IsParity(Y, Read, s, from, to)
    BY ParityAre
  <2> QED
    BY <2>1 DEF IsParity
<1>3. R = X \o Y
  BY DEF SubtractiveReads
<1> HIDE DEF X, Y, R
<1>4. /\ R \in Seq(Ios) /\ Len(R) = Len(X) + Len(Y)
      /\ \A i \in 1 .. Len(X) : i \in 1 .. Len(R) /\ R[i] = X[i]
      /\ \A j \in 1 .. Len(Y) : Len(X) + j \in 1 .. Len(R) /\ R[Len(X) + j] = Y[j]
      /\ \A i \in 1 .. Len(R) : i > Len(X) => i - Len(X) \in 1 .. Len(Y) /\ R[i] = Y[i - Len(X)]
  <2>1. Follows(X, Y, R)
    BY <1>1, <1>2, <1>3, Joined
  <2> QED
    BY <2>1 DEF Follows
<1>5. \A op, place : IO(op, place).op = op /\ IO(op, place).place = place
  BY DEF IO
<1>6. ASSUME NEW i \in 1 .. Len(R)
      PROVE  R[i].op = Read /\ InChunks(s, R[i].place)
  <2>1. CASE i <= Len(X)
    <3>1. i \in 1 .. to - from /\ from + i - 1 \in from .. to - 1
      BY <1>1, <2>1
    <3>2. R[i] = IO(Read, bmap(g, from + i - 1))
      BY <1>1, <1>4, <2>1, <3>1
    <3> QED
      BY <1>5, <3>1, <3>2, BlockInChunks
  <2>2. CASE i > Len(X)
    <3>1. PICK b \in from .. to - 1 : R[i] = IO(Read, ParityAt(s, b))
      BY <1>2, <1>4, <2>2
    <3> QED
      BY <1>5, <3>1, BlockInChunks
  <2> QED
    BY <1>1, <2>1, <2>2
<1>7. ASSUME NEW b \in from .. to - 1
      PROVE  /\ bmap(g, b) \in {R[i].place : i \in 1 .. Len(R)}
             /\ ParityAt(s, b) \in {R[i].place : i \in 1 .. Len(R)}
  <2>1. b - from + 1 \in 1 .. to - from /\ from + (b - from + 1) - 1 = b
    OBVIOUS
  <2>2. b - from + 1 \in 1 .. Len(R) /\ R[b - from + 1] = IO(Read, bmap(g, b))
    BY <1>1, <1>4, <2>1
  <2>3. PICK j \in 1 .. Len(Y) : Y[j] = IO(Read, ParityAt(s, b))
    BY <1>2
  <2>4. Len(X) + j \in 1 .. Len(R) /\ R[Len(X) + j] = IO(Read, ParityAt(s, b))
    BY <1>4, <2>3
  <2> QED
    BY <1>5, <2>2, <2>4
<1> QED
  BY <1>4, <1>6, <1>7 DEF IsReads, ReadsFor, R

LEMMA AdditiveAre ==
  ASSUME g \in ParityArrays, NEW s \in Nat, NEW from \in Nat, NEW to \in Nat, from <= to,
         s * blocksInStripe(g) <= from, to <= s * blocksInStripe(g) + blocksInStripe(g)
  PROVE  IsReads(AdditiveReads(s, from, to), s, from, to)
<1> DEFINE lo == s * blocksInStripe(g)
           hi == (s + 1) * blocksInStripe(g)
           X == DataIOs(Read, Blocks(lo, from))
           Y == DataIOs(Read, Blocks(to, hi))
           R == AdditiveReads(s, from, to)
<1>0. /\ lo \in Nat /\ hi = lo + blocksInStripe(g) /\ blocksInStripe(g) \in Nats1
      /\ \A b \in Nat : b \div blocksInStripe(g) = s <=> lo <= b /\ b < hi
  BY StripeSize, InStripe
<1>1. R = X \o Y
  BY DEF AdditiveReads
<1> HIDE DEF lo, hi, R
<1>2. hi \in Nat /\ lo <= from /\ to <= hi
  BY <1>0 DEF lo, Nats1
<1>3. /\ X \in Seq(Ios) /\ Len(X) = from - lo
      /\ \A i \in 1 .. from - lo : X[i] = IO(Read, bmap(g, lo + i - 1))
  BY <1>0, <1>2, StripeSize, DataAre
<1>4. /\ Y \in Seq(Ios) /\ Len(Y) = hi - to
      /\ \A i \in 1 .. hi - to : Y[i] = IO(Read, bmap(g, to + i - 1))
  BY <1>2, StripeSize, DataAre
<1> HIDE DEF X, Y
<1>5. /\ R \in Seq(Ios) /\ Len(R) = Len(X) + Len(Y)
      /\ \A i \in 1 .. Len(X) : i \in 1 .. Len(R) /\ R[i] = X[i]
      /\ \A j \in 1 .. Len(Y) : Len(X) + j \in 1 .. Len(R) /\ R[Len(X) + j] = Y[j]
      /\ \A i \in 1 .. Len(R) : i > Len(X) => i - Len(X) \in 1 .. Len(Y) /\ R[i] = Y[i - Len(X)]
  <2>1. Follows(X, Y, R)
    BY <1>1, <1>3, <1>4, Joined
  <2> QED
    BY <2>1 DEF Follows
<1>6. \A op, place : IO(op, place).op = op /\ IO(op, place).place = place
  BY DEF IO
<1>7. ASSUME NEW i \in 1 .. Len(R)
      PROVE  R[i].op = Read /\ InChunks(s, R[i].place)
  <2>1. CASE i <= Len(X)
    <3>1. lo + i - 1 \in Nat /\ lo <= lo + i - 1 /\ lo + i - 1 < hi
      BY <1>0, <1>2, <1>3, <2>1
    <3>2. R[i] = IO(Read, bmap(g, lo + i - 1))
      BY <1>3, <1>5, <2>1
    <3> QED
      BY <1>0, <1>6, <3>1, <3>2, BlockInChunks
  <2>2. CASE i > Len(X)
    <3> DEFINE j == i - Len(X)
    <3>1. j \in 1 .. hi - to /\ R[i] = IO(Read, bmap(g, to + j - 1))
      BY <1>4, <1>5, <2>2
    <3> HIDE DEF j
    <3>2. to + j - 1 \in Nat /\ lo <= to + j - 1 /\ to + j - 1 < hi
      BY <1>0, <1>2, <3>1
    <3> QED
      BY <1>0, <1>6, <3>1, <3>2, BlockInChunks
  <2> QED
    BY <1>3, <1>5, <2>1, <2>2
<1>8. ASSUME NEW b \in Nat, b \div blocksInStripe(g) = s, b \notin from .. to - 1
      PROVE  bmap(g, b) \in {R[i].place : i \in 1 .. Len(R)}
  <2>1. lo <= b /\ b < hi
    BY <1>0, <1>8
  <2>2. CASE b < from
    <3>1. b - lo + 1 \in 1 .. from - lo /\ lo + (b - lo + 1) - 1 = b
      BY <1>0, <2>1, <2>2
    <3>2. b - lo + 1 \in 1 .. Len(R) /\ R[b - lo + 1] = IO(Read, bmap(g, b))
      BY <1>3, <1>5, <3>1
    <3> QED
      BY <1>6, <3>2
  <2>3. CASE to <= b
    <3>1. b - to + 1 \in 1 .. hi - to /\ to + (b - to + 1) - 1 = b
      BY <1>2, <2>1, <2>3
    <3>2. /\ Len(X) + (b - to + 1) \in 1 .. Len(R)
          /\ R[Len(X) + (b - to + 1)] = IO(Read, bmap(g, b))
      BY <1>4, <1>5, <3>1
    <3> QED
      BY <1>6, <3>2
  <2> QED
    BY <1>8, <2>2, <2>3
<1> QED
  BY <1>5, <1>7, <1>8 DEF IsReads, ReadsFor, R

PartialWrite(w, s, from, to) ==
  /\ w \in Seq(Ios)
  /\ ReadsFirst(w, s, from, to)
  /\ WritesOnce(w, s, from, to)
  /\ \A i \in 1 .. Len(w) : InChunks(s, w[i].place)

\* The blocks from .. to-1 lie in stripe s.
Within(s, from, to) ==
  from < to =>
    s * blocksInStripe(g) <= from /\ to <= s * blocksInStripe(g) + blocksInStripe(g)

LEMMA WithinStripe ==
  ASSUME g \in ParityArrays, NEW s \in Nat, NEW from \in Nat, NEW to \in Nat, Within(s, from, to),
         NEW b \in from .. to - 1
  PROVE  b \div blocksInStripe(g) = s
<1>1. blocksInStripe(g) \in Nats1 /\ s * blocksInStripe(g) \in Nat
  BY StripeSize, InStripe
<1>2. s * blocksInStripe(g) <= b /\ b < s * blocksInStripe(g) + blocksInStripe(g)
  BY <1>1 DEF Within, Nats1
<1> QED
  BY <1>1, <1>2, InStripe

LEMMA PartialReads ==
  ASSUME g \in ParityArrays, NEW s \in Nat, NEW from \in Nat, NEW to \in Nat, from <= to,
         Within(s, from, to)
  PROVE  IsReads(IF (to - from) + 1 <= blocksInStripe(g) - (to - from)
                   THEN SubtractiveReads(s, from, to) ELSE AdditiveReads(s, from, to),
                 s, from, to)
<1>1. blocksInStripe(g) \in Nats1
  BY StripeSize
<1>2. CASE (to - from) + 1 <= blocksInStripe(g) - (to - from)
  BY <1>2, SubtractiveAre, WithinStripe
<1>3. CASE ~ (to - from) + 1 <= blocksInStripe(g) - (to - from)
  <2>1. from < to
    BY <1>1, <1>3 DEF Nats1
  <2>2. IsReads(AdditiveReads(s, from, to), s, from, to)
    BY <2>1, AdditiveAre DEF Within
  <2> QED
    BY <1>3, <2>2
<1> QED
  BY <1>2, <1>3

LEMMA PartialWriteIs ==
  ASSUME g \in ParityArrays, NEW s \in Nat, NEW from \in Nat, NEW to \in Nat, from <= to,
         Within(s, from, to)
  PROVE  PartialWrite(doPartialWrite(s, from, to), s, from, to)
<1> DEFINE R == IF (to - from) + 1 <= blocksInStripe(g) - (to - from)
                  THEN SubtractiveReads(s, from, to) ELSE AdditiveReads(s, from, to)
           D == DataIOs(Write, Blocks(from, to))
           P == ParityIOs(Write, s, from, to)
           RD == R \o D
           w == doPartialWrite(s, from, to)
<1>1. w = RD \o P
  BY DEF doPartialWrite
<1>2. IsReads(R, s, from, to)
  BY PartialReads
<1>3. /\ D \in Seq(Ios) /\ Len(D) = to - from
      /\ \A i \in 1 .. to - from : D[i] = IO(Write, bmap(g, from + i - 1))
  BY StripeSize, DataAre
<1>4. IsParity(P, Write, s, from, to)
  BY ParityAre
<1>5. \A b \in from .. to - 1 :
        /\ b \in Nat /\ b \div blocksInStripe(g) = s
        /\ InChunks(s, bmap(g, b)) /\ InChunks(s, ParityAt(s, b))
  BY WithinStripe, BlockInChunks
<1>6. \A a, b \in from .. to - 1 : bmap(g, a) # ParityAt(s, b)
  <2> SUFFICES ASSUME NEW a \in from .. to - 1, NEW b \in from .. to - 1
               PROVE  bmap(g, a).disk # pmap(g, s)
    BY DEF ParityAt
  <2> QED
    BY <1>5, DataApartFromParity
<1>7. \A a, b \in from .. to - 1 : bmap(g, a) = bmap(g, b) => a = b
  <2>1. g \in Arrays
    BY StripeSize
  <2> QED
    BY <2>1, BlocksApart
<1> HIDE DEF R, D, P, w
<1>8. R \in Seq(Ios) /\ Len(R) \in Nat
  BY <1>2, LenProperties DEF IsReads
<1>9. Follows(R, D, RD)
  BY <1>3, <1>8, Joined
<1>10. RD \in Seq(Ios) /\ P \in Seq(Ios)
  BY <1>4, <1>9 DEF Follows, IsParity
<1>11. Follows(RD, P, w)
  BY <1>1, <1>10, Joined
<1> HIDE DEF RD
<1> DEFINE r == Len(R)
           d == r + (to - from)
           n == Len(w)
<1>12. r \in Nat /\ Len(RD) = d /\ Len(P) \in Nat /\ n = d + Len(P)
  BY <1>3, <1>4, <1>8, <1>9, <1>11, LenProperties DEF Follows, IsParity
\* What the elements of w are.
<1>13. \A i \in 1 .. r : i \in 1 .. n /\ w[i] = R[i]
  BY <1>3, <1>9, <1>11, <1>12 DEF Follows
<1>14. \A j \in 1 .. to - from : r + j \in 1 .. n /\ w[r + j] = IO(Write, bmap(g, from + j - 1))
  <2> SUFFICES ASSUME NEW j \in 1 .. to - from
               PROVE  r + j \in 1 .. n /\ w[r + j] = IO(Write, bmap(g, from + j - 1))
    OBVIOUS
  <2>1. r + j \in 1 .. Len(RD) /\ RD[r + j] = D[j]
    BY <1>3, <1>9 DEF Follows
  <2>2. r + j \in 1 .. n /\ w[r + j] = RD[r + j]
    BY <1>11, <2>1 DEF Follows
  <2> QED
    BY <1>3, <2>1, <2>2
<1>15. \A k \in 1 .. Len(P) : d + k \in 1 .. n /\ w[d + k] = P[k]
  BY <1>11, <1>12 DEF Follows
<1>16. \A i \in 1 .. n :
         \/ i <= r
         \/ i > r /\ i <= d /\ i - r \in 1 .. to - from
                  /\ w[i] = IO(Write, bmap(g, from + (i - r) - 1))
         \/ i > d /\ i - d \in 1 .. Len(P) /\ w[i] = P[i - d]
  <2> SUFFICES ASSUME NEW i \in 1 .. n, ~ i <= r
               PROVE  \/ i > r /\ i <= d /\ i - r \in 1 .. to - from
                               /\ w[i] = IO(Write, bmap(g, from + (i - r) - 1))
                      \/ i > d /\ i - d \in 1 .. Len(P) /\ w[i] = P[i - d]
    OBVIOUS
  <2>1. CASE i <= d
    <3> DEFINE j == i - r
    <3>1. j \in 1 .. to - from /\ r + j = i /\ i > r
      BY <1>12, <2>1
    <3> HIDE DEF j
    <3>2. w[i] = IO(Write, bmap(g, from + j - 1))
      BY <1>14, <3>1
    <3> QED
      BY <2>1, <3>1, <3>2 DEF j
  <2>2. CASE ~ i <= d
    <3>1. i - d \in 1 .. Len(P) /\ d + (i - d) = i
      BY <1>12, <2>2
    <3> QED
      BY <1>12, <1>15, <2>2, <3>1
  <2> QED
    BY <2>1, <2>2
<1>17. \A op, place : IO(op, place).op = op /\ IO(op, place).place = place
  BY DEF IO
<1> HIDE DEF r, d, n
<1>18. d \in Nat /\ r <= d /\ n \in Nat /\ n >= r
  BY <1>12 DEF d
<1>19. \A i \in 1 .. r : w[i].op = Read /\ InChunks(s, w[i].place)
  BY <1>2, <1>13 DEF IsReads, r
<1>20. ASSUME NEW i \in 1 .. n, i > r
       PROVE  /\ w[i].op = Write /\ InChunks(s, w[i].place)
              /\ \E b \in from .. to - 1 :
                   \/ i <= d /\ w[i] = IO(Write, bmap(g, b)) /\ b = from + (i - r) - 1
                   \/ i > d /\ w[i] = IO(Write, ParityAt(s, b)) /\ w[i] = P[i - d]
                            /\ i - d \in 1 .. Len(P)
  <2>1. ~ i <= r
    BY <1>12, <1>20
  <2>2. CASE i <= d /\ i - r \in 1 .. to - from /\ w[i] = IO(Write, bmap(g, from + (i - r) - 1))
    <3> DEFINE b == from + (i - r) - 1
    <3>1. b \in from .. to - 1
      BY <1>12, <2>2
    <3> HIDE DEF b
    <3>2. i <= d /\ w[i] = IO(Write, bmap(g, b))
      BY <2>2 DEF b
    <3> QED
      BY <1>5, <1>17, <3>1, <3>2 DEF b
  <2>3. CASE i > d /\ i - d \in 1 .. Len(P) /\ w[i] = P[i - d]
    <3>1. PICK b \in from .. to - 1 : P[i - d] = IO(Write, ParityAt(s, b))
      BY <1>4, <2>3 DEF IsParity
    <3> QED
      BY <1>5, <1>17, <2>3, <3>1
  <2> QED
    BY <1>16, <2>1, <2>2, <2>3
<1>21. ReadsFirst(w, s, from, to)
  <2>1. \A i \in 1 .. n : w[i].op = IF i <= r THEN Read ELSE Write
    BY <1>12, <1>18, <1>19, <1>20
  <2>2. {w[i].place : i \in 1 .. r} = {R[i].place : i \in 1 .. r}
    BY <1>13
  <2>3. ReadsFor(s, from, to, {w[i].place : i \in 1 .. r})
    BY <1>2, <2>2 DEF IsReads, r
  <2>4. r \in 0 .. n
    BY <1>12, <1>18
  <2> QED
    BY <2>1, <2>3, <2>4 DEF ReadsFirst, n
<1>22. WritesOnce(w, s, from, to)
  <2>1. ASSUME NEW b \in from .. to - 1, NEW place \in {bmap(g, b), ParityAt(s, b)}
        PROVE  \E i \in 1 .. n : w[i] = IO(Write, place)
    <3>1. CASE place = bmap(g, b)
      <4>1. b - from + 1 \in 1 .. to - from /\ from + (b - from + 1) - 1 = b
        OBVIOUS
      <4>2. r + (b - from + 1) \in 1 .. n /\ w[r + (b - from + 1)] = IO(Write, bmap(g, b))
        BY <1>14, <4>1
      <4> QED
        BY <3>1, <4>2
    <3>2. CASE place = ParityAt(s, b)
      <4>1. PICK k \in 1 .. Len(P) : P[k] = IO(Write, ParityAt(s, b))
        BY <1>4 DEF IsParity
      <4> QED
        BY <1>15, <3>2, <4>1
    <3> QED
      BY <3>1, <3>2
  <2>2. ASSUME NEW i \in 1 .. n, w[i].op = Write
        PROVE  i > r
    BY <1>12, <1>19, <2>2 DEF Read, Write
  <2>3. ASSUME NEW i \in 1 .. n, w[i].op = Write
        PROVE  \E b \in from .. to - 1 : w[i].place \in {bmap(g, b), ParityAt(s, b)}
    BY <1>17, <1>20, <2>2, <2>3
  <2>4. ASSUME NEW i \in 1 .. n, NEW j \in 1 .. n, w[i].op = Write, w[i] = w[j]
        PROVE  i = j
    <3>1. i > r /\ j > r
      BY <2>2, <2>4
    <3>2. PICK a \in from .. to - 1 :
            \/ i <= d /\ w[i] = IO(Write, bmap(g, a)) /\ a = from + (i - r) - 1
            \/ i > d /\ w[i] = IO(Write, ParityAt(s, a)) /\ w[i] = P[i - d]
                     /\ i - d \in 1 .. Len(P)
      BY <1>20, <3>1
    <3>3. PICK b \in from .. to - 1 :
            \/ j <= d /\ w[j] = IO(Write, bmap(g, b)) /\ b = from + (j - r) - 1
            \/ j > d /\ w[j] = IO(Write, ParityAt(s, b)) /\ w[j] = P[j - d]
                     /\ j - d \in 1 .. Len(P)
      BY <1>20, <3>1
    <3>4. CASE i <= d /\ j <= d
      <4>1. bmap(g, a) = bmap(g, b)
        BY <1>12, <1>18, <2>4, <3>2, <3>3, <3>4, IOsDiffer
      <4>2. a = b
        BY <1>7, <4>1
      <4>3. a = from + (i - r) - 1 /\ b = from + (j - r) - 1
        BY <1>18, <3>2, <3>3, <3>4
      <4>4. i \in Int /\ j \in Int /\ r \in Int /\ from \in Int
        BY <1>12, <1>18
      <4>5. \A x, y, z, u \in Int : u + (x - z) - 1 = u + (y - z) - 1 => x = y
        OBVIOUS
      <4>6. from + (i - r) - 1 = from + (j - r) - 1
        BY <4>2, <4>3, Zenon
      <4> QED
        BY <4>4, <4>5, <4>6, Zenon
    <3>5. CASE i > d /\ j > d
      <4>1. P[i - d] = P[j - d] /\ i - d \in 1 .. Len(P) /\ j - d \in 1 .. Len(P)
        BY <1>18, <2>4, <3>2, <3>3, <3>5
      <4>2. i - d = j - d
        BY <1>4, <4>1 DEF IsParity
      <4> QED
        BY <1>18, <4>2
    <3>6. CASE (i <= d /\ j > d) \/ (i > d /\ j <= d)
      <4>1. \/ IO(Write, bmap(g, a)) = IO(Write, ParityAt(s, b))
            \/ IO(Write, bmap(g, b)) = IO(Write, ParityAt(s, a))
        BY <1>18, <2>4, <3>2, <3>3, <3>6
      <4>2. bmap(g, a) = ParityAt(s, b) \/ bmap(g, b) = ParityAt(s, a)
        BY <4>1, IOsDiffer
      <4> QED
        BY <1>6, <4>2
    <3> QED
      BY <1>18, <3>4, <3>5, <3>6
  <2> QED
    BY <2>1, <2>3, <2>4 DEF WritesOnce, n
<1>23. \A i \in 1 .. n : InChunks(s, w[i].place)
  BY <1>12, <1>19, <1>20
<1> QED
  BY <1>11, <1>21, <1>22, <1>23 DEF PartialWrite, Follows, w, n

-----------------------------------------------------------------------------
(***************************************************************************)
(* The disks.                                                              *)
(***************************************************************************)
Addresses == 0 .. blocksPerDisk - 1

\* An I/O that needs no seek moves less than a track, and never from where the
\* head is at first.
LEMMA NearIsNear ==
  ASSUME NEW from \in {initialAddr} \cup Addresses, NEW to \in Addresses
  PROVE  /\ Distance(from, to) \in Nat
         /\ Near(from, to) => from # initialAddr /\ Distance(from, to) <= seekTime + xferTime
<1>1. blocksPerDisk = 10000 /\ blocksPerTrack = 100 /\ numTracks = 100
  BY DEF blocksPerDisk, blocksPerTrack, numTracks
<1>2. from \in Int /\ to \in Int /\ Distance(from, to) \in Nat
  BY <1>1 DEF Addresses, initialAddr, Distance
<1>3. ASSUME Near(from, to) PROVE from # initialAddr
  <2>1. Track(initialAddr) < 0
    BY <1>1, SMT DEF Track, Quotient, initialAddr
  <2>2. Track(to) >= 0
    BY <1>1, SMT DEF Track, Quotient, Addresses
  <2>3. to - initialAddr > 100
    BY <1>1 DEF initialAddr, Addresses
  <2>4. Track(initialAddr) # Track(to)
    <3>1. Track(initialAddr) \in Int /\ Track(to) \in Int
      BY <1>1, SMT DEF Track, Quotient, initialAddr, Addresses
    <3> QED
      BY <2>1, <2>2, <3>1
  <2> QED
    BY <1>1, <1>3, <2>3, <2>4 DEF Near, initialAddr
<1>4. ASSUME Near(from, to), from \in Addresses PROVE Distance(from, to) <= 101
  <2>1. CASE Track(from) = Track(to)
    <3>1. from >= 0 /\ to >= 0 /\ from \div 100 = to \div 100
      BY <1>1, <1>4, <2>1 DEF Track, Quotient, Addresses
    <3>2. from - to < 100 /\ to - from < 100
      BY <1>2, <3>1, SMT
    <3> QED
      BY <1>2, <3>2 DEF Distance
  <2>2. CASE to - from \in -blocksPerTrack + 1 .. blocksPerTrack - 1
    BY <1>1, <1>2, <2>2 DEF Distance
  <2> QED
    BY <1>4, <2>1, <2>2 DEF Near
<1> QED
  BY <1>2, <1>3, <1>4 DEF seekTime, xferTime

-----------------------------------------------------------------------------
(***************************************************************************)
(* What the I/Os of a request, or of a part of it, must be.                *)
(***************************************************************************)
CopiesOf(ar, b) == {bmap(ar, b)} \cup (IF ar.raidLevel = 1 THEN {Copy(bmap(ar, b))} ELSE {})
ParityOf(ar, b) == [disk |-> pmap(ar, b \div blocksInStripe(ar)), off |-> bmap(ar, b).off]
Homes(ar, b) ==
  CopiesOf(ar, b) \cup (IF ar.raidLevel \in {4, 5} THEN {ParityOf(ar, b)} ELSE {})

\* P reads the blocks lo .. hi-1, each once, in order.
ReadsThese(ar, P, lo, hi) ==
  /\ Len(P) = hi - lo
  /\ \A i \in 1 .. Len(P) : P[i].op = Read /\ P[i].place \in CopiesOf(ar, lo + i - 1)

\* P writes the homes of the blocks lo .. hi-1, each once, and nothing else.
WritesThese(ar, P, lo, hi) ==
  /\ \A b \in lo .. hi - 1 : \A place \in Homes(ar, b) :
       \E i \in 1 .. Len(P) : P[i] = IO(Write, place)
  /\ \A i \in 1 .. Len(P) :
       P[i].op = Write => \E b \in lo .. hi - 1 : P[i].place \in Homes(ar, b)
  /\ \A i, j \in 1 .. Len(P) : P[i].op = Write /\ P[i] = P[j] => i = j

LEMMA ReadsPlanned ==
  ASSUME g \in Arrays, size \in Nat, NEW addr \in Nat
  PROVE  /\ RequestIOs(addr, FALSE) \in Seq(Ios)
         /\ ReadsThese(g, RequestIOs(addr, FALSE), addr, addr + size)
<1> DEFINE P == RequestIOs(addr, FALSE)
<1>1. \A op, place : IO(op, place).op = op /\ IO(op, place).place = place
  BY DEF IO
<1>2. CASE g.raidLevel # 1
  <2>1. P = DataIOs(Read, Blocks(addr, addr + size))
    BY <1>2 DEF RequestIOs
  <2> HIDE DEF P
  <2>2. /\ P \in Seq(Ios) /\ Len(P) = size
        /\ \A i \in 1 .. size : P[i] = IO(Read, bmap(g, addr + i - 1))
    <3> DEFINE to == addr + size
    <3>1. to \in Nat /\ addr <= to /\ to - addr = size
      OBVIOUS
    <3>2. P = DataIOs(Read, Blocks(addr, to))
      BY <2>1
    <3> HIDE DEF to
    <3> QED
      BY <3>1, <3>2, DataAre
  <2>3. \A i \in 1 .. size : P[i].op = Read /\ P[i].place \in CopiesOf(g, addr + i - 1)
    BY <1>1, <2>2 DEF CopiesOf
  <2>4. Len(P) = (addr + size) - addr
    BY <2>2
  <2> QED
    BY <2>2, <2>3, <2>4 DEF ReadsThese, P
<1>3. CASE g.raidLevel = 1
  <2> DEFINE f == [i \in 1 .. size |-> BalancedRead(addr + i - 1)]
  <2>1. P = f
    BY <1>3 DEF RequestIOs, Blocks
  <2>2. \A i \in 1 .. size :
          /\ BalancedRead(addr + i - 1) \in Ios
          /\ BalancedRead(addr + i - 1).op = Read
          /\ BalancedRead(addr + i - 1).place \in CopiesOf(g, addr + i - 1)
    <3> SUFFICES ASSUME NEW b \in Nat
                 PROVE  /\ BalancedRead(b) \in Ios /\ BalancedRead(b).op = Read
                        /\ BalancedRead(b).place \in CopiesOf(g, b)
      OBVIOUS
    <3>1. /\ bmap(g, b) \in PlacesOf(g) /\ Copy(bmap(g, b)) \in PlacesOf(g)
          /\ bmap(g, b) = bmap1(g, b)
      BY <1>3, PlaceType
    <3>2. \/ BalancedRead(b) = IO(Read, bmap(g, b))
          \/ BalancedRead(b) = IO(Read, Copy(bmap(g, b)))
      BY <3>1 DEF BalancedRead, IO
    <3> QED
      BY <1>1, <1>3, <3>1, <3>2, IOType DEF CopiesOf
  <2>3. f \in [1 .. size -> Ios]
    BY <2>2
  <2> HIDE DEF P, f
  <2>4. f \in Seq(Ios) /\ Len(f) = size
    BY <2>3
  <2>5. \A i \in 1 .. size : f[i].op = Read /\ f[i].place \in CopiesOf(g, addr + i - 1)
    BY <2>2 DEF f
  <2>6. Len(P) = (addr + size) - addr
    BY <2>1, <2>4
  <2> QED
    BY <2>1, <2>4, <2>5, <2>6 DEF ReadsThese, P
<1> QED
  BY <1>2, <1>3

\* RAID-0: the writes of data blocks.
LEMMA DataWritten ==
  ASSUME g \in Arrays, g.raidLevel = 0, NEW lo \in Nat, NEW hi \in Nat, lo <= hi
  PROVE  WritesThese(g, DataIOs(Write, Blocks(lo, hi)), lo, hi)
<1> DEFINE P == DataIOs(Write, Blocks(lo, hi))
<1>1. Len(P) = hi - lo /\ \A i \in 1 .. hi - lo : P[i] = IO(Write, bmap(g, lo + i - 1))
  BY DataAre
<1>2. \A b : Homes(g, b) = {bmap(g, b)}
  BY DEF Homes, CopiesOf
<1>3. \A op, place : IO(op, place).op = op /\ IO(op, place).place = place
  BY DEF IO
<1> HIDE DEF P
<1>4. ASSUME NEW b \in lo .. hi - 1
      PROVE  \E i \in 1 .. Len(P) : P[i] = IO(Write, bmap(g, b))
  <2>1. b - lo + 1 \in 1 .. hi - lo /\ lo + (b - lo + 1) - 1 = b
    OBVIOUS
  <2> QED
    BY <1>1, <2>1
<1>5. ASSUME NEW i \in 1 .. Len(P)
      PROVE  \E b \in lo .. hi - 1 : P[i].place = bmap(g, b)
  <2>1. lo + i - 1 \in lo .. hi - 1
    BY <1>1
  <2> QED
    BY <1>1, <1>3, <2>1
<1>6. ASSUME NEW i \in 1 .. Len(P), NEW j \in 1 .. Len(P), P[i] = P[j]
      PROVE  i = j
  <2>1. bmap(g, lo + i - 1) = bmap(g, lo + j - 1)
    BY <1>1, <1>6, IOsDiffer
  <2>2. lo + i - 1 \in Nat /\ lo + j - 1 \in Nat
    BY <1>1
  <2>3. lo + i - 1 = lo + j - 1
    BY <2>1, <2>2, BlocksApart
  <2> QED
    BY <2>3
<1> QED
  BY <1>2, <1>4, <1>5, <1>6 DEF WritesThese, P

\* RAID-1: the two copies of each block, in turn.
LEMMA CopiesWritten ==
  ASSUME g \in Arrays, g.raidLevel = 1, NEW lo \in Nat, NEW hi \in Nat, lo <= hi
  PROVE  /\ BothCopies(Blocks(lo, hi)) \in Seq(Ios)
         /\ WritesThese(g, BothCopies(Blocks(lo, hi)), lo, hi)
<1> DEFINE P == BothCopies(Blocks(lo, hi))
           n == hi - lo
           at(i) == lo + ((i + 1) \div 2) - 1
           home(i) == IF i % 2 = 1 THEN bmap(g, at(i)) ELSE Copy(bmap(g, at(i)))
<1>1. n \in Nat /\ Len(Blocks(lo, hi)) = n
  BY DEF Blocks
<1>2. \A i \in 1 .. 2 * n :
        (i + 1) \div 2 \in 1 .. n /\ at(i) \in lo .. hi - 1 /\ Blocks(lo, hi)[(i + 1) \div 2] = at(i)
  <2> SUFFICES ASSUME NEW i \in 1 .. 2 * n
               PROVE  /\ (i + 1) \div 2 \in 1 .. n /\ at(i) \in lo .. hi - 1
                      /\ Blocks(lo, hi)[(i + 1) \div 2] = at(i)
    OBVIOUS
  <2>1. (i + 1) \div 2 \in 1 .. n
    BY <1>1, SMT
  <2> QED
    BY <2>1 DEF Blocks
<1>3. P = [i \in 1 .. 2 * n |-> IO(Write, home(i))]
  <2>1. P = [i \in 1 .. 2 * n |->
               LET first == bmap1(g, Blocks(lo, hi)[(i + 1) \div 2])
               IN [op |-> Write, place |-> IF i % 2 = 1 THEN first ELSE Copy(first)]]
    BY <1>1 DEF BothCopies
  <2>2. \A i \in 1 .. 2 * n : bmap1(g, Blocks(lo, hi)[(i + 1) \div 2]) = bmap(g, at(i))
    BY <1>2, PlaceType
  <2> HIDE DEF P
  <2> QED
    BY <2>1, <2>2 DEF IO
<1>4. \A b : Homes(g, b) = {bmap(g, b), Copy(bmap(g, b))}
  BY DEF Homes, CopiesOf
<1>5. \A op, place : IO(op, place).op = op /\ IO(op, place).place = place
  BY DEF IO
<1>6. \A b \in lo .. hi - 1 : bmap(g, b) \in PlacesOf(g) /\ Copy(bmap(g, b)) \in PlacesOf(g)
  BY PlaceType
<1>7. \A i \in 1 .. 2 * n : IO(Write, home(i)) \in Ios
  <2> HIDE DEF at
  <2> QED
    BY <1>2, <1>6, IOType
<1> HIDE DEF P
<1>8. 2 * n \in Nat
  BY <1>1
<1>9. P \in Seq(Ios) /\ Len(P) = 2 * n
  <2> HIDE DEF n, home
  <2>1. P \in [1 .. 2 * n -> Ios]
    BY <1>3, <1>7
  <2> QED
    BY <1>8, <2>1
<1>10. ASSUME NEW b \in lo .. hi - 1, NEW place \in {bmap(g, b), Copy(bmap(g, b))}
       PROVE  \E i \in 1 .. Len(P) : P[i] = IO(Write, place)
  <2> DEFINE k == b - lo + 1
  <2>1. k \in 1 .. n /\ lo + k - 1 = b
    OBVIOUS
  <2> HIDE DEF k
  <2>2. /\ 2 * k \in 1 .. 2 * n /\ (2 * k) % 2 = 0 /\ (2 * k + 1) \div 2 = k
        /\ 2 * k - 1 \in 1 .. 2 * n /\ (2 * k - 1) % 2 = 1 /\ ((2 * k - 1) + 1) \div 2 = k
    BY <1>1, <2>1, SMT
  <2>3. home(2 * k) = Copy(bmap(g, b)) /\ home(2 * k - 1) = bmap(g, b)
    BY <2>1, <2>2
  <2> HIDE DEF home, n
  <2> QED
    BY <1>3, <1>9, <2>2, <2>3
<1>11. ASSUME NEW i \in 1 .. Len(P)
       PROVE  \E b \in lo .. hi - 1 : P[i].place \in {bmap(g, b), Copy(bmap(g, b))}
  <2>1. at(i) \in lo .. hi - 1 /\ home(i) \in {bmap(g, at(i)), Copy(bmap(g, at(i)))}
    BY <1>2, <1>9
  <2> HIDE DEF at, home
  <2> QED
    BY <1>3, <1>5, <1>9, <2>1
<1>12. ASSUME NEW i \in 1 .. Len(P), NEW j \in 1 .. Len(P), P[i] = P[j]
       PROVE  i = j
  <2>1. home(i) = home(j)
    <3> HIDE DEF home
    <3> QED
      BY <1>3, <1>9, <1>12, IOsDiffer
  <2>2. at(i) \in Nat /\ at(j) \in Nat
    BY <1>2, <1>9
  <2>3. at(i) = at(j) /\ (i % 2 = 1 <=> j % 2 = 1)
    <3> HIDE DEF at
    <3> QED
      BY <2>1, <2>2, BlocksApart, CopiesApart
  <2>4. (i + 1) \div 2 = (j + 1) \div 2
    <3>1. (i + 1) \div 2 \in Int /\ (j + 1) \div 2 \in Int
      BY <1>2, <1>9
    <3> QED
      BY <2>3, <3>1
  <2>5. i \in Nat /\ j \in Nat
    BY <1>9
  <2> QED
    BY <2>3, <2>4, <2>5, SMT
<1>13. \A b \in lo .. hi - 1 : \A place \in Homes(g, b) :
         \E i \in 1 .. Len(P) : P[i] = IO(Write, place)
  BY <1>4, <1>10
<1>14. \A i \in 1 .. Len(P) :
         P[i].op = Write => \E b \in lo .. hi - 1 : P[i].place \in Homes(g, b)
  BY <1>4, <1>11
<1>15. WritesThese(g, P, lo, hi)
  BY <1>12, <1>13, <1>14 DEF WritesThese
<1> QED
  BY <1>9, <1>15 DEF P

\* The requests that enqueue0, enqueue1 and the reads of enqueue45 handle.
LEMMA RequestPlanned ==
  ASSUME g \in Arrays, size \in Nat, NEW addr \in Nat, NEW isWrite \in BOOLEAN,
         ~ (isWrite /\ g.raidLevel \in {4, 5})
  PROVE  /\ RequestIOs(addr, isWrite) \in Seq(Ios)
         /\ IF isWrite THEN WritesThese(g, RequestIOs(addr, isWrite), addr, addr + size)
                       ELSE ReadsThese(g, RequestIOs(addr, isWrite), addr, addr + size)
<1> DEFINE to == addr + size
<1>1. to \in Nat /\ addr <= to
  OBVIOUS
<1>2. CASE isWrite = FALSE
  BY <1>2, ReadsPlanned
<1>3. CASE isWrite = TRUE /\ g.raidLevel = 0
  <2>1. RequestIOs(addr, isWrite) = DataIOs(Write, Blocks(addr, to))
    BY <1>3 DEF RequestIOs
  <2> HIDE DEF to
  <2>2. DataIOs(Write, Blocks(addr, to)) \in Seq(Ios)
    BY <1>1, DataAre
  <2>3. WritesThese(g, DataIOs(Write, Blocks(addr, to)), addr, to)
    BY <1>1, <1>3, DataWritten
  <2> QED
    BY <1>3, <2>1, <2>2, <2>3 DEF to
<1>4. CASE isWrite = TRUE /\ g.raidLevel = 1
  <2>1. RequestIOs(addr, isWrite) = BothCopies(Blocks(addr, to))
    BY <1>4 DEF RequestIOs
  <2> HIDE DEF to
  <2>2. /\ BothCopies(Blocks(addr, to)) \in Seq(Ios)
        /\ WritesThese(g, BothCopies(Blocks(addr, to)), addr, to)
    BY <1>1, <1>4, CopiesWritten
  <2> QED
    BY <1>4, <2>1, <2>2 DEF to
<1>5. g.raidLevel \in {0, 1, 4, 5}
  BY DEF Arrays
<1> QED
  BY <1>2, <1>3, <1>4, <1>5

-----------------------------------------------------------------------------
(***************************************************************************)
(* The writes of the stripes, one after another.  Stripe s occupies a      *)
(* chunk of each disk behind those of the stripes before it, so the writes *)
(* of two stripes never meet.                                              *)
(***************************************************************************)
Below(P, bound) == \A i \in 1 .. Len(P) : P[i].place.off < bound

\* Q is what the stripes before s did, P, followed by w, what stripe s does.
NextStripe(P, w, Q, s, from, to) ==
  /\ P \in Seq(Ios) /\ w \in Seq(Ios)
  /\ Follows(P, w, Q)
  /\ Below(P, s * g.chunkSize)
  /\ PartialWrite(w, s, from, to)
  /\ Within(s, from, to)

LEMMA NextLengths ==
  ASSUME NEW s, NEW from, NEW to, NEW P, NEW w, NEW Q, NextStripe(P, w, Q, s, from, to)
  PROVE  Len(P) \in Nat /\ Len(w) \in Nat /\ Len(Q) = Len(P) + Len(w)
<1>1. P \in Seq(Ios) /\ w \in Seq(Ios) /\ Len(Q) = Len(P) + Len(w)
  BY DEF NextStripe, Follows
<1> QED
  BY <1>1

\* An element of Q comes from P, or from w and lies in the chunks of stripe s.
LEMMA OldOrNew ==
  ASSUME g \in ParityArrays, NEW s \in Nat, NEW from \in Nat, NEW to \in Nat,
         NEW P, NEW w, NEW Q, NextStripe(P, w, Q, s, from, to)
  PROVE  /\ Len(P) \in Nat /\ Len(w) \in Nat /\ Len(Q) = Len(P) + Len(w)
         /\ s * g.chunkSize \in Nat /\ g.chunkSize \in Nats1
         /\ \A i \in 1 .. Len(P) :
              i \in 1 .. Len(Q) /\ Q[i] = P[i] /\ Q[i].place.off < s * g.chunkSize
         /\ \A j \in 1 .. Len(w) :
              /\ Len(P) + j \in 1 .. Len(Q) /\ Q[Len(P) + j] = w[j]
              /\ InChunks(s, w[j].place)
         /\ \A i \in 1 .. Len(Q) :
              i > Len(P) => i - Len(P) \in 1 .. Len(w) /\ Q[i] = w[i - Len(P)]
         /\ \A i \in 1 .. Len(Q) : Q[i] \in Ios
<1>1. g.chunkSize \in Nats1 /\ s * g.chunkSize \in Nat
  BY StripeSize, InStripe
<1>2. Len(P) \in Nat /\ Len(w) \in Nat
  BY NextLengths
<1>3. Q \in Seq(Ios) /\ Len(Q) = Len(P) + Len(w)
  BY DEF NextStripe, Follows
<1>4. \A i \in 1 .. Len(Q) : Q[i] \in Ios
  BY <1>3
<1>5. \A i \in 1 .. Len(P) : i \in 1 .. Len(Q) /\ Q[i] = P[i] /\ Q[i].place.off < s * g.chunkSize
  BY DEF NextStripe, Follows, Below
<1>6. \A j \in 1 .. Len(w) :
        /\ Len(P) + j \in 1 .. Len(Q) /\ Q[Len(P) + j] = w[j]
        /\ InChunks(s, w[j].place)
  BY DEF NextStripe, Follows, PartialWrite
<1>7. \A i \in 1 .. Len(Q) : i > Len(P) => i - Len(P) \in 1 .. Len(w) /\ Q[i] = w[i - Len(P)]
  BY DEF NextStripe, Follows
<1> QED
  BY <1>1, <1>2, <1>3, <1>4, <1>5, <1>6, <1>7

\* The homes of a block of stripe s.
LEMMA HomesInStripe ==
  ASSUME g \in ParityArrays, NEW s \in Nat, NEW b \in Nat, b \div blocksInStripe(g) = s
  PROVE  Homes(g, b) = {bmap(g, b), ParityAt(s, b)}
<1>1. g.raidLevel \in {4, 5}
  BY DEF ParityArrays
<1> QED
  BY <1>1 DEF Homes, CopiesOf, ParityOf, ParityAt

LEMMA StripeWritten ==
  ASSUME g \in ParityArrays, NEW s \in Nat, NEW lo \in Nat, NEW from \in Nat, NEW to \in Nat,
         NEW P, NEW w, NEW Q, NextStripe(P, w, Q, s, from, to),
         lo <= from, from <= to, WritesThese(g, P, lo, from)
  PROVE  WritesThese(g, Q, lo, to) /\ Below(Q, (s + 1) * g.chunkSize)
<1> DEFINE m == Len(P)
           c == s * g.chunkSize
<1>1. /\ m \in Nat /\ Len(w) \in Nat /\ Len(Q) = m + Len(w)
      /\ c \in Nat /\ g.chunkSize \in Nats1
  BY OldOrNew
<1>2. \A i \in 1 .. m : i \in 1 .. Len(Q) /\ Q[i] = P[i] /\ Q[i].place.off < c
  BY OldOrNew
<1>3. \A j \in 1 .. Len(w) :
        m + j \in 1 .. Len(Q) /\ Q[m + j] = w[j] /\ InChunks(s, w[j].place)
  BY OldOrNew
<1>4. \A i \in 1 .. Len(Q) : i > m => i - m \in 1 .. Len(w) /\ Q[i] = w[i - m]
  BY OldOrNew
<1>5. (s + 1) * g.chunkSize = c + g.chunkSize
  BY <1>1, InStripe
<1>6. \A i \in 1 .. Len(Q) : Q[i] \in Ios
  BY OldOrNew
<1>7. \A i \in 1 .. Len(Q) : Q[i].place.off \in Nat
  BY <1>6 DEF Ios, PlacesOf
<1>8. \A b \in from .. to - 1 : Homes(g, b) = {bmap(g, b), ParityAt(s, b)}
  <2> SUFFICES ASSUME NEW b \in from .. to - 1
               PROVE  Homes(g, b) = {bmap(g, b), ParityAt(s, b)}
    OBVIOUS
  <2>1. b \in Nat /\ b \div blocksInStripe(g) = s
    BY WithinStripe DEF NextStripe
  <2> QED
    BY <2>1, HomesInStripe
<1>9. WritesOnce(w, s, from, to)
  BY DEF NextStripe, PartialWrite
<1> HIDE DEF m, c
<1>10. ASSUME NEW i \in 1 .. Len(Q), i > m
       PROVE  c <= Q[i].place.off /\ Q[i].place.off < c + g.chunkSize
  BY <1>3, <1>4, <1>10 DEF InChunks, c
<1>11. ASSUME NEW b \in lo .. to - 1, NEW place \in Homes(g, b)
       PROVE  \E i \in 1 .. Len(Q) : Q[i] = IO(Write, place)
  <2>1. CASE b < from
    <3>1. b \in lo .. from - 1
      BY <2>1
    <3>2. PICK i \in 1 .. m : P[i] = IO(Write, place)
      BY <3>1 DEF WritesThese, m
    <3> QED
      BY <1>2, <3>2
  <2>2. CASE from <= b
    <3>1. b \in from .. to - 1
      BY <2>2
    <3>2. PICK j \in 1 .. Len(w) : w[j] = IO(Write, place)
      BY <1>8, <1>9, <3>1 DEF WritesOnce
    <3> QED
      BY <1>3, <3>2
  <2> QED
    BY <2>1, <2>2
<1>12. ASSUME NEW i \in 1 .. Len(Q), Q[i].op = Write
       PROVE  \E b \in lo .. to - 1 : Q[i].place \in Homes(g, b)
  <2>1. CASE i <= m
    <3>1. i \in 1 .. m /\ Q[i] = P[i]
      BY <1>1, <1>2, <2>1
    <3>2. PICK b \in lo .. from - 1 : P[i].place \in Homes(g, b)
      BY <1>12, <3>1 DEF WritesThese, m
    <3>3. b \in lo .. to - 1
      OBVIOUS
    <3> QED
      BY <3>1, <3>2, <3>3
  <2>2. CASE i > m
    <3>1. i - m \in 1 .. Len(w) /\ Q[i] = w[i - m]
      BY <1>4, <2>2
    <3>2. PICK b \in from .. to - 1 : w[i - m].place \in {bmap(g, b), ParityAt(s, b)}
      BY <1>9, <1>12, <3>1 DEF WritesOnce
    <3>3. b \in lo .. to - 1
      OBVIOUS
    <3> QED
      BY <1>8, <3>1, <3>2, <3>3
  <2> QED
    BY <1>1, <2>1, <2>2
<1>13. ASSUME NEW i \in 1 .. Len(Q), NEW j \in 1 .. Len(Q), Q[i].op = Write, Q[i] = Q[j]
       PROVE  i = j
  <2>1. CASE i <= m /\ j <= m
    <3>1. i \in 1 .. m /\ j \in 1 .. m /\ P[i].op = Write /\ P[i] = P[j]
      BY <1>1, <1>2, <1>13, <2>1
    <3> QED
      BY <3>1 DEF WritesThese, m
  <2>2. CASE i > m /\ j > m
    <3>1. /\ i - m \in 1 .. Len(w) /\ j - m \in 1 .. Len(w)
          /\ w[i - m].op = Write /\ w[i - m] = w[j - m]
      BY <1>4, <1>13, <2>2
    <3>2. i - m = j - m
      BY <1>9, <3>1 DEF WritesOnce
    <3> QED
      BY <1>1, <3>2
  <2>3. CASE (i <= m /\ j > m) \/ (i > m /\ j <= m)
    <3>1. \A k \in 1 .. Len(Q) : k <= m => k \in 1 .. m
      BY <1>1
    <3>2. \A k \in 1 .. Len(Q) : k <= m => Q[k].place.off < c
      BY <1>2, <3>1
    <3>3. \A k \in 1 .. Len(Q) : k > m => c <= Q[k].place.off
      BY <1>10
    <3>4. Q[i].place.off = Q[j].place.off /\ Q[i].place.off \in Nat /\ Q[j].place.off \in Nat
      BY <1>7, <1>13
    <3> QED
      BY <1>1, <2>3, <3>2, <3>3, <3>4
  <2> QED
    BY <1>1, <2>1, <2>2, <2>3
<1>14. ASSUME NEW i \in 1 .. Len(Q) PROVE Q[i].place.off < c + g.chunkSize
  <2>1. CASE i <= m
    <3>1. i \in 1 .. m
      BY <1>1, <2>1
    <3> QED
      BY <1>1, <1>2, <1>7, <3>1 DEF Nats1
  <2>2. CASE i > m
    BY <1>10, <2>2
  <2> QED
    BY <1>1, <2>1, <2>2
<1> QED
  BY <1>5, <1>11, <1>12, <1>13, <1>14 DEF WritesThese, Below

(***************************************************************************)
(* What is read before the i-th I/O of P, and not written before it is     *)
(* read; and that it determines every parity block that P writes: the old  *)
(* blocks of its stripe that are not written, or its old value and the old *)
(* blocks that are.                                                        *)
(***************************************************************************)
ReadsBefore(P, i) ==
  {P[j].place : j \in {j \in 1 .. i - 1 :
     P[j].op = Read /\ \A k \in 1 .. j - 1 : P[k] # IO(Write, P[j].place)}}

KnownAt(ar, P, lo, hi, i, b) ==
  \/ \A c \in Nat :
       c \div blocksInStripe(ar) = b \div blocksInStripe(ar) /\ c \notin lo .. hi - 1
         => bmap(ar, c) \in ReadsBefore(P, i)
  \/ /\ ParityOf(ar, b) \in ReadsBefore(P, i)
     /\ \A c \in lo .. hi - 1 :
          c \div blocksInStripe(ar) = b \div blocksInStripe(ar)
            => bmap(ar, c) \in ReadsBefore(P, i)

ParityKnown(ar, P, lo, hi) ==
  ar.raidLevel \in {4, 5} =>
    \A i \in 1 .. Len(P) : \A b \in lo .. hi - 1 :
      P[i] = IO(Write, ParityOf(ar, b)) => KnownAt(ar, P, lo, hi, i, b)

\* What is read before an I/O depends on what precedes it only.
LEMMA SameBefore ==
  ASSUME NEW P, NEW Q, NEW i \in Nat, \A j \in 1 .. i - 1 : P[j] = Q[j]
  PROVE  ReadsBefore(P, i) = ReadsBefore(Q, i)
<1>1. \A j \in 1 .. i - 1 : \A k \in 1 .. j - 1 : k \in 1 .. i - 1
  OBVIOUS
<1>2. \A j \in 1 .. i - 1 :
        (P[j].op = Read /\ \A k \in 1 .. j - 1 : P[k] # IO(Write, P[j].place))
        <=> (Q[j].op = Read /\ \A k \in 1 .. j - 1 : Q[k] # IO(Write, Q[j].place))
  BY <1>1
<1> QED
  BY <1>2 DEF ReadsBefore

\* A place is in the chunks of one stripe only.
LEMMA OneStripe ==
  ASSUME g \in ParityArrays, NEW s \in Nat, NEW b \in Nat, NEW place,
         InChunks(s, place), place.off = bmap(g, b).off
  PROVE  b \div blocksInStripe(g) = s
<1> DEFINE t == b \div blocksInStripe(g)
           c == g.chunkSize
<1>1. c \in Nats1 /\ t \in Nat
  BY StripeSize, Division
<1>2. /\ t * c <= place.off /\ place.off < t * c + c
      /\ s * c <= place.off /\ place.off < s * c + c
      /\ t * c \in Nat /\ s * c \in Nat /\ place.off \in Nat
  <2>1. place.off \in Nat
    BY StripeSize, PlaceType DEF PlacesOf
  <2>2. t * c \in Nat /\ s * c \in Nat
    <3> HIDE DEF c, t
    <3> QED
      BY <1>1, InStripe
  <2> QED
    BY <1>1, <2>1, <2>2, StripeOffsets DEF InChunks
<1> HIDE DEF c, t
<1>3. place.off \div c = t /\ place.off \div c = s
  BY <1>1, <1>2, InStripe
<1> QED
  BY <1>3 DEF t

LEMMA ParityStripe ==
  ASSUME g \in ParityArrays, NEW s \in Nat, NEW lo \in Nat, NEW hi \in Nat,
         NEW from \in Nat, NEW to \in Nat,
         NEW P, NEW w, NEW Q, NextStripe(P, w, Q, s, from, to),
         lo <= from, to <= hi, ParityKnown(g, P, lo, hi),
         \A c \in lo .. hi - 1 : c \div blocksInStripe(g) = s => c \in from .. to - 1
  PROVE  ParityKnown(g, Q, lo, hi)
<1> DEFINE m == Len(P)
           B == blocksInStripe(g)
<1>1. m \in Nat /\ Len(w) \in Nat /\ Len(Q) = m + Len(w)
  BY NextLengths
<1>2. \A i \in 1 .. m : i \in 1 .. Len(Q) /\ Q[i] = P[i] /\ Q[i].place.off < s * g.chunkSize
  BY OldOrNew
<1>3. \A j \in 1 .. Len(w) :
        m + j \in 1 .. Len(Q) /\ Q[m + j] = w[j] /\ InChunks(s, w[j].place)
  BY OldOrNew
<1>4. \A i \in 1 .. Len(Q) : i > m => i - m \in 1 .. Len(w) /\ Q[i] = w[i - m]
  BY OldOrNew
<1>5. \A op, place : IO(op, place).op = op /\ IO(op, place).place = place
  BY DEF IO
<1>6. g.raidLevel \in {4, 5}
  BY DEF ParityArrays
<1> HIDE DEF m
<1>7. ASSUME NEW i \in 1 .. m, NEW b \in lo .. hi - 1, Q[i] = IO(Write, ParityOf(g, b))
      PROVE  KnownAt(g, Q, lo, hi, i, b)
  <2>1. P[i] = IO(Write, ParityOf(g, b)) /\ i \in 1 .. Len(P)
    BY <1>2, <1>7 DEF m
  <2>2. KnownAt(g, P, lo, hi, i, b)
    BY <1>6, <2>1 DEF ParityKnown
  <2>3. \A j \in 1 .. i - 1 : P[j] = Q[j]
    BY <1>1, <1>2
  <2>4. ReadsBefore(P, i) = ReadsBefore(Q, i)
    BY <2>3, SameBefore
  <2> QED
    BY <2>2, <2>4 DEF KnownAt
\* What w reads, it reads before it writes, and P has written none of it.
<1>8. PICK r \in 0 .. Len(w) :
        /\ \A j \in 1 .. Len(w) : w[j].op = IF j <= r THEN Read ELSE Write
        /\ ReadsFor(s, from, to, {w[j].place : j \in 1 .. r})
  BY DEF NextStripe, PartialWrite, ReadsFirst
<1>9. ASSUME NEW j \in 1 .. r, NEW i \in 1 .. Len(Q), i > m, Q[i].op = Write
      PROVE  w[j].place \in ReadsBefore(Q, i)
  <2>1. j \in 1 .. Len(w) /\ i - m \in 1 .. Len(w) /\ Q[i] = w[i - m]
    BY <1>1, <1>4, <1>9
  <2>2. Q[m + j] = w[j] /\ w[j].op = Read /\ InChunks(s, w[j].place)
    BY <1>3, <1>8, <2>1
  <2>3. ~ (i - m <= r)
    BY <1>8, <1>9, <2>1 DEF Read, Write
  <2>4. m + j \in 1 .. i - 1
    BY <1>1, <2>1, <2>3
  <2>5. ASSUME NEW k \in 1 .. (m + j) - 1 PROVE Q[k] # IO(Write, w[j].place)
    <3>1. CASE k <= m
      <4>1. k \in 1 .. m
        BY <1>1, <3>1
      <4>2. Q[k].place.off < s * g.chunkSize /\ s * g.chunkSize <= w[j].place.off
        BY <1>2, <2>2, <4>1 DEF InChunks
      <4>3. Q[k].place.off \in Nat /\ s * g.chunkSize \in Nat
        <5>1. Q[k] \in Ios
          BY <1>2, <4>1, OldOrNew
        <5>2. s * g.chunkSize \in Nat
          BY OldOrNew
        <5> QED
          BY <5>1, <5>2 DEF Ios, PlacesOf
      <4>4. ASSUME Q[k].place = w[j].place PROVE FALSE
        <5> DEFINE x == Q[k].place.off
                   c == s * g.chunkSize
        <5>1. x \in Nat /\ c \in Nat /\ x < c /\ c <= x
          BY <4>2, <4>3, <4>4
        <5> HIDE DEF x, c
        <5> QED
          BY <5>1
      <4> QED
        BY <1>5, <4>4
    <3>2. CASE k > m
      <4>1. k \in 1 .. Len(Q) /\ k - m <= r
        BY <1>1, <2>1, <3>2
      <4>2. k - m \in 1 .. Len(w) /\ Q[k] = w[k - m]
        BY <1>4, <3>2, <4>1
      <4>3. Q[k].op = Read
        BY <1>8, <4>1, <4>2
      <4> QED
        BY <1>5, <4>3 DEF Read, Write
    <3> QED
      BY <1>1, <3>1, <3>2
  <2> QED
    BY <2>2, <2>4, <2>5 DEF ReadsBefore
<1>10. ASSUME NEW i \in 1 .. Len(Q), i > m, NEW b \in lo .. hi - 1,
              Q[i] = IO(Write, ParityOf(g, b))
       PROVE  KnownAt(g, Q, lo, hi, i, b)
  <2>1. i - m \in 1 .. Len(w) /\ Q[i] = w[i - m] /\ InChunks(s, w[i - m].place)
    BY <1>3, <1>4, <1>10
  <2>2. Q[i].op = Write /\ Q[i].place.off = bmap(g, b).off
    BY <1>5, <1>10 DEF ParityOf
  <2>3. b \in Nat /\ b \div B = s
    BY <2>1, <2>2, OneStripe
  <2>4. {w[j].place : j \in 1 .. r} \subseteq ReadsBefore(Q, i)
    BY <1>9, <1>10, <2>2
  <2>5. b \in from .. to - 1 /\ ParityOf(g, b) = ParityAt(s, b)
    BY <2>3 DEF ParityOf, ParityAt
  <2>6. CASE \A c \in Nat : c \div B = s /\ c \notin from .. to - 1
                              => bmap(g, c) \in {w[j].place : j \in 1 .. r}
    <3>1. ASSUME NEW c \in Nat, c \div B = b \div B, c \notin lo .. hi - 1
          PROVE  bmap(g, c) \in ReadsBefore(Q, i)
      <4>1. c \notin from .. to - 1
        BY <3>1
      <4> QED
        BY <2>3, <2>4, <2>6, <3>1, <4>1
    <3> QED
      BY <3>1 DEF KnownAt
  <2>7. CASE \A c \in from .. to - 1 :
               /\ bmap(g, c) \in {w[j].place : j \in 1 .. r}
               /\ ParityAt(s, c) \in {w[j].place : j \in 1 .. r}
    <3>1. ParityOf(g, b) \in ReadsBefore(Q, i)
      BY <2>4, <2>5, <2>7
    <3>2. ASSUME NEW c \in lo .. hi - 1, c \div B = b \div B
          PROVE  bmap(g, c) \in ReadsBefore(Q, i)
      <4>1. c \in from .. to - 1
        BY <2>3, <3>2
      <4> QED
        BY <2>4, <2>7, <4>1
    <3> QED
      BY <3>1, <3>2 DEF KnownAt
  <2> QED
    BY <1>8, <2>6, <2>7 DEF ReadsFor
<1> QED
  <2>1. \A i \in 1 .. Len(Q) : i \in 1 .. m \/ i > m
    BY <1>1
  <2> QED
    BY <1>7, <1>10, <2>1 DEF ParityKnown

-----------------------------------------------------------------------------
(***************************************************************************)
(* The loop over the stripes of a write.                                   *)
(***************************************************************************)
InputInv == g \in Arrays /\ size \in Nat /\ sequential \in BOOLEAN /\ starts \in SUBSET Nat

\* Nothing is left to enqueue between requests.
IdleInv == stage \in {"generate", "end"} => todo = <<>>

\* What is left of the write begins at begin, in or before the current stripe
\* and, unless the stripe is its first, where the stripe begins.
LoopInv ==
  stage = "stripes" =>
    /\ g.raidLevel \in {4, 5} /\ request.isWrite
    /\ request.addr <= begin /\ begin + left = request.addr + size
    /\ begin < (stripe + 1) * blocksInStripe(g)
    /\ begin = request.addr \/ begin <= stripe * blocksInStripe(g)
    /\ left > 0 => stripe * blocksInStripe(g) <= begin

\* There is a greatest of the times of the disks.
BoundInv == \E bound \in Nat : \A d \in Disks : utilTime[d] <= bound

BaseInv == InputInv /\ TypeOK /\ IdleInv /\ LoopInv /\ BoundInv

LEMMA LoopStep ==
  ASSUME BaseInv, stage = "stripes"
  PROVE  /\ g \in ParityArrays
         /\ StripeEnd \in Nat /\ begin <= StripeEnd /\ StripeEnd <= begin + left
         /\ StripeEnd <= (stripe + 1) * blocksInStripe(g)
         /\ StripeEnd = begin + left \/ StripeEnd = (stripe + 1) * blocksInStripe(g)
         /\ Within(stripe, begin, StripeEnd)
         /\ \A c \in Nat :
              /\ c \div blocksInStripe(g) = stripe
              /\ c \in request.addr .. request.addr + size - 1
              => c \in begin .. StripeEnd - 1
<1> DEFINE B == blocksInStripe(g)
           x == stripe * B
           e == StripeEnd
<1>1. g \in ParityArrays
  BY DEF BaseInv, InputInv, LoopInv, ParityArrays
<1>2. /\ begin \in Nat /\ left \in Nat /\ stripe \in Nat /\ size \in Nat
      /\ request.addr \in Nat
  BY DEF BaseInv, InputInv, TypeOK
<1>3. B \in Nats1
  BY <1>1, StripeSize
<1>4. x \in Nat /\ (stripe + 1) * B = x + B
  <2> HIDE DEF B
  <2> QED
    BY <1>2, <1>3, InStripe
<1>5. /\ request.addr <= begin /\ begin + left = request.addr + size /\ begin < x + B
      /\ begin = request.addr \/ begin <= x
      /\ left > 0 => x <= begin
  BY <1>4 DEF BaseInv, LoopInv
<1>6. e = LET end == begin + (IF left >= B THEN B ELSE left)
          IN IF end >= x + B THEN x + B ELSE end
  BY <1>4 DEF StripeEnd
<1> HIDE DEF B, x, e
<1>7. /\ e \in Nat /\ begin <= e /\ e <= begin + left /\ e <= x + B
      /\ e = begin + left \/ e = x + B
      /\ begin < e => x <= begin
  BY <1>2, <1>3, <1>4, <1>5, <1>6 DEF Nats1
<1>8. ASSUME NEW c \in Nat, c \div B = stripe, c \in request.addr .. request.addr + size - 1
      PROVE  c \in begin .. e - 1
  <2>1. x <= c /\ c < x + B
    BY <1>2, <1>3, <1>8, InStripe DEF x
  <2> QED
    BY <1>2, <1>3, <1>4, <1>5, <1>7, <1>8, <2>1
<1> QED
  BY <1>1, <1>4, <1>7, <1>8 DEF B, x, e, Within

\* When the loop ends, the whole request has been written.
LEMMA LoopEnds ==
  ASSUME BaseInv, stage = "stripes", stripe > finalStripe
  PROVE  left = 0
<1> SUFFICES ASSUME left # 0 PROVE FALSE
  OBVIOUS
<1> DEFINE B == blocksInStripe(g)
           last == request.addr + size - 1
<1>1. /\ begin \in Nat /\ left \in Nat /\ stripe \in Nat /\ size \in Nat
      /\ request.addr \in Nat
  BY DEF BaseInv, InputInv, TypeOK
<1>2. B \in Nats1
  BY StripeSize, LoopStep
<1>3. stripe * B <= begin /\ begin + left = request.addr + size /\ left > 0
  BY <1>1 DEF BaseInv, LoopInv
<1>4. finalStripe = last \div B /\ last \in Nat
  <2>1. last \in Nat
    BY <1>1, <1>3
  <2> QED
    BY <2>1 DEF finalStripe, Quotient
<1> HIDE DEF B, last
<1>5. stripe * B \in Nat /\ stripe * B <= last
  <2>1. stripe * B \in Nat
    BY <1>1, <1>2, InStripe
  <2> QED
    BY <1>1, <1>3, <2>1 DEF last
<1>6. stripe <= last \div B
  BY <1>1, <1>2, <1>4, <1>5, InStripe
<1>7. last \div B \in Nat
  BY <1>2, <1>4, Division
<1> QED
  BY <1>1, <1>4, <1>6, <1>7

-----------------------------------------------------------------------------
(***************************************************************************)
(* The types, and the parts of the invariant they need.                    *)
(***************************************************************************)
\* The counters of the disks, and the I/Os, in one place.
CountersOK ==
  /\ currAddr \in [Disks -> {initialAddr} \cup Addresses]
  /\ countIO \in [Disks -> Nat] /\ countSeq \in [Disks -> Nat]
  /\ countNseq \in [Disks -> Nat] /\ countRand \in [Disks -> Nat]
  /\ utilTime \in [Disks -> Nat]

ControlOK ==
  /\ off \in Nat /\ requests \in 0 .. numRequests
  /\ request \in [addr : Nat, isWrite : BOOLEAN]
  /\ stripe \in Nat /\ begin \in Nat /\ left \in 0 .. size
  /\ totalTime \in Nat
  /\ stage \in {"generate", "enqueue", "stripes", "end", "failed"}

LEMMA TypeParts == TypeOK <=> ControlOK /\ CountersOK /\ todo \in Seq(Ios) /\ done \in Seq(Ios)
<1>1. Ios = [op : {Read, Write}, place : [disk : Disks, off : Nat]]
  BY DEF Ios, PlacesOf, Disks
<1>2. {todo, done} \subseteq Seq(Ios) <=> todo \in Seq(Ios) /\ done \in Seq(Ios)
  OBVIOUS
<1>3. (\A count \in {countIO, countSeq, countNseq, countRand, utilTime} : count \in [Disks -> Nat])
      <=> /\ countIO \in [Disks -> Nat] /\ countSeq \in [Disks -> Nat]
          /\ countNseq \in [Disks -> Nat] /\ countRand \in [Disks -> Nat]
          /\ utilTime \in [Disks -> Nat]
  OBVIOUS
<1> QED
  BY <1>1, <1>2, <1>3, Zenon DEF TypeOK, ControlOK, CountersOK, Addresses

LEMMA EnqueueType ==
  ASSUME CountersOK, NEW d \in Disks, NEW addr \in Addresses, EnqueueAt(d, addr), UNCHANGED g
  PROVE  CountersOK' /\ (BoundInv => BoundInv')
<1>1. Disks' = Disks
  BY DEF Disks
<1>2. Distance(currAddr[d], addr) \in Nat
  BY NearIsNear DEF CountersOK
<1>3. currAddr' \in [Disks -> {initialAddr} \cup Addresses]
  BY DEF CountersOK, EnqueueAt
<1>4. /\ countIO' \in [Disks -> Nat] /\ countSeq' \in [Disks -> Nat]
      /\ countNseq' \in [Disks -> Nat] /\ countRand' \in [Disks -> Nat]
  BY DEF CountersOK, EnqueueAt
<1>5. utilTime' \in [Disks -> Nat]
  <2> DEFINE more == IF Near(currAddr[d], addr) THEN Distance(currAddr[d], addr) * xferTime
                                              ELSE seekTime + xferTime
  <2>1. more \in Nat
    BY <1>2 DEF seekTime, xferTime
  <2>2. utilTime' = [utilTime EXCEPT ![d] = @ + more]
    BY DEF EnqueueAt
  <2> HIDE DEF more
  <2> QED
    BY <2>1, <2>2 DEF CountersOK
<1>6. ASSUME BoundInv PROVE BoundInv'
  <2>1. PICK bound \in Nat : \A e \in Disks : utilTime[e] <= bound
    BY <1>6 DEF BoundInv
  <2> DEFINE more == IF Near(currAddr[d], addr) THEN Distance(currAddr[d], addr) * xferTime
                                              ELSE seekTime + xferTime
  <2>2. more \in Nat
    BY <1>2 DEF seekTime, xferTime
  <2>3. utilTime' = [utilTime EXCEPT ![d] = @ + more]
    BY DEF EnqueueAt
  <2> HIDE DEF more
  <2>4. \A e \in Disks : utilTime'[e] <= bound + more
    BY <2>1, <2>2, <2>3 DEF CountersOK
  <2>5. bound + more \in Nat
    BY <2>1, <2>2
  <2> QED
    BY <1>1, <2>4, <2>5 DEF BoundInv
<1> QED
  BY <1>1, <1>3, <1>4, <1>5, <1>6 DEF CountersOK

\* go() takes the greatest of the times.
LEMMA GoTakesMax ==
  ASSUME CountersOK, BoundInv
  PROVE  /\ Max({utilTime[d] : d \in Disks} \cup {0}) \in Nat
         /\ \A d \in Disks : utilTime[d] <= Max({utilTime[d2] : d2 \in Disks} \cup {0})
<1> DEFINE S == {utilTime[d] : d \in Disks} \cup {0}
<1>1. S \in SUBSET Nat /\ S # {}
  BY DEF CountersOK
<1>2. PICK bound \in Nat : \A d \in Disks : utilTime[d] <= bound
  BY DEF BoundInv
<1>3. \A x \in S : x <= bound
  BY <1>2
<1>4. \A d \in Disks : utilTime[d] \in S
  OBVIOUS
<1> HIDE DEF S
<1>5. Max(S) \in S /\ \A x \in S : x <= Max(S)
  BY <1>1, <1>3, GreatestNumber
<1>6. Max(S) \in Nat /\ \A d \in Disks : utilTime[d] <= Max(S)
  BY <1>1, <1>4, <1>5
<1> QED
  BY <1>6 DEF S

\* An I/O that is enqueued goes to a disk of the array and to an address of it.
LEMMA NextIO ==
  ASSUME todo \in Seq(Ios), todo # <<>>
  PROVE  /\ Head(todo) \in Ios /\ Head(todo).place.disk \in Disks
         /\ Head(todo).place.off < blocksPerDisk => Head(todo).place.off \in Addresses
<1>1. Head(todo) \in Ios
  OBVIOUS
<1>2. blocksPerDisk = 10000
  BY DEF blocksPerDisk, blocksPerTrack, numTracks
<1> DEFINE io == Head(todo)
<1> HIDE DEF io
<1>3. io.place.disk \in Disks /\ io.place.off \in Nat
  BY <1>1 DEF io, Ios, PlacesOf, Disks
<1>4. \A x \in Nat : x < blocksPerDisk => x \in Addresses
  BY <1>2 DEF Addresses
<1> QED
  BY <1>1, <1>3, <1>4 DEF io

LEMMA BaseInit == Init => BaseInv
<1> SUFFICES ASSUME Init PROVE BaseInv
  OBVIOUS
<1>1. PICK in \in Inputs :
        /\ g = in.g /\ size = in.size /\ sequential = in.sequential /\ starts = in.starts
        /\ off = 0 /\ requests = 0 /\ request = [addr |-> 0, isWrite |-> FALSE]
        /\ stripe = 0 /\ begin = 0 /\ left = 0 /\ todo = <<>> /\ done = <<>>
        /\ currAddr = [d \in 0 .. in.g.numDisks - 1 |-> initialAddr]
        /\ countIO = [d \in 0 .. in.g.numDisks - 1 |-> 0]
        /\ countSeq = countIO /\ countNseq = countIO /\ countRand = countIO
        /\ utilTime = countIO /\ totalTime = 0 /\ stage = "generate"
  BY DEF Init
<1>2. InputInv
  BY <1>1, InputAssumption DEF InputInv
<1>3. CountersOK
  BY <1>1 DEF CountersOK, Disks
<1>4. ControlOK
  BY <1>1, <1>2, InputAssumption DEF ControlOK, InputInv
<1>5. todo \in Seq(Ios) /\ done \in Seq(Ios)
  BY <1>1
<1> QED
  <2>1. BoundInv
    BY <1>1 DEF BoundInv, Disks
  <2> QED
    BY <1>1, <1>2, <1>3, <1>4, <1>5, <2>1, TypeParts DEF BaseInv, IdleInv, LoopInv

LEMMA BaseStep == BaseInv /\ [Next]_vars => BaseInv'
<1> SUFFICES ASSUME BaseInv, [Next]_vars PROVE BaseInv'
  OBVIOUS
<1>1. InputInv /\ ControlOK /\ CountersOK /\ todo \in Seq(Ios) /\ done \in Seq(Ios)
      /\ IdleInv /\ LoopInv /\ BoundInv
  BY TypeParts DEF BaseInv
<1>2. ASSUME InputInv', ControlOK', CountersOK', todo' \in Seq(Ios), done' \in Seq(Ios),
             IdleInv', LoopInv', BoundInv', UNCHANGED g
      PROVE  BaseInv'
  <2>1. Ios' = Ios
    BY <1>2 DEF Ios, PlacesOf
  <2>2. TypeOK' <=> (ControlOK /\ CountersOK /\ todo \in Seq(Ios) /\ done \in Seq(Ios))'
    BY TypeParts, PTL
  <2>3. TypeOK'
    BY <1>2, <2>1, <2>2
  <2> QED
    BY <1>2, <2>3 DEF BaseInv
<1>3. CASE Generate
  <2>1. PICK blk \in (IF sequential THEN {off} ELSE starts) : \E isWrite \in BOOLEAN :
          /\ request' = [addr |-> blk, isWrite |-> isWrite]
          /\ off' = IF sequential THEN off + size ELSE off
          /\ IF isWrite /\ g.raidLevel \in {4, 5}
               THEN /\ stage' = "stripes"
                    /\ stripe' = blk \div blocksInStripe(g)
                    /\ begin' = blk /\ left' = size /\ todo' = <<>>
               ELSE /\ stage' = "enqueue" /\ todo' = RequestIOs(blk, isWrite)
                    /\ UNCHANGED stripeVars
    BY <1>3 DEF Generate
  <2>2. PICK isWrite \in BOOLEAN :
          /\ request' = [addr |-> blk, isWrite |-> isWrite]
          /\ off' = IF sequential THEN off + size ELSE off
          /\ IF isWrite /\ g.raidLevel \in {4, 5}
               THEN /\ stage' = "stripes"
                    /\ stripe' = blk \div blocksInStripe(g)
                    /\ begin' = blk /\ left' = size /\ todo' = <<>>
               ELSE /\ stage' = "enqueue" /\ todo' = RequestIOs(blk, isWrite)
                    /\ UNCHANGED stripeVars
    BY <2>1
  <2>3. /\ requests < numRequests /\ requests' = requests + 1 /\ done' = <<>>
        /\ UNCHANGED <<g, size, sequential, starts, currAddr, countIO, countSeq, countNseq,
                       countRand, utilTime, totalTime>>
    BY <1>3 DEF Generate, inputVars, diskVars
  <2>4. blk \in Nat /\ off' \in Nat
    BY <1>1, <2>2 DEF InputInv, ControlOK
  <2>5. InputInv' /\ CountersOK' /\ BoundInv' /\ done' \in Seq(Ios)
    BY <1>1, <2>3 DEF InputInv, CountersOK, BoundInv, Disks
  <2>6. requests' \in 0 .. numRequests /\ request' \in [addr : Nat, isWrite : BOOLEAN]
    BY <1>1, <2>2, <2>3, <2>4, InputAssumption DEF ControlOK
  <2>7. CASE isWrite /\ g.raidLevel \in {4, 5}
    <3> DEFINE B == blocksInStripe(g)
    <3>1. /\ stage' = "stripes" /\ stripe' = blk \div B
          /\ begin' = blk /\ left' = size /\ todo' = <<>>
      BY <2>2, <2>7
    <3>2. B \in Nats1
      BY <1>1, <2>7, StripeSize DEF InputInv, ParityArrays
    <3> HIDE DEF B
    <3>3. /\ stripe' \in Nat /\ stripe' * B <= blk /\ blk < (stripe' + 1) * B
      <4> DEFINE s == blk \div B
      <4>1. s \in Nat
        BY <2>4, <3>2, Division
      <4> HIDE DEF s
      <4>2. s * B <= blk /\ blk < s * B + B /\ (s + 1) * B = s * B + B
        BY <2>4, <3>2, <4>1, InStripe DEF s
      <4> QED
        BY <3>1, <4>1, <4>2 DEF s
    <3>4. ControlOK'
      BY <1>1, <2>3, <2>4, <2>6, <3>1, <3>3 DEF ControlOK, InputInv
    <3>5. IdleInv' /\ todo' \in Seq(Ios)
      BY <3>1 DEF IdleInv
    <3>6. LoopInv'
      BY <1>1, <2>2, <2>3, <2>4, <2>7, <3>1, <3>3 DEF LoopInv, InputInv, B
    <3> QED
      BY <1>2, <2>3, <2>5, <3>4, <3>5, <3>6
  <2>8. CASE ~ (isWrite /\ g.raidLevel \in {4, 5})
    <3>1. stage' = "enqueue" /\ todo' = RequestIOs(blk, isWrite) /\ UNCHANGED <<stripe, begin, left>>
      BY <2>2, <2>8 DEF stripeVars
    <3>2. todo' \in Seq(Ios)
      BY <1>1, <2>4, <2>8, <3>1, RequestPlanned DEF InputInv
    <3>3. ControlOK'
      BY <1>1, <2>3, <2>4, <2>6, <3>1 DEF ControlOK
    <3>4. IdleInv' /\ LoopInv'
      BY <3>1 DEF IdleInv, LoopInv
    <3> QED
      BY <1>2, <2>3, <2>5, <3>2, <3>3, <3>4
  <2> QED
    BY <2>7, <2>8
<1>4. CASE WriteStripe
  <2> DEFINE B == blocksInStripe(g)
             to == StripeEnd
  <2>1. /\ stage = "stripes" /\ todo' = doPartialWrite(stripe, begin, to)
        /\ left' = left - (to - begin) /\ begin' = to /\ stripe' = stripe + 1
        /\ UNCHANGED <<g, size, sequential, starts, off, requests, request, done, currAddr,
                       countIO, countSeq, countNseq, countRand, utilTime, totalTime, stage>>
    BY <1>4 DEF WriteStripe, inputVars, diskVars
  <2>2. /\ g \in ParityArrays
        /\ to \in Nat /\ begin <= to /\ to <= begin + left
        /\ to <= (stripe + 1) * B
        /\ to = begin + left \/ to = (stripe + 1) * B
        /\ Within(stripe, begin, to)
    BY <2>1, LoopStep
  <2>3. begin \in Nat /\ left \in Nat /\ stripe \in Nat /\ left <= size
    BY <1>1 DEF ControlOK, InputInv
  <2> HIDE DEF to
  <2>4. todo' \in Seq(Ios)
    BY <2>1, <2>2, <2>3, PartialWriteIs DEF PartialWrite
  <2>5. B \in Nats1
    BY <2>2, StripeSize
  <2>6. ControlOK'
    <3>1. left' \in 0 .. size
      BY <1>1, <2>1, <2>2, <2>3 DEF InputInv
    <3> QED
      BY <1>1, <2>1, <2>2, <2>3, <3>1 DEF ControlOK
  <2>7. LoopInv'
    <3> DEFINE y == (stripe + 1) * B
    <3> HIDE DEF B, y
    <3>1. stripe + 1 \in Nat
      BY <2>3
    <3>2. y \in Nat /\ ((stripe + 1) + 1) * B = y + B
      BY <2>5, <3>1, InStripe DEF y
    <3>3. request.addr \in Nat /\ size \in Nat
      BY <1>1 DEF ControlOK, InputInv
    <3>4. g.raidLevel \in {4, 5} /\ request.isWrite
          /\ request.addr <= begin /\ begin + left = request.addr + size
      BY <1>1, <2>1 DEF LoopInv
    <3>5. /\ request.addr <= to /\ to + left' = request.addr + size
          /\ to < y + B /\ to <= y /\ (left' > 0 => y <= to)
      BY <2>1, <2>2, <2>3, <2>5, <3>2, <3>3, <3>4 DEF y, Nats1
    <3> QED
      BY <2>1, <3>2, <3>4, <3>5 DEF LoopInv, B, y
  <2>8. InputInv' /\ CountersOK' /\ BoundInv' /\ done' \in Seq(Ios) /\ IdleInv'
    BY <1>1, <2>1 DEF InputInv, CountersOK, BoundInv, Disks, IdleInv
  <2> QED
    BY <1>2, <2>1, <2>4, <2>6, <2>7, <2>8
<1>5. CASE DoSingleIO
  <2>1. /\ todo # <<>> /\ stage # "failed"
        /\ UNCHANGED <<g, size, sequential, starts, off, requests, request, stripe, begin, left,
                       totalTime>>
    BY <1>5 DEF DoSingleIO, inputVars, stripeVars
  <2>2. InputInv'
    BY <1>1, <2>1 DEF InputInv
  <2>3. stage \in {"enqueue", "stripes"}
    BY <1>1, <2>1 DEF IdleInv, ControlOK
  <2>4. CASE Head(todo).place.off < blocksPerDisk
    <3>1. /\ EnqueueAt(Head(todo).place.disk, Head(todo).place.off)
          /\ done' = Append(done, Head(todo)) /\ todo' = Tail(todo) /\ UNCHANGED stage
      BY <1>5, <2>4 DEF DoSingleIO
    <3>2. CountersOK' /\ BoundInv'
      BY <1>1, <2>1, <2>4, <3>1, NextIO, EnqueueType
    <3>3. todo' \in Seq(Ios) /\ done' \in Seq(Ios)
      BY <1>1, <2>1, <3>1, NextIO
    <3>4. ControlOK' /\ LoopInv' /\ IdleInv'
      BY <1>1, <2>1, <2>3, <3>1 DEF ControlOK, LoopInv, IdleInv
    <3> QED
      BY <1>2, <2>1, <2>2, <3>2, <3>3, <3>4
  <2>5. CASE ~ (Head(todo).place.off < blocksPerDisk)
    <3>1. stage' = "failed"
          /\ UNCHANGED <<currAddr, countIO, countSeq, countNseq, countRand, utilTime, done, todo>>
      BY <1>5, <2>5 DEF DoSingleIO, diskVars
    <3>2. CountersOK' /\ BoundInv'
      BY <1>1, <2>1, <3>1 DEF CountersOK, BoundInv, Disks
    <3>3. ControlOK' /\ LoopInv' /\ IdleInv'
      BY <1>1, <2>1, <3>1 DEF ControlOK, LoopInv, IdleInv
    <3> QED
      BY <1>1, <1>2, <2>1, <2>2, <3>1, <3>2, <3>3
  <2> QED
    BY <2>4, <2>5
<1>6. CASE EndRequest
  <2>1. /\ todo = <<>> /\ stage' = "generate"
        /\ UNCHANGED <<g, size, sequential, starts, off, requests, request, stripe, begin, left,
                       todo, done, currAddr, countIO, countSeq, countNseq, countRand, utilTime,
                       totalTime>>
    BY <1>6 DEF EndRequest, inputVars, stripeVars, diskVars
  <2>2. InputInv' /\ ControlOK' /\ LoopInv' /\ IdleInv'
    BY <1>1, <2>1 DEF InputInv, ControlOK, LoopInv, IdleInv
  <2>3. CountersOK' /\ BoundInv'
    BY <1>1, <2>1 DEF CountersOK, BoundInv, Disks
  <2> QED
    BY <1>1, <1>2, <2>1, <2>2, <2>3
<1>7. CASE Stopped \/ UNCHANGED vars
  <2>1. UNCHANGED <<g, size, sequential, starts, off, requests, request, stripe, begin, left,
                    todo, done, currAddr, countIO, countSeq, countNseq, countRand, utilTime,
                    totalTime, stage>>
    BY <1>7 DEF Stopped, vars, inputVars, stripeVars, diskVars
  <2>2. InputInv' /\ ControlOK' /\ LoopInv' /\ IdleInv'
    BY <1>1, <2>1 DEF InputInv, ControlOK, LoopInv, IdleInv
  <2>3. CountersOK' /\ BoundInv'
    BY <1>1, <2>1 DEF CountersOK, BoundInv, Disks
  <2> QED
    BY <1>1, <1>2, <2>1, <2>2, <2>3
<1>8. CASE Go
  <2>1. /\ stage = "generate" /\ stage' = "end"
        /\ totalTime' = Max({utilTime[d] : d \in Disks} \cup {0})
        /\ UNCHANGED <<g, size, sequential, starts, off, requests, request, stripe, begin, left,
                       todo, done, currAddr, countIO, countSeq, countNseq, countRand, utilTime>>
    BY <1>8 DEF Go, inputVars, stripeVars, diskVars
  <2>2. totalTime' \in Nat
    BY <1>1, <2>1, GoTakesMax
  <2>3. InputInv' /\ ControlOK' /\ LoopInv' /\ IdleInv'
    BY <1>1, <2>1, <2>2 DEF InputInv, ControlOK, LoopInv, IdleInv
  <2>4. CountersOK' /\ BoundInv'
    BY <1>1, <2>1 DEF CountersOK, BoundInv, Disks
  <2> QED
    BY <1>1, <1>2, <2>1, <2>3, <2>4
<1> QED
  BY <1>3, <1>4, <1>5, <1>6, <1>7, <1>8 DEF Next

LEMMA Based == Spec => []BaseInv
<1> QED
  BY BaseInit, BaseStep, PTL DEF Spec

\* Every variable of the exercise keeps its type, for every array and workload.
THEOREM ExerciseTypeCorrect == Spec => []TypeOK
<1>1. BaseInv => TypeOK
  BY DEF BaseInv
<1> QED
  BY <1>1, Based, PTL

-----------------------------------------------------------------------------
(***************************************************************************)
(* The disks: a disk stays where it was at first until its first I/O, and  *)
(* no I/O takes longer than one that needs a seek.                         *)
(***************************************************************************)
DiskInv ==
  \A d \in Disks :
    /\ countIO[d] = 0 => currAddr[d] = initialAddr
    /\ countIO[d] > 0 => countRand[d] > 0
    /\ utilTime[d] <= countIO[d] * (seekTime + xferTime)

EndInv == stage = "end" => \A d \in Disks : utilTime[d] <= totalTime

LEMMA EnqueueDisks ==
  ASSUME CountersOK, DiskInv, NEW d \in Disks, NEW addr \in Addresses, EnqueueAt(d, addr),
         UNCHANGED g
  PROVE  DiskInv'
<1>1. Disks' = Disks
  BY DEF Disks
<1> DEFINE near == Near(currAddr[d], addr)
           dist == Distance(currAddr[d], addr)
           more == IF near THEN dist * xferTime ELSE seekTime + xferTime
<1>2. currAddr[d] \in {initialAddr} \cup Addresses /\ countIO[d] \in Nat /\ countRand[d] \in Nat
      /\ utilTime[d] \in Nat
  BY DEF CountersOK
<1>3. dist \in Nat /\ (near => currAddr[d] # initialAddr /\ dist <= 101)
  BY <1>2, NearIsNear DEF seekTime, xferTime
<1>4. more \in Nat /\ more <= 101
  BY <1>3 DEF seekTime, xferTime
<1>5. /\ countIO' = [countIO EXCEPT ![d] = @ + 1]
      /\ countRand' = [countRand EXCEPT ![d] = IF near THEN @ ELSE @ + 1]
      /\ utilTime' = [utilTime EXCEPT ![d] = @ + more]
      /\ currAddr' = [currAddr EXCEPT ![d] = addr]
  BY DEF EnqueueAt
<1> HIDE DEF near, dist, more
<1>6. ASSUME NEW e \in Disks, e # d
      PROVE  /\ countIO'[e] = countIO[e] /\ countRand'[e] = countRand[e]
             /\ utilTime'[e] = utilTime[e] /\ currAddr'[e] = currAddr[e]
  BY <1>5, <1>6 DEF CountersOK
<1>7. /\ countIO'[d] = countIO[d] + 1 /\ utilTime'[d] = utilTime[d] + more
      /\ countRand'[d] = IF near THEN countRand[d] ELSE countRand[d] + 1
  BY <1>5 DEF CountersOK
<1>8. countRand'[d] > 0
  <2>1. near => countRand[d] > 0
    BY <1>2, <1>3 DEF DiskInv
  <2> QED
    BY <1>2, <1>7, <2>1
<1>9. utilTime'[d] <= countIO'[d] * (seekTime + xferTime)
  <2>1. utilTime[d] <= countIO[d] * 101
    BY DEF DiskInv, seekTime, xferTime
  <2> QED
    BY <1>2, <1>4, <1>7, <2>1 DEF seekTime, xferTime
<1>10. ASSUME NEW e \in Disks
       PROVE  /\ countIO'[e] = 0 => currAddr'[e] = initialAddr
              /\ countIO'[e] > 0 => countRand'[e] > 0
              /\ utilTime'[e] <= countIO'[e] * (seekTime + xferTime)
  <2>1. CASE e = d
    BY <1>2, <1>7, <1>8, <1>9, <2>1
  <2>2. CASE e # d
    BY <1>6, <2>2 DEF DiskInv
  <2> QED
    BY <2>1, <2>2
<1> QED
  BY <1>1, <1>10 DEF DiskInv

LEMMA DisksInit == Init => DiskInv /\ EndInv
<1> SUFFICES ASSUME Init PROVE DiskInv /\ EndInv
  OBVIOUS
<1>1. PICK in \in Inputs :
        /\ g = in.g /\ currAddr = [d \in 0 .. in.g.numDisks - 1 |-> initialAddr]
        /\ countIO = [d \in 0 .. in.g.numDisks - 1 |-> 0]
        /\ countRand = countIO /\ utilTime = countIO /\ stage = "generate"
  BY DEF Init
<1> QED
  BY <1>1 DEF DiskInv, EndInv, Disks, seekTime, xferTime

LEMMA DisksStep == BaseInv /\ DiskInv /\ EndInv /\ [Next]_vars => DiskInv' /\ EndInv'
<1> SUFFICES ASSUME BaseInv, DiskInv, EndInv, [Next]_vars PROVE DiskInv' /\ EndInv'
  OBVIOUS
<1>1. CountersOK /\ BoundInv /\ IdleInv /\ todo \in Seq(Ios)
  BY TypeParts DEF BaseInv
<1>2. ASSUME UNCHANGED <<g, diskVars>> PROVE DiskInv'
  BY <1>2 DEF DiskInv, Disks, diskVars
<1>3. CASE Generate
  BY <1>2, <1>3 DEF Generate, inputVars, EndInv
<1>4. CASE WriteStripe
  BY <1>2, <1>4 DEF WriteStripe, inputVars, EndInv
<1>5. CASE DoSingleIO
  <2>1. todo # <<>> /\ UNCHANGED g
    BY <1>5 DEF DoSingleIO, inputVars
  <2>2. stage # "end"
    BY <1>1, <2>1 DEF IdleInv
  <2>3. CASE Head(todo).place.off < blocksPerDisk
    <3>1. EnqueueAt(Head(todo).place.disk, Head(todo).place.off) /\ UNCHANGED stage
      BY <1>5, <2>3 DEF DoSingleIO
    <3>2. DiskInv'
      BY <1>1, <2>1, <2>3, <3>1, NextIO, EnqueueDisks
    <3> QED
      BY <2>2, <3>1, <3>2 DEF EndInv
  <2>4. CASE ~ (Head(todo).place.off < blocksPerDisk)
    <3>1. stage' = "failed" /\ UNCHANGED diskVars
      BY <1>5, <2>4 DEF DoSingleIO
    <3> QED
      BY <1>2, <2>1, <3>1 DEF EndInv
  <2> QED
    BY <2>3, <2>4
<1>6. CASE EndRequest
  BY <1>2, <1>6 DEF EndRequest, inputVars, EndInv
<1>7. CASE Go
  <2>1. /\ totalTime' = Max({utilTime[d] : d \in Disks} \cup {0})
        /\ UNCHANGED <<g, diskVars>>
    BY <1>7 DEF Go, inputVars
  <2>2. \A d \in Disks : utilTime[d] <= totalTime'
    BY <1>1, <2>1, GoTakesMax
  <2> QED
    BY <1>2, <2>1, <2>2 DEF EndInv, Disks, diskVars
<1>8. CASE Stopped \/ UNCHANGED vars
  BY <1>2, <1>8 DEF Stopped, vars, inputVars, diskVars, EndInv, Disks
<1> QED
  BY <1>3, <1>4, <1>5, <1>6, <1>7, <1>8 DEF Next

\* "make it negative so that whatever the first read is, it causes a seek" (line
\* 46): every disk that has been asked for an I/O has made a seek.
THEOREM FirstSeeks == Spec => []FirstIOSeeks
<1>1. DiskInv => FirstIOSeeks
  BY DEF DiskInv, FirstIOSeeks
<1> QED
  BY <1>1, Based, DisksInit, DisksStep, PTL DEF Spec

\* No I/O takes longer than a seek and a transfer, and go() waits for every disk.
THEOREM NearCheaper == Spec => []NearIsCheaper
<1>1. DiskInv /\ EndInv => NearIsCheaper
  BY DEF DiskInv, EndInv, NearIsCheaper
<1> QED
  BY <1>1, Based, DisksInit, DisksStep, PTL DEF Spec

-----------------------------------------------------------------------------
(***************************************************************************)
(* What a request does, done and still to do.                              *)
(***************************************************************************)
Plan == done \o todo

\* The parity of everything planned is known when it is written.  A write that is
\* under way covers what lies before begin, in the chunks before its stripe; a
\* request that is planned to its end covers all its blocks.
PlanInv ==
  /\ ParityKnown(g, Plan, request.addr, request.addr + size)
  /\ stage = "stripes" =>
       /\ WritesThese(g, Plan, request.addr, begin)
       /\ Below(Plan, stripe * g.chunkSize)
  /\ stage = "enqueue" \/ (stage = "generate" /\ requests > 0) =>
       IF request.isWrite THEN WritesThese(g, Plan, request.addr, request.addr + size)
                          ELSE ReadsThese(g, Plan, request.addr, request.addr + size)

\* Enqueueing an I/O changes nothing of the plan.
LEMMA MoveOne ==
  ASSUME NEW S, NEW X \in Seq(S), NEW Y \in Seq(S), Y # <<>>
  PROVE  Append(X, Head(Y)) \o Tail(Y) = X \o Y
<1> DEFINE A == Append(X, Head(Y))
           T == Tail(Y)
<1>1. A \in Seq(S) /\ Len(A) = Len(X) + 1 /\ Len(X) \in Nat
      /\ (\A i \in 1 .. Len(X) : A[i] = X[i]) /\ A[Len(X) + 1] = Y[1]
  OBVIOUS
<1>2. T \in Seq(S) /\ Len(T) = Len(Y) - 1 /\ Len(Y) \in Nat \ {0}
      /\ \A i \in 1 .. Len(T) : T[i] = Y[i + 1]
  OBVIOUS
<1> HIDE DEF A, T
<1>3. /\ A \o T \in Seq(S) /\ Len(A \o T) = Len(A) + Len(T)
      /\ \A i \in 1 .. Len(A) + Len(T) :
           (A \o T)[i] = IF i <= Len(A) THEN A[i] ELSE T[i - Len(A)]
  BY <1>1, <1>2, ConcatProperties
<1>4. /\ X \o Y \in Seq(S) /\ Len(X \o Y) = Len(X) + Len(Y)
      /\ \A i \in 1 .. Len(X) + Len(Y) :
           (X \o Y)[i] = IF i <= Len(X) THEN X[i] ELSE Y[i - Len(X)]
  BY ConcatProperties
<1> DEFINE n == Len(X) + Len(Y)
<1>5. Len(A) + Len(T) = n /\ n \in Nat
  BY <1>1, <1>2
<1>6. ASSUME NEW i \in 1 .. n PROVE (A \o T)[i] = (X \o Y)[i]
  <2>1. CASE i <= Len(X)
    <3>1. i \in 1 .. Len(X) /\ i <= Len(A)
      BY <1>1, <2>1
    <3> QED
      BY <1>1, <1>3, <1>4, <1>5, <2>1, <3>1
  <2>2. CASE i = Len(X) + 1
    <3>1. i <= Len(A) /\ ~ (i <= Len(X)) /\ i - Len(X) = 1 /\ A[i] = Y[1]
      BY <1>1, <2>2
    <3> QED
      BY <1>3, <1>4, <1>5, <3>1
  <2>3. CASE i > Len(X) + 1
    <3> DEFINE k == i - Len(A)
    <3>1. ~ (i <= Len(A)) /\ ~ (i <= Len(X)) /\ k \in 1 .. Len(T) /\ k + 1 = i - Len(X)
      BY <1>1, <1>2, <2>3
    <3>2. (A \o T)[i] = T[k] /\ (X \o Y)[i] = Y[i - Len(X)]
      BY <1>3, <1>4, <1>5, <3>1
    <3> HIDE DEF k
    <3> QED
      BY <1>2, <3>1, <3>2
  <2>4. i <= Len(X) \/ i = Len(X) + 1 \/ i > Len(X) + 1
    BY <1>1
  <2> QED
    BY <2>1, <2>2, <2>3, <2>4, Zenon
<1> QED
  BY <1>3, <1>4, <1>5, <1>6, SeqEqual

LEMMA PlanInit == Init => PlanInv
<1> SUFFICES ASSUME Init PROVE PlanInv
  OBVIOUS
<1>1. todo = <<>> /\ done = <<>> /\ requests = 0 /\ stage = "generate"
  BY DEF Init
<1>2. Plan = <<>>
  BY <1>1 DEF Plan
<1>3. Len(Plan) = 0
  BY <1>2
<1> QED
  BY <1>1, <1>3 DEF PlanInv, ParityKnown

LEMMA PlanGenerate == BaseInv /\ PlanInv /\ Generate => PlanInv'
<1> SUFFICES ASSUME BaseInv, PlanInv, Generate PROVE PlanInv'
  OBVIOUS
<1>1. g \in Arrays /\ size \in Nat /\ starts \in SUBSET Nat /\ off \in Nat
  BY TypeParts DEF BaseInv, InputInv, ControlOK
<1>2. PICK blk \in (IF sequential THEN {off} ELSE starts) : \E isWrite \in BOOLEAN :
        /\ request' = [addr |-> blk, isWrite |-> isWrite]
        /\ IF isWrite /\ g.raidLevel \in {4, 5}
             THEN stage' = "stripes" /\ begin' = blk /\ todo' = <<>>
             ELSE stage' = "enqueue" /\ todo' = RequestIOs(blk, isWrite)
  BY DEF Generate
<1>3. PICK isWrite \in BOOLEAN :
        /\ request' = [addr |-> blk, isWrite |-> isWrite]
        /\ IF isWrite /\ g.raidLevel \in {4, 5}
             THEN stage' = "stripes" /\ begin' = blk /\ todo' = <<>>
             ELSE stage' = "enqueue" /\ todo' = RequestIOs(blk, isWrite)
  BY <1>2
<1>4. done' = <<>> /\ g' = g /\ size' = size
  BY DEF Generate, inputVars
<1>5. blk \in Nat /\ request'.addr = blk /\ request'.isWrite = isWrite
  BY <1>1, <1>3
<1>6. CASE isWrite /\ g.raidLevel \in {4, 5}
  <2>1. stage' = "stripes" /\ begin' = blk /\ todo' = <<>>
    BY <1>3, <1>6
  <2>2. Plan' = <<>>
    BY <1>4, <2>1 DEF Plan
  <2>3. Len(Plan') = 0 /\ blk .. blk - 1 = {}
    BY <1>5, <2>2
  <2>4. ParityKnown(g', Plan', blk, blk + size)
    BY <2>3 DEF ParityKnown
  <2>5. WritesThese(g', Plan', blk, blk) /\ Below(Plan', stripe' * g'.chunkSize)
    BY <2>3 DEF WritesThese, Below
  <2> QED
    BY <1>4, <1>5, <2>1, <2>4, <2>5 DEF PlanInv
<1>7. CASE ~ (isWrite /\ g.raidLevel \in {4, 5})
  <2> DEFINE R == RequestIOs(blk, isWrite)
  <2>1. stage' = "enqueue" /\ todo' = R
    BY <1>3, <1>7
  <2>2. /\ R \in Seq(Ios)
        /\ IF isWrite THEN WritesThese(g, R, blk, blk + size) ELSE ReadsThese(g, R, blk, blk + size)
    BY <1>1, <1>5, <1>7, RequestPlanned
  <2> HIDE DEF R
  <2>3. Plan' = R
    BY <1>4, <2>1, <2>2, ConcatEmptySeq DEF Plan
  <2>4. ParityKnown(g, R, blk, blk + size)
    <3>1. CASE g.raidLevel \in {4, 5}
      <4>1. \A i \in 1 .. Len(R) : R[i].op = Read
        BY <1>7, <2>2, <3>1 DEF ReadsThese
      <4>2. \A i \in 1 .. Len(R) : \A place : R[i] # IO(Write, place)
        BY <4>1 DEF IO, Read, Write
      <4> QED
        BY <4>2 DEF ParityKnown
    <3>2. CASE g.raidLevel \notin {4, 5}
      BY <3>2 DEF ParityKnown
    <3> QED
      BY <3>1, <3>2
  <2> QED
    BY <1>4, <1>5, <2>1, <2>2, <2>3, <2>4 DEF PlanInv
<1> QED
  BY <1>6, <1>7

LEMMA PlanStripe == BaseInv /\ PlanInv /\ WriteStripe => PlanInv'
<1> SUFFICES ASSUME BaseInv, PlanInv, WriteStripe PROVE PlanInv'
  OBVIOUS
<1> DEFINE w == doPartialWrite(stripe, begin, StripeEnd)
           Q == done \o w
           to == StripeEnd
           lo == request.addr
           hi == request.addr + size
<1>1. /\ stage = "stripes" /\ todo = <<>> /\ todo' = w /\ begin' = to /\ stripe' = stripe + 1
      /\ UNCHANGED <<g, size, request, done, stage>>
  BY DEF WriteStripe, inputVars
<1>2. /\ done \in Seq(Ios) /\ size \in Nat /\ lo \in Nat /\ begin \in Nat /\ left \in Nat
      /\ stripe \in Nat /\ lo <= begin /\ begin + left = hi
  BY <1>1, TypeParts DEF BaseInv, InputInv, ControlOK, LoopInv
<1>3. /\ g \in ParityArrays /\ to \in Nat /\ begin <= to /\ to <= begin + left
      /\ Within(stripe, begin, to)
      /\ \A c \in Nat :
           /\ c \div blocksInStripe(g) = stripe
           /\ c \in lo .. hi - 1
           => c \in begin .. to - 1
  <2>1. /\ g \in ParityArrays /\ to \in Nat /\ begin <= to /\ to <= begin + left
        /\ Within(stripe, begin, to)
    BY <1>1, LoopStep
  <2>2. \A c \in Nat :
          /\ c \div blocksInStripe(g) = stripe
          /\ c \in request.addr .. request.addr + size - 1
          => c \in begin .. StripeEnd - 1
    BY <1>1, LoopStep
  <2>3. hi - 1 = request.addr + size - 1
    BY <1>2
  <2> QED
    BY <2>1, <2>2, <2>3
<1>4. Plan = done /\ Plan' = Q
  BY <1>1, <1>2, ConcatEmptySeq DEF Plan
<1> HIDE DEF w, Q, to, lo, hi
<1>5. PartialWrite(w, stripe, begin, to)
  BY <1>2, <1>3, PartialWriteIs DEF w, to
<1>6. Follows(done, w, Q)
  BY <1>2, <1>5, Joined DEF PartialWrite, Q
<1>7. /\ WritesThese(g, done, lo, begin) /\ Below(done, stripe * g.chunkSize)
      /\ ParityKnown(g, done, lo, hi)
  BY <1>1, <1>4 DEF PlanInv, lo, hi
<1>8. NextStripe(done, w, Q, stripe, begin, to)
  BY <1>2, <1>3, <1>5, <1>6, <1>7 DEF NextStripe, PartialWrite
<1>9. WritesThese(g, Q, lo, to) /\ Below(Q, (stripe + 1) * g.chunkSize)
  BY <1>2, <1>3, <1>7, <1>8, StripeWritten
<1>10. ParityKnown(g, Q, lo, hi)
  <2>1. hi \in Nat /\ to <= hi
    BY <1>2, <1>3 DEF hi, lo
  <2>2. \A c \in lo .. hi - 1 : c \div blocksInStripe(g) = stripe => c \in begin .. to - 1
    BY <1>2, <1>3
  <2> QED
    BY <1>2, <1>3, <1>7, <1>8, <2>1, <2>2, ParityStripe
<1> QED
  BY <1>1, <1>4, <1>9, <1>10 DEF PlanInv, lo, hi

LEMMA PlanStep == BaseInv /\ PlanInv /\ [Next]_vars => PlanInv'
<1> SUFFICES ASSUME BaseInv, PlanInv, [Next]_vars PROVE PlanInv'
  OBVIOUS
<1>1. CASE Generate
  BY <1>1, PlanGenerate
<1>2. CASE WriteStripe
  BY <1>2, PlanStripe
<1>3. CASE DoSingleIO
  <2>1. todo # <<>> /\ stage # "failed" /\ UNCHANGED <<g, size, requests, request, stripe, begin>>
    BY <1>3 DEF DoSingleIO, inputVars, stripeVars
  <2>2. CASE Head(todo).place.off < blocksPerDisk
    <3>1. done' = Append(done, Head(todo)) /\ todo' = Tail(todo) /\ UNCHANGED stage
      BY <1>3, <2>2 DEF DoSingleIO
    <3>2. todo \in Seq(Ios) /\ done \in Seq(Ios)
      BY TypeParts DEF BaseInv
    <3>3. Plan' = Plan
      BY <2>1, <3>1, <3>2, MoveOne DEF Plan
    <3> QED
      BY <2>1, <3>1, <3>3 DEF PlanInv
  <2>3. CASE ~ (Head(todo).place.off < blocksPerDisk)
    <3>1. stage' = "failed" /\ UNCHANGED <<done, todo>>
      BY <1>3, <2>3 DEF DoSingleIO
    <3> QED
      BY <2>1, <3>1 DEF PlanInv, Plan
  <2> QED
    BY <2>2, <2>3
<1>4. CASE EndRequest
  <2>1. /\ stage' = "generate" /\ UNCHANGED <<g, size, requests, request, stripe, begin, todo, done>>
        /\ stage = "enqueue" \/ (stage = "stripes" /\ stripe > finalStripe)
    BY <1>4 DEF EndRequest, inputVars, stripeVars
  <2>2. CASE stage = "enqueue"
    BY <2>1, <2>2 DEF PlanInv, Plan
  <2>3. CASE stage = "stripes" /\ stripe > finalStripe
    <3>1. left = 0 /\ request.isWrite /\ begin + left = request.addr + size /\ begin \in Nat
      BY <2>3, LoopEnds, TypeParts DEF BaseInv, LoopInv, ControlOK
    <3>2. begin = request.addr + size
      BY <3>1
    <3> QED
      BY <2>1, <2>3, <3>1, <3>2 DEF PlanInv, Plan
  <2> QED
    BY <2>1, <2>2, <2>3
<1>5. CASE Go
  <2>1. stage' = "end" /\ UNCHANGED <<g, size, request, todo, done>>
    BY <1>5 DEF Go, inputVars
  <2> QED
    BY <2>1 DEF PlanInv, Plan
<1>6. CASE Stopped \/ UNCHANGED vars
  <2>1. UNCHANGED <<g, size, requests, request, stripe, begin, todo, done, stage>>
    BY <1>6 DEF Stopped, vars, inputVars, stripeVars
  <2> QED
    BY <2>1 DEF PlanInv, Plan
<1> QED
  BY <1>1, <1>2, <1>3, <1>4, <1>5, <1>6 DEF Next

LEMMA Planned == Spec => [](BaseInv /\ PlanInv)
<1> QED
  BY Based, PlanInit, PlanStep, PTL DEF Spec

-----------------------------------------------------------------------------
(***************************************************************************)
(* What the requests do, for every array, size and sequence of requests.   *)
(***************************************************************************)
LEMMA DoneIsPlanned ==
  ASSUME BaseInv, PlanInv, RequestDone
  PROVE  /\ done \in Seq(Ios) /\ size \in Nat /\ request.addr \in Nat
         /\ IF request.isWrite THEN WritesThese(g, done, request.addr, request.addr + size)
                               ELSE ReadsThese(g, done, request.addr, request.addr + size)
<1>1. done \in Seq(Ios) /\ size \in Nat /\ request.addr \in Nat /\ todo = <<>>
  BY TypeParts DEF BaseInv, InputInv, ControlOK, IdleInv, RequestDone
<1>2. Plan = done
  BY <1>1, ConcatEmptySeq DEF Plan
<1> QED
  BY <1>1, <1>2 DEF PlanInv, RequestDone

\* A read fetches each of its blocks once, from one of its places.
THEOREM ReadsAreExact == Spec => []ReadsExact
<1>1. ASSUME BaseInv, PlanInv PROVE ReadsExact
  <2> SUFFICES ASSUME RequestDone, ~ request.isWrite
               PROVE  /\ Len(done) = size
                      /\ \A b \in RequestBlocks : \E i \in DOMAIN done :
                           done[i].op = Read /\ done[i].place \in Places(b)
    BY DEF ReadsExact
  <2>1. /\ done \in Seq(Ios) /\ size \in Nat /\ request.addr \in Nat
        /\ ReadsThese(g, done, request.addr, request.addr + size)
    BY <1>1, DoneIsPlanned
  <2>2. Len(done) = size
    BY <2>1 DEF ReadsThese
  <2>3. ASSUME NEW b \in RequestBlocks
        PROVE  \E i \in DOMAIN done : done[i].op = Read /\ done[i].place \in Places(b)
    <3> DEFINE i == b - request.addr + 1
    <3>1. i \in 1 .. Len(done) /\ request.addr + i - 1 = b /\ i \in DOMAIN done
      BY <2>1, <2>2 DEF RequestBlocks
    <3> HIDE DEF i
    <3>2. done[i].op = Read /\ done[i].place \in CopiesOf(g, b)
      BY <2>1, <3>1 DEF ReadsThese
    <3> QED
      BY <3>1, <3>2 DEF CopiesOf, Places
  <2> QED
    BY <2>2, <2>3
<1> QED
  BY <1>1, Planned, PTL

\* A write reaches every place of its blocks and the parity of every row it
\* touches, each once, and nothing else, however it lies across the stripes.
THEOREM WritesAreExact == Spec => []WritesExact
<1>1. ASSUME BaseInv, PlanInv PROVE WritesExact
  <2> DEFINE Target == IF ~ request.isWrite THEN {}
                       ELSE (UNION {Places(b) : b \in RequestBlocks})
                            \cup (IF g.raidLevel \in {4, 5} THEN {Parity(b) : b \in RequestBlocks}
                                                            ELSE {})
  <2> SUFFICES ASSUME RequestDone
               PROVE  /\ \A i, j \in Writes : done[i] = done[j] => i = j
                      /\ {done[i].place : i \in Writes} = Target
    BY DEF WritesExact
  <2>1. /\ done \in Seq(Ios) /\ size \in Nat /\ request.addr \in Nat
        /\ IF request.isWrite THEN WritesThese(g, done, request.addr, request.addr + size)
                              ELSE ReadsThese(g, done, request.addr, request.addr + size)
    BY <1>1, DoneIsPlanned
  <2>2. DOMAIN done = 1 .. Len(done)
    BY <2>1
  <2>3. RequestBlocks = request.addr .. (request.addr + size) - 1
    BY <2>1 DEF RequestBlocks
  <2>4. CASE ~ request.isWrite
    <3>1. Writes = {}
      BY <2>1, <2>2, <2>4 DEF ReadsThese, Writes, Read, Write
    <3> QED
      BY <2>4, <3>1
  <2>5. CASE request.isWrite
    <3>1. WritesThese(g, done, request.addr, request.addr + size)
      BY <2>1, <2>5
    <3>2. \A i, j \in Writes : done[i] = done[j] => i = j
      BY <2>2, <3>1 DEF WritesThese, Writes
    <3>3. \A place : place \in Target <=> \E b \in RequestBlocks : place \in Homes(g, b)
      <4>1. \A b : Homes(g, b) = Places(b) \cup (IF g.raidLevel \in {4, 5} THEN {Parity(b)} ELSE {})
        BY DEF Homes, CopiesOf, ParityOf, Places, Parity
      <4>2. CASE g.raidLevel \in {4, 5}
        <5>1. \A b : Homes(g, b) = Places(b) \cup {Parity(b)}
          BY <4>1, <4>2
        <5> QED
          BY <2>5, <4>2, <5>1
      <4>3. CASE g.raidLevel \notin {4, 5}
        BY <2>5, <4>1, <4>3
      <4> QED
        BY <4>2, <4>3
    <3> HIDE DEF Target
    <3>4. ASSUME NEW i \in Writes PROVE done[i].place \in Target
      BY <2>2, <2>3, <3>1, <3>3 DEF WritesThese, Writes
    <3>5. ASSUME NEW place \in Target PROVE \E i \in Writes : done[i].place = place
      <4>1. PICK b \in RequestBlocks : place \in Homes(g, b)
        BY <3>3
      <4>2. PICK i \in 1 .. Len(done) : done[i] = IO(Write, place)
        BY <2>3, <3>1, <4>1 DEF WritesThese
      <4> QED
        BY <2>2, <4>2 DEF Writes, IO
    <3> QED
      BY <3>2, <3>4, <3>5
  <2> QED
    BY <2>4, <2>5
<1> QED
  BY <1>1, Planned, PTL

\* When a parity block is written, what was read before determines its new value:
\* the subtractive and the additive update of doPartialWrite, however the request
\* lies across the stripes.
THEOREM ParityIsComputable == Spec => []ParityComputable
<1>1. ASSUME BaseInv, PlanInv PROVE ParityComputable
  <2> SUFFICES ASSUME g.raidLevel \in {4, 5}, NEW i \in DOMAIN done, NEW b \in RequestBlocks,
                      done[i] = [op |-> Write, place |-> Parity(b)]
               PROVE  \/ {bmap(g, c) : c \in RowOf(b) \ RequestBlocks} \subseteq ReadBefore(i)
                      \/ {bmap(g, c) : c \in RowOf(b) \cap RequestBlocks} \cup {Parity(b)}
                           \subseteq ReadBefore(i)
    BY DEF ParityComputable
  <2> DEFINE B == blocksInStripe(g)
             s == b \div B
             hi == request.addr + size
  <2>1. /\ done \in Seq(Ios) /\ todo \in Seq(Ios) /\ size \in Nat /\ request.addr \in Nat
        /\ g \in Arrays
    BY <1>1, TypeParts DEF BaseInv, InputInv, ControlOK
  <2>2. g \in ParityArrays /\ B \in Nats1
    BY <2>1, StripeSize DEF ParityArrays
  <2>3. b \in Nat /\ b \in request.addr .. hi - 1 /\ s \in Nat
    <3>1. b \in request.addr .. hi - 1
      BY <2>1 DEF RequestBlocks
    <3> HIDE DEF B
    <3>2. b \in Nat
      BY <2>1, <3>1
    <3> QED
      BY <2>2, <3>1, <3>2, Division
  <2>4. /\ i \in 1 .. Len(done) /\ i \in 1 .. Len(Plan) /\ i \in Nat
        /\ \A j \in 1 .. i : Plan[j] = done[j] /\ done[j] \in Ios
    <3>1. i \in 1 .. Len(done) /\ Len(done) \in Nat /\ Len(todo) \in Nat
      BY <2>1
    <3>2. /\ Len(Plan) = Len(done) + Len(todo)
          /\ \A j \in 1 .. Len(done) + Len(todo) :
               Plan[j] = IF j <= Len(done) THEN done[j] ELSE todo[j - Len(done)]
      BY <2>1, ConcatProperties DEF Plan
    <3> QED
      BY <2>1, <3>1, <3>2
  <2>5. KnownAt(g, Plan, request.addr, hi, i, b)
    <3>1. Plan[i] = IO(Write, ParityOf(g, b))
      BY <2>4 DEF IO, ParityOf, Parity
    <3> QED
      BY <1>1, <2>3, <2>4, <3>1 DEF PlanInv, ParityKnown
  <2>6. ReadsBefore(Plan, i) = ReadBefore(i)
    <3>1. ReadsBefore(Plan, i) = ReadsBefore(done, i)
      BY <2>4, SameBefore
    <3>2. \A j \in 1 .. i - 1 : [done[j] EXCEPT !.op = Write] = IO(Write, done[j].place)
      BY <2>4 DEF Ios, IO
    <3> QED
      BY <3>1, <3>2 DEF ReadsBefore, ReadBefore
  <2>7. \A c \in RowOf(b) : c \in Nat /\ c \div B = s
    <3> SUFFICES ASSUME NEW c \in RowOf(b) PROVE c \in Nat /\ c \div B = s
      OBVIOUS
    <3>1. c \in s * B .. (s + 1) * B - 1
      BY DEF RowOf
    <3> HIDE DEF B, s
    <3>2. s * B \in Nat /\ (s + 1) * B = s * B + B
      BY <2>2, <2>3, InStripe
    <3>3. c \in Nat /\ s * B <= c /\ c < s * B + B
      BY <2>2, <3>1, <3>2 DEF Nats1
    <3> QED
      BY <2>2, <2>3, <3>3, InStripe
  <2>8. RequestBlocks = request.addr .. hi - 1 /\ Parity(b) = ParityOf(g, b)
    BY <2>1 DEF RequestBlocks, Parity, ParityOf
  <2> HIDE DEF B, s, hi
  <2>9. CASE \A c \in Nat : c \div B = s /\ c \notin request.addr .. hi - 1
                              => bmap(g, c) \in ReadsBefore(Plan, i)
    BY <2>6, <2>7, <2>8, <2>9
  <2>10. CASE /\ ParityOf(g, b) \in ReadsBefore(Plan, i)
              /\ \A c \in request.addr .. hi - 1 :
                   c \div B = s => bmap(g, c) \in ReadsBefore(Plan, i)
    BY <2>6, <2>7, <2>8, <2>10
  <2> QED
    BY <2>5, <2>9, <2>10 DEF KnownAt, B, s
<1> QED
  BY <1>1, Planned, PTL
=============================================================================
