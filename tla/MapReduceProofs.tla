--------------------------- MODULE MapReduceProofs --------------------------
(***************************************************************************)
(* Proofs about the sequential MapReduce, for every job and every initial  *)
(* size of the list.                                                       *)
(***************************************************************************)
EXTENDS MapReduce, FiniteSetTheorems, TLAPS

JobOK == files \in Seq(Seq(PairSet)) /\ reducer \in Reducers

\* Once sorted, the list stays in the order of the keys.
ListSorted ==
  ctl # "map" =>
    \A j, k \in Slots(num_elements) : j < k => elements[j].key <= elements[k].key

\* Which keys a reducer that takes all values has been called for: those before
\* the pair the reducers have come to, and the running reducer's.
CallsOK ==
  reducer = "all" =>
    /\ ctl = "map" => called = {}
    /\ ctl = "reduce" => \A k \in called, j \in Left : k < elements[j].key
    /\ ctl \in {"fresh", "reading"} =>
         /\ \A k \in called : k <= key
         /\ \A j \in Left : key <= elements[j].key

KeyOK == key = NoKey <=> ctl \notin {"fresh", "reading"}

IInv == TypeOK /\ JobOK /\ ListSorted /\ CallsOK /\ KeyOK

LEMMA Initially == Init => IInv
<1> SUFFICES ASSUME NEW job \in Jobs, files = job.files, reducer = job.reducer,
                    elements = [j \in Slots(InitSize) |-> Garbage],
                    num_elements = 0, size = InitSize, kvl_counter = 0, i = 1,
                    emitted = 0, ctl = "map", key = NoKey, called = {}, given = <<>>
             PROVE  IInv
  BY DEF Init
<1>1. JobOK
  BY JobAssumption DEF JobOK
<1>2. TypeOK
  BY <1>1, JobAssumption, SMT DEF Slots, TypeOK, JobOK
<1> QED
  BY <1>1, <1>2 DEF IInv, ListSorted, CallsOK, KeyOK

\* The list grows before a pair is stored beyond its end.
LEMMA EmitKeeps == ASSUME IInv, MR_Emit PROVE IInv'
<1> DEFINE pair == files[i][emitted + 1]
           slots == IF Full THEN Realloc(2 * size) ELSE elements
<1>1. /\ size \in Nat \ {0} /\ num_elements \in 0 .. size
      /\ elements \in [Slots(size) -> PairSet \cup {Garbage}]
      /\ \A j \in Slots(num_elements) : elements[j] \in PairSet
  BY DEF IInv, TypeOK
<1>2. pair \in PairSet
  <2>1. files[i] \in Seq(PairSet)
    BY DEF MR_Emit, IInv, JobOK, TypeOK
  <2> QED
    BY <2>1 DEF MR_Emit, IInv, TypeOK
<1>3. /\ size' \in Nat \ {0} /\ num_elements < size'
      /\ slots \in [Slots(size') -> PairSet \cup {Garbage}]
      /\ \A j \in Slots(num_elements) : slots[j] \in PairSet
      /\ num_elements' = num_elements + 1
      /\ elements' = [j \in DOMAIN slots \cup {num_elements} |->
                        IF j = num_elements THEN pair ELSE slots[j]]
  <2>1. CASE Full
    BY <1>1, <2>1, SMT DEF Slots, MR_Emit, add_to_list, Full, Realloc
  <2>2. CASE ~ Full
    BY <1>1, <2>2, SMT DEF MR_Emit, add_to_list, Full
  <2> QED
    BY <2>1, <2>2
<1> HIDE DEF pair, slots
<1>4. /\ elements' \in [Slots(size') -> PairSet \cup {Garbage}]
      /\ \A j \in Slots(num_elements') : elements'[j] \in PairSet
  <2>1. /\ num_elements \in Nat /\ size' \in Nat /\ num_elements < size'
        /\ num_elements' = num_elements + 1
    BY <1>1, <1>3
  <2>2. PICK n \in Nat : size' = n
    BY <2>1
  <2>3. num_elements \in Slots(n)
    BY <2>1, <2>2, SMT DEF Slots
  <2>4. DOMAIN slots \cup {num_elements} = Slots(size')
    BY <1>3, <2>2, <2>3
  <2>5. \A j \in Slots(num_elements + 1) :
          j \in Slots(n) /\ (j = num_elements \/ j \in Slots(num_elements))
    BY <2>1, <2>2, SMT DEF Slots
  <2> QED
    BY <1>2, <1>3, <2>1, <2>2, <2>4, <2>5
<1>5. /\ ctl = "map" /\ ctl' = "map" /\ emitted' = emitted + 1
      /\ UNCHANGED <<files, reducer, kvl_counter, key, called, given, i>>
  BY DEF MR_Emit, jobVars, reduceVars
<1>6. TypeOK'
  <2>1. num_elements' \in 0 .. size' /\ kvl_counter' \in 0 .. num_elements'
    BY <1>1, <1>3, <1>5, SMT DEF IInv, TypeOK
  <2>2. emitted' \in Nat
    BY <1>5 DEF IInv, TypeOK
  <2> QED
    BY <1>3, <1>4, <1>5, <2>1, <2>2 DEF IInv, TypeOK
<1> QED
  BY <1>5, <1>6 DEF IInv, JobOK, ListSorted, CallsOK, KeyOK

LEMMA SortKeeps == ASSUME IInv, Sort PROVE IInv'
<1> DEFINE used == Slots(num_elements)
<1>1. /\ ctl = "map" /\ ctl' = "reduce" /\ kvl_counter' = 0
      /\ UNCHANGED <<files, reducer, num_elements, size, i, emitted, key, called, given>>
  BY DEF Sort, jobVars, mapVars
<1>2. PICK f \in [used -> used] :
        /\ \A j, k \in used : j < k => elements[f[j]].key <= elements[f[k]].key
        /\ elements' = [j \in DOMAIN elements |->
                          IF j \in used THEN elements[f[j]] ELSE elements[j]]
  BY DEF Sort, Sorted, InOrder
<1>3. /\ num_elements \in Nat /\ size \in Nat /\ num_elements <= size
      /\ elements \in [Slots(size) -> PairSet \cup {Garbage}]
      /\ \A j \in used : elements[j] \in PairSet
      /\ used \subseteq Slots(size)
  <2>1. /\ num_elements \in 0 .. size /\ size \in Nat
        /\ elements \in [Slots(size) -> PairSet \cup {Garbage}]
        /\ \A j \in used : elements[j] \in PairSet
    BY DEF IInv, TypeOK
  <2>2. num_elements \in Nat /\ num_elements <= size /\ used \subseteq Slots(size)
    BY <2>1, SMT DEF Slots
  <2> QED
    BY <2>1, <2>2
<1>4. /\ elements' \in [Slots(size) -> PairSet \cup {Garbage}]
      /\ \A j \in used : elements'[j] = elements[f[j]] /\ elements'[j] \in PairSet
  BY <1>2, <1>3
<1>5. TypeOK'
  BY <1>1, <1>3, <1>4, SMT DEF IInv, TypeOK
<1>6. ListSorted'
  BY <1>1, <1>2, <1>4 DEF ListSorted
<1> QED
  BY <1>1, <1>5, <1>6 DEF IInv, JobOK, CallsOK, KeyOK

\* The next reducer is called for the least key left.
LEMMA CallKeeps == ASSUME IInv, CallReducer PROVE IInv'
<1>1. /\ ctl = "reduce" /\ ctl' = "fresh" /\ kvl_counter < num_elements
      /\ key' = elements[kvl_counter].key /\ called' = called \cup {key'}
      /\ UNCHANGED <<files, reducer, elements, num_elements, size, i, emitted,
                     kvl_counter, given>>
  BY DEF CallReducer, KeyToReduce, jobVars, listVars, mapVars
<1>2. /\ kvl_counter \in Slots(num_elements) /\ num_elements \in Nat
      /\ \A j \in Left : j \in Slots(num_elements) /\ j >= kvl_counter
      /\ \A j \in Slots(num_elements) : elements[j] \in PairSet
      /\ called \subseteq Nat
  BY <1>1, SMT DEF Slots, IInv, TypeOK, Left
<1>3. key' \in Nat /\ kvl_counter \in Left
  BY <1>1, <1>2, SMT DEF Slots, PairSet, Left
<1>4. TypeOK'
  BY <1>1, <1>3 DEF IInv, TypeOK
<1>5. \A j \in Left : key' <= elements[j].key
  BY <1>1, <1>2, <1>3, SMT DEF Slots, IInv, ListSorted, PairSet
<1>6. CallsOK'
  <2> SUFFICES ASSUME reducer = "all"
               PROVE  /\ \A k \in called' : k <= key'
                      /\ \A j \in Left : key' <= elements[j].key
    BY <1>1 DEF CallsOK, Left
  <2>1. \A k \in called : k <= key'
    BY <1>1, <1>2, <1>3, SMT DEF IInv, CallsOK
  <2> QED
    BY <1>1, <1>3, <1>5, <2>1, SMT
<1> QED
  BY <1>1, <1>3, <1>4, <1>6, SMT DEF IInv, JobOK, ListSorted, KeyOK, NoKey

LEMMA GetKeeps == ASSUME IInv, get_func PROVE IInv'
<1>1. /\ ctl \in {"fresh", "reading"} /\ ctl' = "reading" /\ kvl_counter < num_elements
      /\ kvl_counter' = kvl_counter + 1
      /\ given' = Append(given, [key |-> key, value |-> elements[kvl_counter].value])
      /\ UNCHANGED <<files, reducer, elements, num_elements, size, i, emitted, key, called>>
  BY DEF get_func, Matches, jobVars, listVars, mapVars
<1>2. kvl_counter \in Slots(num_elements) /\ kvl_counter' \in 0 .. num_elements
  BY <1>1, SMT DEF Slots, IInv, TypeOK
<1>3. [key |-> key, value |-> elements[kvl_counter].value] \in PairSet
  BY <1>1, <1>2 DEF IInv, TypeOK, KeyOK, PairSet
<1>4. TypeOK'
  BY <1>1, <1>2, <1>3, SMT DEF IInv, TypeOK
<1>5. Left' \subseteq Left
  BY <1>1, <1>2, SMT DEF Slots, Left
<1> QED
  BY <1>1, <1>4, <1>5 DEF IInv, JobOK, ListSorted, CallsOK, KeyOK

\* A reducer that takes all values returns when the keys left are greater.
LEMMA ReturnKeeps == ASSUME IInv, ReducerReturns PROVE IInv'
<1>1. /\ ctl \in {"fresh", "reading"} /\ ctl' = "reduce" /\ key' = NoKey
      /\ UNCHANGED <<files, reducer, elements, num_elements, size, i, emitted,
                     kvl_counter, called, given>>
  BY DEF ReducerReturns, jobVars, listVars, mapVars
<1>2. TypeOK'
  BY <1>1 DEF IInv, TypeOK
<1>3. ASSUME reducer = "all", NEW k \in called, NEW j \in Left
      PROVE  k < elements[j].key
  <2>1. /\ kvl_counter \in Nat /\ num_elements \in Nat /\ j \in kvl_counter .. num_elements - 1
        /\ \A n \in Slots(num_elements) : elements[n].key \in Nat
        /\ k \in Nat /\ key \in Nat
    BY <1>1, <1>3, SMT DEF IInv, TypeOK, Left, KeyOK, PairSet
  <2>2. kvl_counter \in Left /\ kvl_counter \in Slots(num_elements)
        /\ j \in Slots(num_elements)
    BY <2>1, SMT DEF Slots, Left
  <2>3. elements[kvl_counter].key # key
    <3>1. ~ Matches
      BY <1>3 DEF ReducerReturns
    <3>2. kvl_counter < num_elements
      BY <2>1, <2>2, SMT
    <3> QED
      BY <3>1, <3>2 DEF Matches
  <2>4. k <= key /\ key <= elements[kvl_counter].key
    BY <1>1, <1>3, <2>2 DEF IInv, CallsOK
  <2>5. elements[kvl_counter].key <= elements[j].key
    BY <1>1, <2>1, <2>2, SMT DEF IInv, ListSorted
  <2> QED
    BY <2>1, <2>2, <2>3, <2>4, <2>5, SMT
<1>4. CallsOK'
  BY <1>1, <1>3 DEF CallsOK, Left
<1> QED
  BY <1>1, <1>2, <1>4 DEF IInv, JobOK, ListSorted, KeyOK

LEMMA StepKeeps == IInv /\ [Next]_vars => IInv'
<1> SUFFICES ASSUME IInv, [Next]_vars PROVE IInv'
  OBVIOUS
<1>1. CASE MR_Emit
  BY <1>1, EmitKeeps
<1>2. CASE MapReturns
  <2>1. /\ ctl = "map" /\ i' = i + 1 /\ emitted' = 0 /\ i <= Len(files)
        /\ UNCHANGED <<files, reducer, elements, num_elements, size, kvl_counter,
                       ctl, key, called, given>>
    BY <1>2 DEF MapReturns, jobVars, listVars, reduceVars
  <2>2. TypeOK'
    BY <2>1, SMT DEF IInv, TypeOK, JobOK
  <2> QED
    BY <2>1, <2>2 DEF IInv, JobOK, ListSorted, CallsOK, KeyOK
<1>3. CASE Sort
  BY <1>3, SortKeeps
<1>4. CASE CallReducer
  BY <1>4, CallKeeps
<1>5. CASE get_func
  BY <1>5, GetKeeps
<1>6. CASE ReducerReturns
  BY <1>6, ReturnKeeps
<1>7. CASE MR_RunReturns
  BY <1>7 DEF MR_RunReturns, jobVars, listVars, mapVars, reduceVars,
              IInv, TypeOK, JobOK, ListSorted, CallsOK, KeyOK
<1>8. CASE UNCHANGED vars
  BY <1>8 DEF vars, IInv, TypeOK, JobOK, ListSorted, CallsOK, KeyOK, Left
<1> QED
  BY <1>1, <1>2, <1>3, <1>4, <1>5, <1>6, <1>7, <1>8 DEF Next

\* The inductive invariant of the list and of the two stages.
THEOREM Invariance == Spec => []IInv
  BY Initially, StepKeeps, PTL DEF Spec

\* Every variable keeps its type: no pair is ever stored or read outside the
\* slots of the list.
THEOREM TypeCorrect == Spec => []TypeOK
  BY Invariance, PTL DEF IInv

\* A reducer that takes all values is called once for each key, in the order of
\* the keys, however qsort orders equal keys.
THEOREM EachKeyOnce == Spec => KeyOnce
<1> DEFINE A == reducer = "all" /\ key' \notin {key, NoKey} => \A k \in called : k < key'
<1>1. IInv /\ [Next]_vars => [A]_vars
  <2> SUFFICES ASSUME IInv, Next, reducer = "all", key' \notin {key, NoKey},
                      NEW k \in called
               PROVE  k < key'
    OBVIOUS
  <2>1. CallReducer
    BY DEF Next, MR_Emit, MapReturns, Sort, get_func, ReducerReturns, MR_RunReturns,
           reduceVars
  <2>2. ctl = "reduce" /\ key' = elements[kvl_counter].key /\ kvl_counter \in Left
    BY <2>1, SMT DEF CallReducer, KeyToReduce, Left, IInv, TypeOK
  <2> QED
    BY <2>2 DEF IInv, CallsOK
<1>2. Spec => [][A]_vars
  BY Invariance, <1>1, PTL DEF Spec
<1> QED
  BY <1>2 DEF KeyOnce

-----------------------------------------------------------------------------
(***************************************************************************)
(* Bags of slots: what a store, a step of kvl_counter and the sort do to   *)
(* the pairs left.                                                         *)
(***************************************************************************)

\* The slots that hold a pair.
Holding(list, slots, pair) == {j \in slots : list[j] = pair}

LEMMA BagOfDomain ==
  ASSUME NEW list, NEW slots
  PROVE  /\ DOMAIN BagOf(list, slots) = {list[j] : j \in slots}
         /\ \A pair \in {list[j] : j \in slots} :
              BagOf(list, slots)[pair] = Cardinality(Holding(list, slots, pair))
  BY DEF BagOf, Holding

LEMMA HoldingFinite ==
  ASSUME NEW list, NEW slots, IsFiniteSet(slots), NEW pair
  PROVE  /\ IsFiniteSet(Holding(list, slots, pair))
         /\ Cardinality(Holding(list, slots, pair)) \in Nat
         /\ Cardinality(Holding(list, slots, pair)) = 0 <=> \A j \in slots : list[j] # pair
<1>1. Holding(list, slots, pair) \in SUBSET slots
  BY DEF Holding
<1>2. IsFiniteSet(Holding(list, slots, pair))
  BY <1>1, FS_Subset
<1>3. Cardinality(Holding(list, slots, pair)) = 0 <=> Holding(list, slots, pair) = {}
  BY <1>2, FS_EmptySet
<1> QED
  BY <1>2, <1>3, FS_CardinalityType DEF Holding

\* One more slot adds its pair.
LEMMA StoreAdds ==
  ASSUME NEW list, NEW new, NEW slots, IsFiniteSet(slots), NEW n, n \notin slots,
         \A j \in slots : new[j] = list[j]
  PROVE  BagOf(new, slots \cup {n}) = Groups!BagAdd(BagOf(list, slots), new[n])
<1> DEFINE B == BagOf(list, slots)
           C == BagOf(new, slots \cup {n})
<1>1. DOMAIN C = DOMAIN B \cup {new[n]}
  <2>1. {new[j] : j \in slots \cup {n}} = {list[j] : j \in slots} \cup {new[n]}
    OBVIOUS
  <2> QED
    BY <2>1, BagOfDomain
<1>2. ASSUME NEW pair \in DOMAIN C
      PROVE  C[pair] = Cardinality(Holding(new, slots \cup {n}, pair))
  BY BagOfDomain
<1>3. ASSUME NEW pair
      PROVE  Holding(new, slots \cup {n}, pair) =
               IF pair = new[n] THEN Holding(list, slots, pair) \cup {n}
               ELSE Holding(list, slots, pair)
  BY DEF Holding
<1>4. ASSUME NEW pair \in DOMAIN B, pair # new[n] PROVE C[pair] = B[pair]
  <2>1. C[pair] = Cardinality(Holding(new, slots \cup {n}, pair))
    <3>1. pair \in DOMAIN C
      BY <1>1
    <3> QED
      BY <1>2, <3>1
  <2>2. B[pair] = Cardinality(Holding(list, slots, pair))
    BY BagOfDomain
  <2>3. Holding(new, slots \cup {n}, pair) = Holding(list, slots, pair)
    BY <1>3, <1>4
  <2> QED
    BY <2>1, <2>2, <2>3
<1>5. C[new[n]] = Cardinality(Holding(list, slots, new[n])) + 1
  <2>1. C[new[n]] = Cardinality(Holding(list, slots, new[n]) \cup {n})
    BY <1>1, <1>2, <1>3
  <2>2. n \notin Holding(list, slots, new[n])
    BY DEF Holding
  <2> QED
    BY <2>1, <2>2, HoldingFinite, FS_AddElement
<1>6. C = [pair \in DOMAIN C |-> C[pair]]
  BY DEF BagOf
<1>7. CASE new[n] \in DOMAIN B
  <2>1. Groups!BagAdd(B, new[n]) = [e \in DOMAIN B |-> IF e = new[n] THEN B[e] + 1 ELSE B[e]]
    BY <1>7 DEF Groups!BagAdd
  <2>2. B[new[n]] = Cardinality(Holding(list, slots, new[n]))
    BY <1>7, BagOfDomain
  <2>3. DOMAIN C = DOMAIN B
    BY <1>1, <1>7
  <2> HIDE DEF B, C
  <2>4. \A e \in DOMAIN B : C[e] = IF e = new[n] THEN B[e] + 1 ELSE B[e]
    BY <1>4, <1>5, <2>2
  <2> QED
    BY <1>6, <2>1, <2>3, <2>4 DEF B, C
<1>8. CASE new[n] \notin DOMAIN B
  <2>1. Groups!BagAdd(B, new[n]) = [e \in DOMAIN B \cup {new[n]} |-> IF e = new[n] THEN 1 ELSE B[e]]
    BY <1>8 DEF Groups!BagAdd
  <2>2. Cardinality(Holding(list, slots, new[n])) = 0
    <3>1. DOMAIN B = {list[j] : j \in slots}
      BY BagOfDomain
    <3>2. \A j \in slots : list[j] # new[n]
      BY <1>8, <3>1
    <3> QED
      BY <3>2, HoldingFinite
  <2>3. C[new[n]] = 1
    BY <1>5, <2>2
  <2> HIDE DEF B, C
  <2>4. \A e \in DOMAIN B \cup {new[n]} : C[e] = IF e = new[n] THEN 1 ELSE B[e]
    BY <1>4, <2>3
  <2> QED
    BY <1>1, <1>6, <2>1, <2>4 DEF B, C
<1> QED
  BY <1>7, <1>8

\* One slot less removes its pair.
LEMMA StepRemoves ==
  ASSUME NEW list, NEW slots, IsFiniteSet(slots), NEW n \in slots
  PROVE  BagOf(list, slots \ {n}) = Groups!BagRemove(BagOf(list, slots), list[n])
<1> DEFINE B == BagOf(list, slots)
           C == BagOf(list, slots \ {n})
<1>1. /\ list[n] \in DOMAIN B
      /\ DOMAIN B = {list[j] : j \in slots} /\ DOMAIN C = {list[j] : j \in slots \ {n}}
  BY BagOfDomain
<1>2. ASSUME NEW pair \in DOMAIN C
      PROVE  C[pair] = Cardinality(Holding(list, slots \ {n}, pair))
  BY BagOfDomain
<1>3. ASSUME NEW pair \in DOMAIN B
      PROVE  B[pair] = Cardinality(Holding(list, slots, pair))
  BY BagOfDomain
<1>4. ASSUME NEW pair
      PROVE  Holding(list, slots \ {n}, pair) =
               IF pair = list[n] THEN Holding(list, slots, pair) \ {n}
               ELSE Holding(list, slots, pair)
  BY DEF Holding
<1>5. ASSUME NEW pair \in DOMAIN B, pair # list[n]
      PROVE  pair \in DOMAIN C /\ C[pair] = B[pair]
  <2>1. pair \in DOMAIN C
    BY <1>1, <1>5
  <2> QED
    BY <1>2, <1>3, <1>4, <1>5, <2>1
<1>6. /\ Cardinality(Holding(list, slots \ {n}, list[n])) = B[list[n]] - 1
      /\ B[list[n]] \in Nat
  <2>1. n \in Holding(list, slots, list[n])
    BY DEF Holding
  <2>2. Cardinality(Holding(list, slots, list[n]) \ {n})
          = Cardinality(Holding(list, slots, list[n])) - 1
    BY <2>1, HoldingFinite, FS_RemoveElement
  <2>3. Holding(list, slots \ {n}, list[n]) = Holding(list, slots, list[n]) \ {n}
    BY <1>4
  <2>4. B[list[n]] = Cardinality(Holding(list, slots, list[n]))
    BY <1>1, <1>3
  <2>5. Cardinality(Holding(list, slots, list[n])) \in Nat
    BY HoldingFinite
  <2> QED
    BY <2>2, <2>3, <2>4, <2>5
<1>7. C = [pair \in DOMAIN C |-> C[pair]]
  BY DEF BagOf
<1>8. list[n] \in DOMAIN C <=> B[list[n]] # 1
  <2>1. IsFiniteSet(slots \ {n})
    BY FS_RemoveElement
  <2>2. Cardinality(Holding(list, slots \ {n}, list[n])) = 0 <=> list[n] \notin DOMAIN C
    BY <1>1, <2>1, HoldingFinite
  <2> QED
    BY <1>6, <2>2
<1>9. DOMAIN C \subseteq DOMAIN B
  BY <1>1
<1>10. CASE B[list[n]] = 1
  <2>1. Groups!BagRemove(B, list[n]) = [e \in DOMAIN B \ {list[n]} |-> B[e]]
    BY <1>1, <1>10 DEF Groups!BagRemove
  <2> HIDE DEF B, C
  <2>2. DOMAIN C = DOMAIN B \ {list[n]}
    BY <1>5, <1>8, <1>9, <1>10
  <2>3. \A e \in DOMAIN C : C[e] = B[e]
    BY <1>5, <2>2
  <2> QED
    BY <1>7, <2>1, <2>2, <2>3 DEF B, C
<1>11. CASE B[list[n]] # 1
  <2>1. Groups!BagRemove(B, list[n]) = [e \in DOMAIN B |-> IF e = list[n] THEN B[e] - 1 ELSE B[e]]
    BY <1>1, <1>11 DEF Groups!BagRemove
  <2>2. list[n] \in DOMAIN C /\ C[list[n]] = B[list[n]] - 1
    BY <1>2, <1>6, <1>8, <1>11
  <2> HIDE DEF B, C
  <2>3. DOMAIN C = DOMAIN B
    BY <1>5, <1>9, <2>2
  <2>4. \A e \in DOMAIN B : C[e] = IF e = list[n] THEN B[e] - 1 ELSE B[e]
    BY <1>5, <2>2
  <2> QED
    BY <1>7, <2>1, <2>3, <2>4 DEF B, C
<1> QED
  BY <1>10, <1>11

\* A permutation of the slots leaves the bag as it is.
LEMMA PermutationKeeps ==
  ASSUME NEW list, NEW new, NEW slots, IsFiniteSet(slots), NEW f \in [slots -> slots],
         \A j, k \in slots : f[j] = f[k] => j = k,
         \A j \in slots : new[j] = list[f[j]]
  PROVE  BagOf(new, slots) = BagOf(list, slots)
<1>1. f \in Surjection(slots, slots)
  <2>1. f \in Injection(slots, slots)
    BY DEF Injection, IsInjective
  <2> QED
    BY <2>1, FS_Injection
<1>2. \A k \in slots : \E j \in slots : f[j] = k
  BY <1>1 DEF Surjection
<1>3. {new[j] : j \in slots} = {list[j] : j \in slots}
  <2>1. \A j \in slots : f[j] \in slots
    OBVIOUS
  <2> QED
    BY <1>2, <2>1
<1>4. ASSUME NEW pair
      PROVE  Cardinality(Holding(new, slots, pair)) = Cardinality(Holding(list, slots, pair))
  <2> DEFINE S == Holding(new, slots, pair)
             T == Holding(list, slots, pair)
             g == [j \in S |-> f[j]]
  <2>1. g \in [S -> T] /\ (\A j, k \in S : g[j] = g[k] => j = k)
    BY DEF Holding
  <2>2. \A k \in T : \E j \in S : g[j] = k
    BY <1>2 DEF Holding
  <2>3. g \in Bijection(S, T)
    <3> HIDE DEF g, S, T
    <3> QED
      BY <2>1, <2>2 DEF Bijection, Injection, Surjection, IsInjective
  <2>4. IsFiniteSet(S)
    BY HoldingFinite
  <2> HIDE DEF g, S, T
  <2>5. Cardinality(T) = Cardinality(S)
    BY <2>3, <2>4, FS_Bijection DEF ExistsBijection
  <2> QED
    BY <2>5 DEF S, T
<1> DEFINE D == {list[j] : j \in slots}
<1>5. /\ BagOf(new, slots) = [pair \in D |-> Cardinality(Holding(new, slots, pair))]
      /\ BagOf(list, slots) = [pair \in D |-> Cardinality(Holding(list, slots, pair))]
  BY <1>3 DEF BagOf, Holding
<1> HIDE DEF D
<1> QED
  BY <1>4, <1>5

-----------------------------------------------------------------------------
(***************************************************************************)
(* The refinement of Grouping: each step of the program is a step of the   *)
(* abstract specification, or changes nothing it sees.                     *)
(***************************************************************************)

\* The files are those of a job, and nothing is reduced while the mappers run.
SourceOK ==
  /\ \E job \in Jobs : files = job.files
  /\ ctl = "map" => kvl_counter = 0

RInv == IInv /\ SourceOK

LEMMA SourceKept == Spec => []RInv
<1>1. Init => SourceOK
  BY DEF Init, SourceOK
<1>2. SourceOK /\ [Next]_vars => SourceOK'
  BY DEF SourceOK, Next, vars, MR_Emit, MapReturns, Sort, CallReducer, get_func,
         ReducerReturns, MR_RunReturns, jobVars, listVars, mapVars, reduceVars
<1> QED
  BY <1>1, <1>2, Invariance, PTL DEF Spec, RInv

LEMMA LeftFinite ==
  ASSUME TypeOK
  PROVE  IsFiniteSet(Left) /\ Left \subseteq Slots(num_elements)
<1>1. kvl_counter \in Int /\ num_elements - 1 \in Int /\ kvl_counter >= 0
  BY SMT DEF TypeOK
<1> QED
  BY <1>1, FS_Interval, SMT DEF Left, Slots

LEMMA RefineInit == Init => Groups!Init
<1> SUFFICES ASSUME Init PROVE Groups!Init
  OBVIOUS
<1>1. ctl = "map" /\ key = NoKey /\ given = <<>> /\ num_elements = 0 /\ kvl_counter = 0
  BY DEF Init
<1>2. Left = {}
  BY <1>1, SMT DEF Left
<1>3. BagOf(elements, Left) = Groups!NoPairs
  BY <1>2 DEF BagOf, Groups!NoPairs
<1> QED
  BY <1>1, <1>3 DEF Groups!Init, Groups!NoGroup, NoKey

LEMMA RefineEmit == ASSUME RInv, MR_Emit PROVE Groups!Emit
<1> DEFINE pair == files[i][emitted + 1]
<1>1. /\ ctl = "map" /\ ctl' = "map"
      /\ UNCHANGED <<kvl_counter, key, given>>
      /\ num_elements' = num_elements + 1 /\ kvl_counter = 0
      /\ i <= Len(files) /\ emitted < Len(files[i])
  BY DEF RInv, SourceOK, MR_Emit, add_to_list, reduceVars
<1>2. pair \in Emitted
  <2>1. PICK job \in Jobs : files = job.files
    BY DEF RInv, SourceOK
  <2>2. files \in Seq(Seq(PairSet)) /\ i \in 1 .. Len(files)
    BY <1>1 DEF RInv, IInv, JobOK, TypeOK
  <2>3. files[i] \in Range(job.files) /\ files[i] \in Seq(PairSet)
    BY <2>1, <2>2 DEF Range
  <2>4. emitted + 1 \in 1 .. Len(files[i])
    BY <1>1, <2>3 DEF RInv, IInv, TypeOK
  <2>5. pair \in Range(files[i])
    BY <2>3, <2>4 DEF Range
  <2> QED
    BY <2>3, <2>5 DEF Emitted
<1>3. /\ num_elements \in Nat /\ num_elements \notin Left
      /\ Left' = Left \cup {num_elements}
  BY <1>1, SMT DEF RInv, IInv, TypeOK, Left
<1>4. elements'[num_elements] = pair /\ \A j \in Left : elements'[j] = elements[j]
  <2>1. PICK slots :
          /\ slots = IF Full THEN Realloc(2 * size) ELSE elements
          /\ elements' = [j \in DOMAIN slots \cup {num_elements} |->
                            IF j = num_elements THEN pair ELSE slots[j]]
    BY DEF MR_Emit, add_to_list
  <2>2. \A j \in Left : j \in DOMAIN slots /\ slots[j] = elements[j] /\ j # num_elements
    <3>1. /\ size \in Nat /\ num_elements \in 0 .. size /\ kvl_counter \in Nat
          /\ DOMAIN elements = Slots(size)
      BY DEF RInv, IInv, TypeOK
    <3>2. \A j \in Left : /\ j \in Slots(size) /\ j \in Slots(2 * size)
                          /\ j < size /\ j # num_elements
      BY <3>1, SMT DEF Left, Slots
    <3>3. CASE Full
      BY <2>1, <3>2, <3>3 DEF Realloc
    <3>4. CASE ~ Full
      BY <2>1, <3>1, <3>2, <3>4
    <3> QED
      BY <3>3, <3>4
  <2> QED
    BY <2>1, <2>2
<1> HIDE DEF pair
<1>5. IsFiniteSet(Left)
  BY LeftFinite DEF RInv, IInv
<1>6. BagOf(elements', Left') = Groups!BagAdd(BagOf(elements, Left), pair)
  BY <1>3, <1>4, <1>5, StoreAdds
<1> QED
  BY <1>1, <1>2, <1>6 DEF Groups!Emit

LEMMA RefineSort == ASSUME RInv, Sort PROVE Groups!Shuffle
<1> DEFINE used == Slots(num_elements)
<1>1. /\ ctl = "map" /\ ctl' = "reduce" /\ kvl_counter' = 0 /\ kvl_counter = 0
      /\ UNCHANGED <<num_elements, key, given>>
  BY DEF Sort, RInv, SourceOK
<1>2. Left = used /\ Left' = used
  BY <1>1 DEF Left, Slots
<1>3. PICK f \in [used -> used] :
        /\ \A j, k \in used : f[j] = f[k] => j = k
        /\ elements' = [j \in DOMAIN elements |->
                          IF j \in used THEN elements[f[j]] ELSE elements[j]]
  BY DEF Sort, Sorted
<1>4. used \subseteq DOMAIN elements
  BY SMT DEF RInv, IInv, TypeOK, Slots
<1>5. \A j \in used : elements'[j] = elements[f[j]]
  BY <1>3, <1>4
<1>6. IsFiniteSet(used)
  BY <1>2, LeftFinite DEF RInv, IInv
<1> HIDE DEF used
<1>7. BagOf(elements', used) = BagOf(elements, used)
  BY <1>3, <1>5, <1>6, PermutationKeeps
<1> QED
  BY <1>1, <1>2, <1>7 DEF Groups!Shuffle

LEMMA RefineCall == ASSUME RInv, CallReducer PROVE Groups!Begin
<1>1. /\ ctl = "reduce" /\ ctl' = "fresh" /\ kvl_counter < num_elements
      /\ key' = elements[kvl_counter].key
      /\ UNCHANGED <<elements, num_elements, kvl_counter, given>>
  BY DEF CallReducer, KeyToReduce, listVars
<1>2. key = NoKey
  BY <1>1 DEF RInv, IInv, KeyOK
<1>3. /\ kvl_counter \in Left /\ kvl_counter \in Slots(num_elements)
      /\ \A j \in Left : j \in Slots(num_elements) /\ (j = kvl_counter \/ kvl_counter < j)
  BY <1>1, SMT DEF RInv, IInv, TypeOK, Left, Slots
<1>4. \A j \in Left : elements[kvl_counter].key <= elements[j].key
  <2>1. elements[kvl_counter].key \in Nat
    BY <1>3 DEF RInv, IInv, TypeOK, PairSet
  <2>2. \A j \in Left : kvl_counter < j => elements[kvl_counter].key <= elements[j].key
    BY <1>1, <1>3 DEF RInv, IInv, ListSorted
  <2> QED
    BY <1>3, <2>1, <2>2
<1>5. Groups!Keys(BagOf(elements, Left)) = {elements[j].key : j \in Left}
  <2>1. DOMAIN BagOf(elements, Left) = {elements[j] : j \in Left}
    BY BagOfDomain
  <2> QED
    BY <2>1 DEF Groups!Keys
<1>6. BagOf(elements, Left)' = BagOf(elements, Left)
  BY <1>1 DEF Left, BagOf
<1> QED
  BY <1>1, <1>2, <1>3, <1>4, <1>5, <1>6 DEF Groups!Begin, Groups!NoGroup, NoKey

LEMMA RefineGet == ASSUME RInv, get_func PROVE Groups!Give
<1>1. /\ ctl \in {"fresh", "reading"} /\ ctl' = "reading"
      /\ kvl_counter < num_elements /\ elements[kvl_counter].key = key
      /\ given' = Append(given, [key |-> key, value |-> elements[kvl_counter].value])
      /\ kvl_counter' = kvl_counter + 1
      /\ UNCHANGED <<elements, num_elements, key>>
  BY DEF get_func, Matches, listVars
<1>2. key # NoKey
  BY <1>1 DEF RInv, IInv, KeyOK
<1>3. /\ kvl_counter \in Left /\ Left' = Left \ {kvl_counter}
      /\ kvl_counter \in Slots(num_elements)
  BY <1>1, SMT DEF RInv, IInv, TypeOK, Left, Slots
<1>4. [key |-> key, value |-> elements[kvl_counter].value] = elements[kvl_counter]
  BY <1>1, <1>3 DEF RInv, IInv, TypeOK, PairSet
<1>5. IsFiniteSet(Left)
  BY LeftFinite DEF RInv, IInv
<1>6. BagOf(elements, Left') = Groups!BagRemove(BagOf(elements, Left), elements[kvl_counter])
  BY <1>3, <1>5, StepRemoves
<1>7. elements[kvl_counter] \in DOMAIN BagOf(elements, Left)
  BY <1>3, BagOfDomain
<1> QED
  BY <1>1, <1>2, <1>4, <1>6, <1>7 DEF Groups!Give, Groups!NoGroup, NoKey

LEMMA RefineReturn == ASSUME RInv, ReducerReturns PROVE Groups!End
<1>1. /\ ctl \in {"fresh", "reading"} /\ ctl' = "reduce" /\ key' = NoKey
      /\ UNCHANGED <<elements, num_elements, kvl_counter, given>>
  BY DEF ReducerReturns, listVars
<1>2. key # NoKey
  BY <1>1 DEF RInv, IInv, KeyOK
<1>3. BagOf(elements, Left)' = BagOf(elements, Left)
  BY <1>1 DEF Left, BagOf
<1> QED
  BY <1>1, <1>2, <1>3 DEF Groups!End, Groups!NoGroup, NoKey

\* The remaining steps are invisible.
LEMMA RefineStutter ==
  ASSUME MapReturns \/ MR_RunReturns \/ UNCHANGED vars
  PROVE  UNCHANGED Groups!groupingVars
<1>1. /\ UNCHANGED <<elements, num_elements, kvl_counter, key, given>>
      /\ (ctl # "map")' = (ctl # "map")
  BY DEF MapReturns, MR_RunReturns, vars, listVars, reduceVars
<1>2. BagOf(elements, Left)' = BagOf(elements, Left)
  BY <1>1 DEF Left, BagOf
<1> QED
  BY <1>1, <1>2 DEF Groups!groupingVars

LEMMA RefineStep == RInv /\ [Next]_vars => [Groups!Next]_Groups!groupingVars
<1> SUFFICES ASSUME RInv, [Next]_vars PROVE [Groups!Next]_Groups!groupingVars
  OBVIOUS
<1>1. CASE MR_Emit
  BY <1>1, RefineEmit DEF Groups!Next
<1>2. CASE Sort
  BY <1>2, RefineSort DEF Groups!Next
<1>3. CASE CallReducer
  BY <1>3, RefineCall DEF Groups!Next
<1>4. CASE get_func
  BY <1>4, RefineGet DEF Groups!Next
<1>5. CASE ReducerReturns
  BY <1>5, RefineReturn DEF Groups!Next
<1>6. CASE MapReturns \/ MR_RunReturns \/ UNCHANGED vars
  BY <1>6, RefineStutter
<1> QED
  BY <1>1, <1>2, <1>3, <1>4, <1>5, <1>6 DEF Next

\* Every pair the mappers emit goes to a reducer of its key, once, least key
\* first, whatever the reducers leave, for every job, order of equal keys and
\* initial size of the list.
THEOREM Refinement == Spec => ImplementsGrouping
  BY SourceKept, RefineInit, RefineStep, PTL DEF Spec, ImplementsGrouping, Groups!Spec
-----------------------------------------------------------------------------
(***************************************************************************)
(* Why MR_Run returns: the mappers come to the end of their files, and a   *)
(* reducer that takes a value at each call to the end of the list.         *)
(***************************************************************************)
\* get_func has a value for a reducer that has just been called.
FreshOK == ctl = "fresh" => Matches

EmittedOK == i <= Len(files) => emitted <= Len(files[i])

\* The files and the pairs still to be mapped, and the steps of the reduce loop: for
\* each pair left a call of the reducer, of get_func and a return.
FilesLeft == Len(files) + 1 - i
PairsLeft == IF i <= Len(files) THEN Len(files[i]) - emitted ELSE 0
LoopLeft == 3 * (num_elements - kvl_counter)
              + (IF ctl = "reading" THEN 2 ELSE IF ctl = "reduce" THEN 1 ELSE 0)

ProgressInv ==
  /\ IInv /\ FreshOK /\ EmittedOK
  /\ FilesLeft \in Nat /\ PairsLeft \in Nat /\ LoopLeft \in Nat

\* Less is left: of the files; of the pairs of a file; of the reduce loop.
LessLeft ==
  IF ctl = "map"
  THEN \/ ctl' # "map"
       \/ FilesLeft' < FilesLeft
       \/ FilesLeft' = FilesLeft /\ PairsLeft' < PairsLeft
  ELSE ctl' # "map" /\ LoopLeft' < LoopLeft

LEMMA LeftIsNat ==
  IInv /\ EmittedOK => FilesLeft \in Nat /\ PairsLeft \in Nat /\ LoopLeft \in Nat
<1> SUFFICES ASSUME IInv, EmittedOK
             PROVE  FilesLeft \in Nat /\ PairsLeft \in Nat /\ LoopLeft \in Nat
  OBVIOUS
<1>1. /\ Len(files) \in Nat /\ i \in 1 .. Len(files) + 1 /\ emitted \in Nat
      /\ i <= Len(files) => Len(files[i]) \in Nat
  BY DEF IInv, JobOK, TypeOK
<1>2. FilesLeft \in Nat
  BY <1>1, SMT DEF FilesLeft
<1>3. PairsLeft \in Nat
  BY <1>1, SMT DEF PairsLeft, EmittedOK
<1>4. LoopLeft \in Nat
  BY SMT DEF LoopLeft, IInv, TypeOK
<1> QED
  BY <1>2, <1>3, <1>4

LEMMA ProgressStep == ProgressInv /\ [Next]_vars => FreshOK' /\ EmittedOK'
<1> SUFFICES ASSUME ProgressInv, [Next]_vars PROVE FreshOK' /\ EmittedOK'
  OBVIOUS
<1>1. /\ Len(files) \in Nat /\ i \in 1 .. Len(files) + 1 /\ emitted \in Nat
      /\ \A n \in 1 .. Len(files) : Len(files[n]) \in Nat
  BY DEF ProgressInv, IInv, JobOK, TypeOK
<1>2. UNCHANGED files
  BY DEF Next, MR_Emit, MapReturns, Sort, CallReducer, get_func, ReducerReturns,
         MR_RunReturns, jobVars, vars
<1>3. EmittedOK'
  <2>1. CASE MR_Emit
    <3>1. i' = i /\ emitted' = emitted + 1 /\ emitted < Len(files[i]) /\ i <= Len(files)
      BY <2>1 DEF MR_Emit
    <3>2. Len(files[i]) \in Nat
      BY <1>1, <3>1
    <3> QED
      BY <1>1, <1>2, <3>1, <3>2, SMT DEF EmittedOK
  <2>2. CASE MapReturns
    <3>1. emitted' = 0 /\ i' \in Nat \ {0}
      BY <1>1, <2>2, SMT DEF MapReturns
    <3> QED
      BY <1>1, <1>2, <3>1, SMT DEF EmittedOK
  <2>3. CASE ~ (MR_Emit \/ MapReturns)
    <3>1. UNCHANGED <<i, emitted>>
      BY <2>3 DEF Next, Sort, CallReducer, get_func, ReducerReturns, MR_RunReturns,
                  mapVars, vars
    <3> QED
      BY <1>2, <3>1 DEF EmittedOK, ProgressInv
  <2> QED
    BY <2>1, <2>2, <2>3
<1>4. FreshOK'
  <2>1. CASE CallReducer
    BY <2>1 DEF CallReducer, KeyToReduce, FreshOK, Matches, listVars
  <2>2. CASE UNCHANGED vars
    BY <2>2 DEF vars, FreshOK, Matches, ProgressInv
  <2>3. CASE Next /\ ~ CallReducer
    BY <2>3 DEF Next, MR_Emit, MapReturns, Sort, get_func, ReducerReturns, MR_RunReturns,
                FreshOK
  <2> QED
    BY <2>1, <2>2, <2>3
<1> QED
  BY <1>3, <1>4

LEMMA LessIsLeft == ProgressInv /\ Next /\ reducer # "none" => LessLeft
<1> SUFFICES ASSUME ProgressInv, Next, reducer # "none" PROVE LessLeft
  OBVIOUS
<1>1. /\ Len(files) \in Nat /\ i \in Nat /\ emitted \in Nat
      /\ i <= Len(files) => Len(files[i]) \in Nat
      /\ num_elements \in Nat /\ kvl_counter \in Nat
  BY SMT DEF ProgressInv, IInv, JobOK, TypeOK
<1>2. CASE MR_Emit
  <2>1. /\ i' = i /\ emitted' = emitted + 1 /\ i <= Len(files)
        /\ files' = files /\ ctl = "map"
    BY <1>2 DEF MR_Emit, jobVars
  <2>2. FilesLeft' = FilesLeft
    BY <2>1 DEF FilesLeft
  <2>3. PairsLeft' < PairsLeft
    BY <1>1, <2>1, SMT DEF PairsLeft
  <2> QED
    BY <2>1, <2>2, <2>3 DEF LessLeft
<1>3. CASE MapReturns
  <2>1. i' = i + 1 /\ files' = files /\ ctl = "map"
    BY <1>3 DEF MapReturns, jobVars
  <2>2. FilesLeft' < FilesLeft
    BY <1>1, <2>1, SMT DEF FilesLeft
  <2> QED
    BY <2>1, <2>2 DEF LessLeft
<1>4. CASE Sort
  BY <1>4 DEF Sort, LessLeft
<1>5. CASE CallReducer
  BY <1>1, <1>5, SMT DEF CallReducer, listVars, LessLeft, LoopLeft
<1>6. CASE get_func
  BY <1>1, <1>6, SMT DEF get_func, listVars, LessLeft, LoopLeft
<1>7. CASE ReducerReturns
  <2>1. ctl = "reading" /\ ctl' = "reduce" /\ UNCHANGED <<num_elements, kvl_counter>>
    BY <1>7 DEF ReducerReturns, listVars, ProgressInv, FreshOK
  <2> QED
    BY <1>1, <2>1, SMT DEF LessLeft, LoopLeft
<1>8. CASE MR_RunReturns
  BY <1>1, <1>8, SMT DEF MR_RunReturns, listVars, reduceVars, LessLeft, LoopLeft
<1> QED
  BY <1>2, <1>3, <1>4, <1>5, <1>6, <1>7, <1>8 DEF Next

\* MR_Run comes to an end if no reducer returns without a value: each step brings
\* the mappers or the reduce loop nearer to it, as natural numbers that say how much
\* is left, and get_func never disappoints a reducer at its first call.
THEOREM RunShrinks ==
  Spec => []ProgressInv /\ [][reducer # "none" => LessLeft]_vars
<1>1. Init => EmittedOK /\ FreshOK
  BY JobAssumption, SMT DEF Init, EmittedOK, FreshOK
<1>2. Init => ProgressInv
  BY <1>1, Initially, LeftIsNat DEF ProgressInv
<1>3. ProgressInv /\ [Next]_vars => ProgressInv'
  <2>1. ProgressInv /\ [Next]_vars => IInv' /\ FreshOK' /\ EmittedOK'
    BY StepKeeps, ProgressStep DEF ProgressInv
  <2>2. IInv' /\ EmittedOK' => (FilesLeft \in Nat /\ PairsLeft \in Nat /\ LoopLeft \in Nat)'
    BY LeftIsNat, PTL
  <2> QED
    BY <2>1, <2>2 DEF ProgressInv
<1>4. ProgressInv /\ [Next]_vars => [reducer # "none" => LessLeft]_vars
  BY LessIsLeft
<1>5. Spec => []ProgressInv
  BY <1>2, <1>3, PTL DEF Spec
<1>6. Spec => [][reducer # "none" => LessLeft]_vars
  BY <1>4, <1>5, PTL DEF Spec
<1> QED
  BY <1>5, <1>6
=============================================================================
