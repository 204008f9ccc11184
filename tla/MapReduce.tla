------------------------------ MODULE MapReduce -----------------------------
(***************************************************************************)
(* week-9/sequentual_mapreduce.c: the growing list of key/value pairs, its *)
(* sort, and the loop that calls the user's reducer.                       *)
(*                                                                         *)
(* The user's mapper and reducer are not in the repository.  The mapper    *)
(* emits the pairs of its file; the reducer asks for the values of its own *)
(* key: "all" of them, "some" (at least one), or possibly "none".  Strings *)
(* are numbers, which strcmp compares.  An allocation that fails is not    *)
(* modelled (the code checks malloc of a pair, and not realloc).           *)
(***************************************************************************)
EXTENDS Integers, Sequences, FiniteSets, Functions

CONSTANTS
  Jobs,       \* [files, reducer]: for each file the pairs the mapper emits
  InitSize    \* the slots of the list at first (10 in MR_Run)

Reducers == {"all", "some", "none"}
PairSet == [key : Nat, value : Nat]

ASSUME JobAssumption ==
  /\ \A job \in Jobs : job.files \in Seq(Seq(PairSet)) /\ job.reducer \in Reducers
  /\ InitSize \in Nat \ {0}

VARIABLES
  files, reducer,                  \* the job
  elements, num_elements, size,    \* the list kvl
  kvl_counter,                     \* the pair the reducers have come to
  i, emitted,                      \* the file being mapped, its pairs emitted
  ctl,
  key,                             \* the key of the running reducer
  called,                          \* history: the keys a reducer was called for
  given                            \* history: the pairs given to reducers

vars == <<files, reducer, elements, num_elements, size, kvl_counter, i, emitted,
          ctl, key, called, given>>
jobVars == <<files, reducer>>
listVars == <<elements, num_elements, size>>
mapVars == <<i, emitted>>
reduceVars == <<kvl_counter, key, called, given>>

Garbage == [key |-> -1, value |-> -1]   \* a slot not written yet
NoKey == -1

\* The indices of an array of n slots.
Slots(n) == 0 .. n - 1

\* init_kv_list
Init ==
  \E job \in Jobs :
    /\ files = job.files
    /\ reducer = job.reducer
    /\ elements = [j \in Slots(InitSize) |-> Garbage]
    /\ num_elements = 0
    /\ size = InitSize
    /\ kvl_counter = 0
    /\ i = 1
    /\ emitted = 0
    /\ ctl = "map"
    /\ key = NoKey
    /\ called = {}
    /\ given = <<>>

-----------------------------------------------------------------------------
\* realloc keeps the old slots and adds unwritten ones.
Realloc(n) == [j \in Slots(n) |-> IF j < size THEN elements[j] ELSE Garbage]

\* Mutant of Full: the list grows one pair too late.
FullLate == num_elements > size

Full == num_elements = size

\* A store beyond the list writes into memory that belongs to others.
add_to_list(pair) ==
  LET slots == IF Full THEN Realloc(2 * size) ELSE elements
  IN /\ size' = IF Full THEN 2 * size ELSE size
     /\ elements' = [j \in DOMAIN slots \cup {num_elements} |->
                       IF j = num_elements THEN pair ELSE slots[j]]
     /\ num_elements' = num_elements + 1

\* MR_Emit, called by the mapper for each pair of its file.
MR_Emit ==
  /\ ctl = "map" /\ i <= Len(files) /\ emitted < Len(files[i])
  /\ add_to_list(files[i][emitted + 1])
  /\ emitted' = emitted + 1
  /\ UNCHANGED <<jobVars, reduceVars, i, ctl>>

\* The mapper returns, and the loop goes on to the next file.
MapReturns ==
  /\ ctl = "map" /\ i <= Len(files) /\ emitted = Len(files[i])
  /\ i' = i + 1
  /\ emitted' = 0
  /\ UNCHANGED <<jobVars, listVars, reduceVars, ctl>>

\* Mutant of InOrder: equal keys need not be next to each other.
InOrderByValue(p, q) == p.value <= q.value

\* cmp
InOrder(p, q) == p.key <= q.key

\* qsort may leave equal keys in any order.
Sorted ==
  LET used == Slots(num_elements)
      slots == {f \in [used -> used] : \A j, k \in used : f[j] = f[k] => j = k}
  IN {[j \in DOMAIN elements |-> IF j \in used THEN elements[f[j]] ELSE elements[j]] :
        f \in {f \in slots : \A j, k \in used :
                 j < k => InOrder(elements[f[j]], elements[f[k]])}}

Sort ==
  /\ ctl = "map" /\ i > Len(files)
  /\ elements' \in Sorted
  /\ kvl_counter' = 0
  /\ ctl' = "reduce"
  /\ UNCHANGED <<jobVars, num_elements, size, mapVars, key, called, given>>

-----------------------------------------------------------------------------
\* Mutant of KeyToReduce: always the first key.
KeyToReduceFirst == elements[0].key

KeyToReduce == elements[kvl_counter].key

\* while (kvl_counter < kvl.num_elements)
CallReducer ==
  /\ ctl = "reduce" /\ kvl_counter < num_elements
  /\ key' = KeyToReduce
  /\ called' = called \cup {key'}
  /\ ctl' = "fresh"
  /\ UNCHANGED <<jobVars, listVars, mapVars, kvl_counter, given>>

\* Mutant of Matches: any value will do.
MatchesAny == kvl_counter < num_elements

\* get_func has a value: the list is not at its end, and has the reducer's key.
Matches == kvl_counter < num_elements /\ elements[kvl_counter].key = key

\* The reducer gets a value.
get_func ==
  /\ ctl \in {"fresh", "reading"}
  /\ Matches
  /\ given' = Append(given, [key |-> key, value |-> elements[kvl_counter].value])
  /\ kvl_counter' = kvl_counter + 1
  /\ ctl' = "reading"
  /\ UNCHANGED <<jobVars, listVars, mapVars, key, called>>

\* The reducer returns: after NULL, or before if it does not want all values.
ReducerReturns ==
  /\ \/ ctl \in {"fresh", "reading"} /\ ~ Matches
     \/ ctl = "reading" /\ reducer \in {"some", "none"}
     \/ ctl = "fresh" /\ reducer = "none"
  /\ ctl' = "reduce"
  /\ key' = NoKey
  /\ UNCHANGED <<jobVars, listVars, mapVars, kvl_counter, called, given>>

MR_RunReturns ==
  /\ ctl = "reduce" /\ kvl_counter >= num_elements
  /\ ctl' = "done"
  /\ UNCHANGED <<jobVars, listVars, mapVars, reduceVars>>

Next ==
  MR_Emit \/ MapReturns \/ Sort \/ CallReducer \/ get_func \/ ReducerReturns
    \/ MR_RunReturns

Spec == Init /\ [][Next]_vars

\* One thread that runs on.
FairSpec == Spec /\ WF_vars(Next)
-----------------------------------------------------------------------------
\* The type of every variable: the slots of the list are as many as were
\* allocated, and those in use hold pairs.
TypeOK ==
  /\ size \in Nat \ {0} /\ num_elements \in 0 .. size
  /\ elements \in [Slots(size) -> PairSet \cup {Garbage}]
  /\ \A j \in Slots(num_elements) : elements[j] \in PairSet
  /\ kvl_counter \in 0 .. num_elements
  /\ i \in 1 .. Len(files) + 1 /\ emitted \in Nat
  /\ ctl \in {"map", "reduce", "fresh", "reading", "done"}
  /\ key \in Nat \cup {NoKey}
  /\ called \subseteq Nat /\ given \in Seq(PairSet)

\* The pairs of the list the reducers have not come to.
Left == kvl_counter .. num_elements - 1

\* The pairs in some slots of a list, as a bag.
BagOf(list, slots) ==
  [pair \in {list[j] : j \in slots} |-> Cardinality({j \in slots : list[j] = pair})]

\* The pairs the mappers emit.
Emitted == UNION {Range(f) : f \in UNION {Range(job.files) : job \in Jobs}}

\* MapReduce groups the emitted pairs by key: it gives each of them to a reducer
\* of its key, once, least key first.
Groups == INSTANCE Grouping WITH
  Pairs    <- Emitted,
  pending  <- BagOf(elements, Left),
  reducing <- ctl # "map",
  group    <- key,
  given    <- given
ImplementsGrouping == Groups!Spec

\* A reducer that takes all values is called once for each key, in the order of
\* the keys.
KeyOnce ==
  [][reducer = "all" /\ key' \notin {key, NoKey} => \A k \in called : k < key']_vars

\* MR_Run returns, with nothing left, unless a reducer takes no value.
Finishes == reducer # "none" ~> ctl = "done" /\ Left = {}
=============================================================================
