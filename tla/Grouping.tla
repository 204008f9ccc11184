------------------------------ MODULE Grouping ------------------------------
(***************************************************************************)
(* What week-9/sequentual_mapreduce.c promises, without a list, a sort or  *)
(* a position: the pairs the mapper emits are a bag; then, group by group, *)
(* the reducer is given the values of the least key left, each of them     *)
(* once.  A reducer may leave its group before the end; what it has not    *)
(* taken stays in the bag.                                                 *)
(***************************************************************************)
EXTENDS Integers, BagsExt, Sequences

CONSTANT Pairs      \* the pairs [key, value] a mapper may emit

VARIABLES
  pending,    \* bag of the pairs emitted and not yet reduced
  reducing,   \* the map stage is over
  group,      \* the key of the running reducer, or NoGroup
  given       \* the pairs reduced, in their order

groupingVars == <<pending, reducing, group, given>>

NoGroup == -1        \* keys are natural numbers

\* A bag is a function from the pairs in it to how often they are in it.
NoPairs == [pair \in {} |-> 0]

Keys(bag) == {pair.key : pair \in DOMAIN bag}

Init ==
  /\ pending = NoPairs
  /\ reducing = FALSE
  /\ group = NoGroup
  /\ given = <<>>

Emit ==
  /\ ~ reducing
  /\ \E pair \in Pairs : pending' = BagAdd(pending, pair)
  /\ UNCHANGED <<reducing, group, given>>

Shuffle ==
  /\ ~ reducing
  /\ reducing' = TRUE
  /\ UNCHANGED <<pending, group, given>>

Begin ==
  /\ reducing /\ group = NoGroup
  /\ \E key \in Keys(pending) :
       /\ \A other \in Keys(pending) : key <= other
       /\ group' = key
  /\ UNCHANGED <<pending, reducing, given>>

Give ==
  /\ group # NoGroup
  /\ \E pair \in DOMAIN pending :
       /\ pair.key = group
       /\ pending' = BagRemove(pending, pair)
       /\ given' = Append(given, pair)
  /\ UNCHANGED <<reducing, group>>

End ==
  /\ group # NoGroup
  /\ group' = NoGroup
  /\ UNCHANGED <<pending, reducing, given>>

Next == Emit \/ Shuffle \/ Begin \/ Give \/ End

Spec == Init /\ [][Next]_groupingVars
=============================================================================
