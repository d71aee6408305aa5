------------------------------- MODULE Places -------------------------------
(***************************************************************************)
(* What Array.filter and Array.sort return: the elements of a sequence at  *)
(* some of its places, in their order; and all of them in another order,   *)
(* which says of every two places which of them comes before.  SelectSeq   *)
(* and SortSeq say the same of a test on the elements; here the places and *)
(* the order are sets, and the n-th element is the one with n - 1 before   *)
(* it, which the proofs can count.                                         *)
(***************************************************************************)
EXTENDS Naturals, FiniteSets, Sequences

Rank(places, i) == Cardinality({j \in places : j < i})
Nth(places, n) == CHOOSE i \in places : Rank(places, i) = n - 1
Picked(s, places) == [n \in 1..Cardinality(places) |-> s[Nth(places, n)]]

PlaceUnder(before, places, i) == Cardinality({j \in places : <<j, i>> \in before}) + 1
AtPlace(before, places, n) == CHOOSE i \in places : PlaceUnder(before, places, i) = n
Ordered(s, before) == [n \in DOMAIN s |-> s[AtPlace(before, DOMAIN s, n)]]
Arranged(set, before) == [n \in 1..Cardinality(set) |-> AtPlace(before, set, n)]
\* those with a larger amount first, and of the same amount those with a smaller tie
LargerThan(amount, tie) ==
    {x \in (DOMAIN amount) \X (DOMAIN amount) :
        amount[x[1]] > amount[x[2]] \/ (amount[x[1]] = amount[x[2]] /\ tie[x[1]] < tie[x[2]])}
Descending(amount, tie) == Arranged(DOMAIN amount, LargerThan(amount, tie))
=============================================================================
