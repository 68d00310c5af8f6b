--------------------------------- MODULE Lists ---------------------------------
(***************************************************************************)
(* The items of a list that a condition on their places keeps, in their    *)
(* order: what filter() returns.                                           *)
(***************************************************************************)
EXTENDS Naturals, Sequences, FiniteSets

\* How many places of I come no later than i; and the place of I that has k.
Rank(I, i) == Cardinality({j \in I : j <= i})
Nth(I, k)  == CHOOSE i \in I : Rank(I, i) = k

Select(list, I) == [k \in 1..Cardinality(I) |-> list[Nth(I, k)]]
=============================================================================
