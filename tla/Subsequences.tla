---------------------------- MODULE Subsequences ---------------------------
(***************************************************************************)
(* The parts of a list that are picked by their places, in their order.    *)
(* They are SelectSeq and SetToSortSeq said by what they are, so that      *)
(* theorems can be about them.                                             *)
(***************************************************************************)
EXTENDS Naturals, Sequences, FiniteSets

\* The numbers in the set, from the smallest on.
Ascending(numbers) ==
  [k \in 1 .. Cardinality(numbers) |->
     CHOOSE n \in numbers : Cardinality({m \in numbers : m <= n}) = k]

\* The elements of the list at the places, in the order of the list.
TakeAt(list, places) ==
  LET p == Ascending(places) IN [k \in DOMAIN p |-> list[p[k]]]
=============================================================================
