----------------------------- MODULE NumberSets -----------------------------
(* A finite set of numbers read in ascending order: the places of a list or  *)
(* of a ring that a condition selects, without a recursion over the list.    *)
EXTENDS Naturals, FiniteSets

(* The elements of K below j; their number is the place of j in K, from 0.   *)
BelowIn(K, j) == {i \in K : i < j}

InOrder(K) ==
  [k \in 1 .. Cardinality(K) |->
     CHOOSE j \in K : Cardinality(BelowIn(K, j)) = k - 1]
=============================================================================
