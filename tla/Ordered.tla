------------------------------ MODULE Ordered ------------------------------
(***************************************************************************)
(* A set of numbers as the sequence of its elements in increasing order.   *)
(***************************************************************************)
EXTENDS Integers, FiniteSets

\* The i-th element is the one with i - 1 elements below it.
InOrder(S) ==
  [i \in 1 .. Cardinality(S) |-> CHOOSE x \in S : Cardinality({y \in S : y < x}) = i - 1]
=============================================================================
