------------------------------- MODULE Ordered -------------------------------
(* What a sort leaves, ties being part of the order: a stable sort keeps the *)
(* order of equal keys.  The element at i has i - 1 elements before it.      *)
EXTENDS Integers, FiniteSets

(* The elements of S as a sequence; `before` holds the pairs of S whose      *)
(* first comes before their second.                                          *)
InOrder(S, before) ==
  [i \in 1..Cardinality(S) |->
     CHOOSE x \in S : Cardinality({y \in S : <<y, x>> \in before}) = i - 1]
=============================================================================
