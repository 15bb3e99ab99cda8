------------------------------ MODULE Ordering ------------------------------
(***************************************************************************)
(* Finite sets put in order, as sort and slices.Compact of Go leave them,  *)
(* by counting: what is in the nth place has n elements up to it.          *)
(***************************************************************************)
EXTENDS Integers, FiniteSets

InOrder(S, UpTo(_, _)) ==
  [n \in 1..Cardinality(S) |-> CHOOSE x \in S : Cardinality({y \in S : UpTo(y, x)}) = n]

Ascending(S) == InOrder(S, LAMBDA a, b : a <= b)

(* What a sequence has at some of its indices, in their order.             *)
Picked(seq, indices) ==
  LET order == Ascending(indices) IN [n \in DOMAIN order |-> seq[order[n]]]
=============================================================================
