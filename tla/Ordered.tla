------------------------------- MODULE Ordered -------------------------------
(* The loops of the code over entries 1 to n that take some of them, as one  *)
(* expression: the entries taken, in the order the loop comes by them.       *)
EXTENDS Naturals, FiniteSets

\* The numbers of a finite set S in ascending order.
InOrder(S) ==
  [k \in 1 .. Cardinality(S) |->
     CHOOSE i \in S : Cardinality({j \in S : j < i}) = k - 1]
=============================================================================
