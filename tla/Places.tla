------------------------------- MODULE Places -------------------------------
(* Places in a list, taken in the list's order. *)
EXTENDS Naturals, FiniteSets

\* As many places of P as there are before place i.
Before(P, i) == Cardinality({j \in P : j < i})

\* A loop over a list that takes the places of P comes to them in this order.
InOrder(P) == [n \in 1..Cardinality(P) |-> CHOOSE i \in P : Before(P, i) = n - 1]
=============================================================================
