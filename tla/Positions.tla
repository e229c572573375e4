------------------------------ MODULE Positions ------------------------------
(***************************************************************************)
(* What a loop picks from a list and keeps in its order, named by the       *)
(* positions it picks.                                                     *)
(***************************************************************************)
EXTENDS Integers, FiniteSets

\* The members of a set of positions, in order.
InOrder(S) ==
  [k \in 1 .. Cardinality(S) |-> CHOOSE i \in S : Cardinality({j \in S : j <= i}) = k]

\* The elements of a list at these positions, in order.
Chosen(list, S) == [k \in DOMAIN InOrder(S) |-> list[InOrder(S)[k]]]
=============================================================================
