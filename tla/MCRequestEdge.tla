--------------------------- MODULE MCRequestEdge ---------------------------
(* A small instance of RequestEdge for TLC. *)
EXTENDS RequestEdge, TLC

TwoPerWindow == [k \in Keys |-> 2]

Symmetry == Permutations(Requests) \union Permutations(Keys)
=============================================================================
