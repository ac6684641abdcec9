--------------------------- MODULE MCPropagation ---------------------------
(* Small instances of Propagation for TLC. *)
EXTENDS Propagation, TLC

MCTtl == {-1, 2}
MCAt == {-1, 3}
Symmetry == Permutations(Value)
=============================================================================
