--------------------------- MODULE MCReplication ---------------------------
(***************************************************************************)
(* Instances of Replication for TLC: replicas are interchangeable.         *)
(***************************************************************************)
EXTENDS Replication, TLC

Symmetry == Permutations(Replica)
=============================================================================
