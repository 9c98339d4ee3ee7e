------------------------------ MODULE MCPortal ------------------------------
(* Instances of Portal for TLC. *)
EXTENDS Portal, TLC

Symmetry == Permutations(Tenants)
=============================================================================
