--------------------------- MODULE MCCaseService ---------------------------
(* Instances of CaseService for TLC. *)
EXTENDS CaseService, TLC

Symmetry == Permutations(Requests)
=============================================================================
