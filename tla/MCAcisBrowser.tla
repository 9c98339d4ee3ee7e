--------------------------- MODULE MCAcisBrowser ---------------------------
(* Instances of AcisBrowser for TLC. *)
EXTENDS AcisBrowser, TLC

LookupSymmetry == Permutations(Lookups)
=============================================================================
