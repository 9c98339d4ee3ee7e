-------------------------- MODULE MCLookupDispatch --------------------------
(* Instances of LookupDispatch for TLC. *)
EXTENDS LookupDispatch, TLC

CONSTANTS r1, r2, r3, b1, b2, b3, g1, g2

\* b1 and b2 share a group, b3 has none.
MCGroupOf == b1 :> g1 @@ b2 :> g1 @@ b3 :> NoGroup
MCGroupOf2 == b1 :> g1 @@ b2 :> g2

\* Requests are alike, and so are the two browsers of one group.
Symmetry == Permutations(Requests) \cup Permutations({b1, b2})
=============================================================================
