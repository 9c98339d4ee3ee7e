---------------------------- MODULE MCUsageQuota ----------------------------
(* Instances of UsageQuota for TLC. *)
EXTENDS UsageQuota, TLC

CONSTANTS r1, r2, r3, acme, zeta

\* Two callers of a tenant with a quota, and one of a tenant without.
MCTenantOf == r1 :> acme @@ r2 :> acme @@ r3 :> zeta
MCLimitOf == acme :> 1 @@ zeta :> NoLimit

Symmetry == Permutations(Rows) \cup Permutations({r1, r2})
=============================================================================
