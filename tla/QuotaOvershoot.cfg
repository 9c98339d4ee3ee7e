CONSTANTS
  r1 = r1 r2 = r2 r3 = r3
  acme = acme zeta = zeta
  Requests = {r1, r2, r3}
  Tenants = {acme, zeta}
  TenantOf <- MCTenantOf
  LimitOf <- MCLimitOf
  NoLimit = NoLimit
  Rows = {w1, w2, w3}
  NoRow = NoRow
  NoPromise = NoPromise
  Window = 3
  Retention = 3
  Oldest = 4
SYMMETRY Symmetry
SPECIFICATION Spec
INVARIANT NeverOverQuota
