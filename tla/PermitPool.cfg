SPECIFICATION PoolSpec
CONSTANTS
  Calls = {c1, c2, c3, c4, c5}
  Tenants = {t1, t2}
  NoPrincipal = None
  Unattributed = unattributed
  Free = free
  Capacity = 3
  PerPrincipal = 2
INVARIANTS Accounting CrowdedOut
PROPERTY LimiterSpec
