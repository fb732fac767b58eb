SPECIFICATION FairSpec
CONSTANTS
  Ids = {q1, q2}
  Submissions = {q1}
  Calls = {c1, c2}
  Tenants = {t1}
  Handles <- MCHandles
  TenantOf <- MCOneTenant
  None = None
  TTL = 1
  SyncPermits = 1
  AsyncPermits = 2
  WaitPermits = 2
  PermitShare = 2
  Window = 1
  MaxTime = 1
INVARIANTS TypeOK OnlyFinishedResults ForgottenHasStopped
PROPERTIES ServedWithinTTL ResultSticks EveryCallReplies
