SPECIFICATION FairSpec
CONSTANTS
  r1 = r1
  r2 = r2
  r3 = r3
  u1 = u1
  u2 = u2
  a1 = a1
  a2 = a2
  None = None
  Requests = {r1, r2, r3}
  UserOf <- MCUserOf
  Users = {u1, u2}
  Accounts = {a1, a2}
  RequestId <- OwnId
  MaxUser = 2
  MaxAccount = 2
  QueueLockEnabled = TRUE
  MaxAttempts = 2
  MaxSwitches = 1
  LeaseMayLapse = FALSE
  MayOutliveCleanup = TRUE
INVARIANTS UpstreamSharedOnlyAfterSwitch
PROPERTIES EventuallyDrained ImplementsAccountLease
