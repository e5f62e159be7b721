SPECIFICATION Spec
CONSTANTS
  r1 = r1
  r2 = r2
  r3 = r3
  u1 = u1
  u2 = u2
  a1 = a1
  a2 = a2
  None = None
  Requests = {r1, r2}
  UserOf <- MCUserOf2
  Users = {u1}
  Accounts = {a1, a2}
  RequestId <- SharedId
  MaxUser = 2
  MaxAccount = 2
  QueueLockEnabled = FALSE
  MaxAttempts = 1
  MaxSwitches = 0
  LeaseMayLapse = FALSE
  MayOutliveCleanup = FALSE
INVARIANTS SlotsFreeWhenIdle
