SPECIFICATION Spec
CONSTANTS
  r1 = r1
  r2 = r2
  r3 = r3
  u1 = u1
  u2 = u2
  a1 = a1
  a2 = a2
  None = None
  Requests = {r1, r2, r3}
  UserOf <- MCUserOf
  Users = {u1, u2}
  Accounts = {a1, a2}
  RequestId <- OwnId
  MaxUser = 2
  MaxAccount = 1
  QueueLockEnabled = TRUE
  MaxAttempts = 1
  MaxSwitches = 1
  LeaseMayLapse = TRUE
  MayOutliveCleanup = FALSE
SYMMETRY AccountSymmetry
INVARIANTS NothingHeldWhenIdle
