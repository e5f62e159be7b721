SPECIFICATION Spec
CONSTANTS
  r1 = r1  r2 = r2
  a1 = a1  a2 = a2
  session = session
  Requests = {r1, r2}
  Accounts = {a1, a2}
  Keys = {session}
  KeyOf <- Session
  RetryKeyOf <- Session
  Own <- Shards
  Sticky = {a2}
  Strict = {a2}
  MayReset = TRUE
  MaxRetries = 1
  MaxOutages = 1
  None = None
INVARIANTS SelectionGoesOn
PROPERTIES RetryMovesOn
CHECK_DEADLOCK FALSE
