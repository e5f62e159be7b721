SPECIFICATION Spec
CONSTANTS
  t1 = t1
  t2 = t2
  c1 = c1
  c2 = c2
  Anonymous = Anonymous
  Hash <- MCHash
  Tokens = {t1, t2}
  NumWorkers = 3
  MaxAttempts = 1
  Conns = {c1, c2}
  MaxCrashes = 1
  MaxRestartCalls = 0
  MaxAsks = 0
  MaxShutdowns = 0
PROPERTIES StickyUntilWorkerExits
CHECK_DEADLOCK FALSE
