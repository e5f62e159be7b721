SPECIFICATION FairSpec
CONSTANTS
  p1 = p1
  p2 = p2
  i1 = i1
  i2 = i2
  i3 = i3
  c1 = c1
  c2 = c2
  c3 = c3
  c4 = c4
  Nobody = Nobody
  Orphan = Orphan
  Procs = {p1, p2}
  Instances = {i1, i2, i3}
  Callers = {c1, c2, c3, c4}
  ProcOf <- MCProcOf
  InstOf <- MCInstOf
  MaxToken = 2
  MaxFaults = 1
INVARIANTS TypeOK OneRefreshPerProcess OneRefreshUnlessLockLost NewestTokenKept CallsInHand NoLockLeftBehind
PROPERTIES DeadOnlyWhenLost StoreNeverGoesBack EveryCallEnds
CHECK_DEADLOCK FALSE
