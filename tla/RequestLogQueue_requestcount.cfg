SPECIFICATION Spec
CONSTANTS
  l1 = l1
  l2 = l2
  l3 = l3
  m1 = m1
  m2 = m2
  w1 = w1
  w2 = w2
  Workers = {w1, w2}
  Models = {m1, m2}
  ModelOf <- MCModelOf
  None = None
  BatchSize = 2
  Logs = {l1, l2, l3}
  MaxFaults = 0
INVARIANTS RequestCountCounts
CHECK_DEADLOCK FALSE
