SPECIFICATION Spec
CONSTANTS
  Logs = {l1, l2, l3}
INVARIANTS AllAccountedFor
CHECK_DEADLOCK FALSE
