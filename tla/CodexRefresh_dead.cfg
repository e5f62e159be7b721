SPECIFICATION Spec
CONSTANTS
  p1 = p1
  p2 = p2
  i1 = i1
  i2 = i2
  i3 = i3
  c1 = c1
  c2 = c2
  c3 = c3
  c4 = c4
  Nobody = Nobody
  Orphan = Orphan
  Procs = {p1, p2}
  Instances = {i1, i3}
  Callers = {c1, c3}
  ProcOf <- MCProcOf2
  InstOf <- MCInstOf2
  MaxToken = 2
  MaxFaults = 1
PROPERTIES DeadMeansLost
CHECK_DEADLOCK FALSE
