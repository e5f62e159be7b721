SPECIFICATION Spec
CONSTANTS
  w1 = w1
  w2 = w2
  r1 = r1
  r2 = r2
  r3 = r3
  Workers = {w1, w2}
  Requests = {r1, r2}
  WorkerOf <- MCWorkerOf2
  Max = 2
  Ttl = 2
  MaxFaults = 0
  MaxRestarts = 1
  KeyPrefix = "accounthub:"
PROPERTIES CountsStartAtZero
CHECK_DEADLOCK FALSE
