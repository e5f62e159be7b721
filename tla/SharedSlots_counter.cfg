SPECIFICATION FairSpec
CONSTANTS
  w1 = w1
  w2 = w2
  r1 = r1
  r2 = r2
  r3 = r3
  Workers = {w1, w2}
  Requests = {r1, r2, r3}
  WorkerOf <- MCWorkerOf
  Max = 2
  Ttl = 2
  MaxFaults = 2
  MaxRestarts = 1
  KeyPrefix = "accounthub:"
INVARIANTS TypeOK NeverOvercounts KeyGoneWhenIdle ExpiryInHand
PROPERTIES FullAccountComesBack
CHECK_DEADLOCK FALSE
