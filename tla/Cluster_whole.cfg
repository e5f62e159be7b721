SPECIFICATION FairSpec
CONSTANTS
  t1 = t1
  t2 = t2
  c1 = c1
  c2 = c2
  Anonymous = Anonymous
  Hash <- MCHash
  Tokens = {t1}
  NumWorkers = 2
  MaxAttempts = 2
  Conns = {c1}
  MaxCrashes = 2
  MaxRestartCalls = 1
  MaxAsks = 1
  MaxShutdowns = 1
INVARIANTS TypeOK HomeWhileWhole
PROPERTIES ImplementsShardSupervision ShardsComeBack ConnectionsSettle NoWorkerOutlivesMaster
CHECK_DEADLOCK FALSE
