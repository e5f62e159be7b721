SPECIFICATION FairSpec
CONSTANTS
  Tasks = {t1, t2}
  MaxErrors = 2
  RecoveryDelay = 1
  QuotaDelays = {2}
  MaxReports = 3
  LastReport = 2
  MaxCrashes = 1
  MaxTime = 4
INVARIANTS TypeOK StatusAgrees
PROPERTIES CooldownEnds
CHECK_DEADLOCK FALSE
