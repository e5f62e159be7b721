SPECIFICATION Spec
CONSTANTS
  Tasks = {t1, t2}
  MaxErrors = 2
  RecoveryDelay = 1
  QuotaDelays = {2}
  MaxReports = 3
  LastReport = 4
  MaxCrashes = 1
  MaxTime = 6
INVARIANTS CooldownInReach
CHECK_DEADLOCK FALSE
