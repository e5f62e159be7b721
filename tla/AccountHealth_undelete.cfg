SPECIFICATION Spec
CONSTANTS
  Tasks = {t1, t2}
  MaxErrors = 2
  RecoveryDelay = 1
  QuotaDelays = {1, 2}
  MaxReports = 2
  LastReport = 2
  MaxCrashes = 0
  MaxTime = 2
PROPERTIES AutoRecoveryNeverUndeletes
CHECK_DEADLOCK FALSE
