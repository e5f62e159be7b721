SPECIFICATION Spec
CONSTANTS
  MaxAdminRestart = 10
  MaxShutdowns = 1
INVARIANTS TypeOK GivesUpOnlyInCrashLoop
CHECK_DEADLOCK FALSE
