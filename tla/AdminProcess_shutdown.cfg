SPECIFICATION FairSpec
CONSTANTS
  MaxAdminRestart = 10
  MaxShutdowns = 1
PROPERTIES AdminEndsWithMaster
CHECK_DEADLOCK FALSE
