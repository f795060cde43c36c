SPECIFICATION FairSpec
CONSTANTS
  MaxUpdates = 2
  MaxCrashes = 1
PROPERTY ShutdownCompletes
CHECK_DEADLOCK FALSE
