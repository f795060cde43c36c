SPECIFICATION FairSpec
CONSTANTS
  MaxUpdates = 3
  MaxCrashes = 2
INVARIANT ProcInv LoadedCurrent
PROPERTY CrashRecovery LoopsTerminate
CHECK_DEADLOCK FALSE
