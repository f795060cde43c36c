SPECIFICATION Spec
CONSTANTS
  Plugins = {"gpu", "cd"}
  GateSets <- MCGateSets
  ConfigLists <- MCConfigLists
  MaxSwitches = 2
INVARIANT ConfigPrecedence AdmittedPrepares StaysPrepared ReleasesApplied
CHECK_DEADLOCK FALSE
