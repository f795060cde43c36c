SPECIFICATION FairSpec
CONSTANTS
  Pods <- MCPods
  Claims <- MCClaims
  ClaimsOf <- MCClaimsOf
  Ending <- MCEnding
  Requires <- MCRequires
  Slots = {1, 2}
  None = None
  MaxFaults = 1
INVARIANT ResponsesTrue
PROPERTY Responds AllRun
CHECK_DEADLOCK FALSE
