SPECIFICATION FairSpec
CONSTANTS
  Domains = {d}
  Nodes = {n}
  None = None
  MaxFaults = 2
  MaxLabels = 2
INVARIANT LiveKept
PROPERTY FinalizerLast DeletionCompletes CreationCompletes OrphansCollected
CHECK_DEADLOCK FALSE
