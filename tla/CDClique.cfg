SPECIFICATION MCFairSpec
CONSTANTS
  Nodes = {n1, n2}
  IPs = {a, b}
  MaxNodesPerIMEXDomain = 2
  MaxDisturbances = 1
PROPERTY ImplementsRegistry EventuallyListed EventuallyCleaned EventuallyReady
