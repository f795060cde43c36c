SPECIFICATION MCFairSpec
CONSTANTS
  Nodes = {n1, n2}
  IPs = {a, b}
  MaxNodesPerIMEXDomain = 2
  MaxPods = 3
  MaxStops = 1
INVARIANT HostsCorrect
PROPERTY EventuallyConnected
