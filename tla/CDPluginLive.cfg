SPECIFICATION MCFairSpec
CONSTANTS
  c1 = c1
  c2 = c2
  c3 = c3
  e1 = e1
  e2 = e2
  d1 = d1
  d2 = d2
  Claims = {c1, c2, e1}
  Daemons = {e1}
  Admin = {}
  Domains = {d1}
  DomainOf <- OneDomain
  Misconfigured = {c2}
  Legacy = FALSE
  MaxReboots = 0
  MaxFaults = 1
  MaxChanges = 2
PROPERTY StaleCleaned CodependentPrepare
