SPECIFICATION MCSpec
CONSTANTS
  c1 = c1
  c2 = c2
  c3 = c3
  e1 = e1
  e2 = e2
  d1 = d1
  d2 = d2
  Claims = {c1, c2, c3, e1, e2}
  Daemons = {e1, e2}
  Admin = {c2}
  Domains = {d1, d2}
  DomainOf <- TwoDomains
  Misconfigured = {}
  Legacy = FALSE
  MaxReboots = 1
  MaxFaults = 1
  MaxChanges = 3
INVARIANT ExclusiveChannel PreparedIntact LabelAccounted
