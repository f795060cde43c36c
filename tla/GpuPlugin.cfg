SPECIFICATION Spec
CONSTANTS
  two = two
  one = one
  large = large
  full = full
  mps = mps
  vm = vm
  adm = adm
  m1 = m1
  m2 = m2
  m3 = m3
  i1 = i1
  i2 = i2
  Claims <- MCClaims
  Migs <- MCMigs
  Ids <- MCIds
  NoID = NoID
  SlicesOf <- MCSlicesOf
  DevicesOf <- MCDevicesOf
  SharingOf <- MCSharingOf
  Admin <- MCAdmin
  Profiles <- MCProfiles
SYMMETRY MCSymmetry
INVARIANT PreparedIntact DevicesExclusive MigAccounted SharingKept
CHECK_DEADLOCK FALSE
