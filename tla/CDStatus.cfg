SPECIFICATION MCSpec
CONSTANTS
  a = a
  b = b
  p = p
  Nodes = {a, b, p}
  CliqueOf <- MCCliqueOf
  IPs = {1, 2}
  AddressesOf <- MCAddressesOf
  NumNodes = 2
  MaxNodesPerIMEXDomain = 2
  DNSNames = FALSE
  MaxDisturbances = 1
INVARIANT IndexUnique AddressesPushed
PROPERTY StableIndex EventuallyReported EventuallyRemoved StatusFollowsNodes
CHECK_DEADLOCK FALSE
