CONSTANTS
  Subnets = {S1, S2}
  Providers = {P1, P2, P3, OVN}
  S1 = S1
  S2 = S2
  P1 = P1
  P2 = P2
  P3 = P3
  OVN = OVN
  Eth0 = Eth0
  Net1 = Net1
  Revs = {1, 2}
  None = None
  Own = {OVN}
  Nic <- MCNic
  OrgMap <- HalfAddrsOrg
  MappedMap <- HalfAddrsMapped
  Addresses = {1}
  FamOrder <- Dual
  PodSubnets = {S1}
  Specs <- TunedSpecs
  EditsWait = TRUE
  Deletes = FALSE
  MaxEdits = 3
  MaxStartFaults = 1
  MaxStopFaults = 1
CHECK_DEADLOCK FALSE
SPECIFICATION LiveSpec
INVARIANTS SettledIsServed LeaseGaugeFresh
PROPERTIES EventuallyServed
