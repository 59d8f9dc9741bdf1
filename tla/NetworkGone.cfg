CONSTANTS
  Subnets = {S1, S2}
  Providers = {P1, P2, P3}
  S1 = S1
  S2 = S2
  P1 = P1
  P2 = P2
  P3 = P3
  V1 = V1
  V2 = V2
  V3 = V3
  Short1 = Short1
  Eth0 = Eth0
  Net1 = Net1
  Revs = {1}
  None = None
  Own = {}
  Nic <- MCNic
  OrgMap <- OwnNetworks
  MappedMap <- EmptyMap
  Addresses = {1, 2}
  FamOrder <- V4Only
  PodSubnets = {}
  Specs <- SubnetSpecs
  EditsWait = TRUE
  Deletes = FALSE
  MaxEdits = 2
  MaxStartFaults = 0
  MaxStopFaults = 0
  Services = {V1, V2, V3}
  Written = {P1, P2, Short1}
  Qualified <- MCQualified
  SvcSpecs <- ServiceSpecs
  MaxSvcEdits = 2
CHECK_DEADLOCK FALSE
SPECIFICATION SystemSpec
INVARIANTS GoneNetworksAreSilent
