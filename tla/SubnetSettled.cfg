CONSTANTS
  Subnets = {S1, S2}
  Providers = {P1, P2, P3, OVN}
  S1 = S1
  S2 = S2
  P1 = P1
  P2 = P2
  P3 = P3
  OVN = OVN
  Eth0 = Eth0
  Net1 = Net1
  Revs = {1}
  None = None
  Own = {OVN}
  Nic <- MCNic
  OrgMap <- V4AddrsOrg
  MappedMap <- V4AddrsMapped
  Addresses = {1}
  FamOrder <- V4Only
  PodSubnets = {}
  Specs <- MovingSpecs
  EditsWait = TRUE
  Deletes = TRUE
  MaxEdits = 5
  MaxStartFaults = 1
  MaxStopFaults = 0
CHECK_DEADLOCK FALSE
SPECIFICATION Spec
INVARIANTS TypeOK SettledIsServed NoOrphanServer ServerGaugeAgrees
PROPERTIES NoCollateralStop
SYMMETRY Symmetry
