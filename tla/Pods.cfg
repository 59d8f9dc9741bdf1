CONSTANTS
  Pods = {p1, p2, p3}
  Macs = {m1}
  Subnets = {s1}
  p1 = p1
  p2 = p2
  p3 = p3
  m1 = m1
  s1 = s1
  s2 = s2
  ip1 = ip1
  ip2 = ip2
  net1 = net1
  Handlers = {}
  IPs = {ip1, ip2}
  NoIP = None
  None = None
  Revs = {r1, r2}
  Family = "v6"
  Agree = TRUE
  VM <- MCVM
  SpecProvider <- OneProvider
  CIDR <- OneCIDR
  Default = {}
  Statuses <- MCStatuses
  MaxChanges = 2
  MaxRestarts = 1
CHECK_DEADLOCK FALSE
SYMMETRY Symmetry
SPECIFICATION PodSpec
INVARIANTS PodTypeOK NotifyReachesHolders LeasesFollow GaugesCurrent GaugesComplete
