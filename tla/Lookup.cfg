CONSTANTS
  Pods = {p1}
  Macs = {m1}
  Subnets = {s1, s2}
  p1 = p1
  p2 = p2
  p3 = p3
  m1 = m1
  s1 = s1
  s2 = s2
  ip1 = ip1
  ip2 = ip2
  net1 = net1
  Handlers = {}
  IPs = {ip1, ip2}
  NoIP = None
  None = None
  Revs = {r1, r2}
  Family = "v6"
  Agree = TRUE
  VM <- MCVM
  SpecProvider <- OneProvider
  CIDR <- TwoCIDRs
  Default = {}
  Statuses <- UnnamedStatuses
  MaxChanges = 0
  MaxRestarts = 0
CHECK_DEADLOCK FALSE
SPECIFICATION PodSpec
INVARIANTS LeaseInSubnet
