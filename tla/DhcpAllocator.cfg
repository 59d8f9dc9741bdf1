CONSTANTS
  Pods = {p1, p2}
  Macs = {m1, m2}
  Subnets = {s1, s2}
  Handlers = {h1}
  IPs = {ip1, noip}
  NoIP = noip
  None = none
  Revs = {1}
  Family = "v4"
  Agree = FALSE
SPECIFICATION Spec
INVARIANTS TypeOK IndexesMirror ReplyCoherent
PROPERTIES SurvivorKeepsLease ImplementsTable
SYMMETRY Symmetry
