--------------------------- MODULE MCPodController ---------------------------
EXTENDS PodController

CONSTANTS p1, p2, p3, m1, s1, s2, ip1, ip2, net1

Symmetry == Permutations({p1, p2}) \cup Permutations(Revs)

\* p1 and p2 are the source and the target of a migration, p3 is another machine.
MCVM == [p \in Pods |-> IF p = p3 THEN "vm2" ELSE "vm1"]
OneProvider == [s \in Subnets |-> net1]
OneCIDR == [s \in Subnets |-> IPs]
TwoCIDRs == (s1 :> {ip1}) @@ (s2 :> {ip2})

On(m, ip, s) == [prov |-> net1, mac |-> m, ip |-> ip, switch |-> s]
Parsed(networks) == [parses |-> TRUE, networks |-> networks]
Garbled == [parses |-> FALSE, networks |-> <<>>]

\* The first of two networks has a MAC address that does not parse; nor does what p3 has.
MCStatuses ==
  [p \in Pods |-> {IF p = p3 THEN Garbled ELSE Parsed(<<On(None, ip1, s1), On(m1, ip1, s1)>>)}]

\* A pod without the annotation that names its subnet.
UnnamedStatuses == [p \in Pods |-> {Parsed(<<On(m1, ip, None)>>) : ip \in IPs}]
=============================================================================
