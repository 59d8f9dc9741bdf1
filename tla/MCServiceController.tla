------------------------- MODULE MCServiceController -------------------------
EXTENDS ServiceController, TLC

CONSTANTS S1, S2, P1, P2, P3, V1, V2, V3, Short1, Eth0, Net1

MCNic == (P1 :> Eth0) @@ (P2 :> Eth0) @@ (P3 :> Net1)
V4Addr(a) == "v4" :> a
OwnNetworks == P3 :> V4Addr(1)

\* Subnets may move between two networks on one interface.
SubnetSpecs == [s \in Subnets |-> [on : BOOLEAN, prov : {P1, P2}, fams : {{"v4"}}, rev : {1}]]
MCQualified == (P1 :> P1) @@ (P2 :> P2) @@ (Short1 :> P1)
LB(w, a) == [w |-> w, lb |-> TRUE, mine |-> TRUE, ips |-> a]
\* One Service comes, changes its address, loses it and goes; the second has the
\* other network; the third contends for the first one's provider.
ServiceSpecs ==
  (V1 :> {None, LB(P1, V4Addr(1)), LB(P1, V4Addr(2)), LB(P1, EmptyMap)})
    @@ (V2 :> {LB(P2, V4Addr(1))}) @@ (V3 :> {LB(P1, V4Addr(1))})
Symmetry == Permutations({S1, S2})
V4Only == <<"v4">>
=============================================================================
