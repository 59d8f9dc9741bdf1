------------------------- MODULE MCSubnetController -------------------------
EXTENDS SubnetController, TLC

CONSTANTS S1, S2, P1, P2, P3, OVN, Eth0, Net1

\* Two networks provided by Services share the default interface, the third is
\* an interface of the controller's own pod.
MCNic == (P1 :> Eth0) @@ (P2 :> Eth0) @@ (P3 :> Net1) @@ (OVN :> Eth0)

V4Addr == "v4" :> 1
DualAddr == V4Addr @@ ("v6" :> 1)
HalfAddrsOrg == P3 :> V4Addr
HalfAddrsMapped == P1 :> DualAddr
V4AddrsOrg == P3 :> V4Addr
V4AddrsMapped == (P1 :> V4Addr) @@ (P2 :> V4Addr)

Dual == <<"v4", "v6">>
V4Only == <<"v4">>

\* Enabled and disabled on every provider, and a change of CIDR to another family.
MovingSpecs ==
  [s \in {S1, S2} |-> [on : BOOLEAN, prov : {P1, P2, P3, OVN}, fams : {{"v4"}}, rev : {1}]
                        \cup {[on |-> TRUE, prov |-> P1, fams |-> {}, rev |-> 1]}]
\* One subnet reconfigured in every way on a dual-stack network, another that
\* comes and goes where there is no IPv6 address.
TunedSpecs ==
  (S1 :> [on : {TRUE}, prov : {P1}, fams : {{"v6"}, {"v4", "v6"}}, rev : {1, 2}])
  @@ (S2 :> [on : BOOLEAN, prov : {P3}, fams : {{"v4"}, {"v4", "v6"}}, rev : {1}])
\* A subnet that comes and goes on one provider.
ToggledSpecs == S1 :> [on : BOOLEAN, prov : {P1}, fams : {{"v4"}}, rev : {1}]

Symmetry == Permutations({S1, S2})
=============================================================================
