--------------------------- MODULE DhcpAllocator ---------------------------
(***************************************************************************)
(* The lease and subnet store of a DHCPAllocator (pkg/dhcp/v4/dhcp.go; the *)
(* v6 package has the same store) and the packet handlers that read it.    *)
(*                                                                         *)
(* Every operation holds the allocator's mutex from its first to its last  *)
(* statement and is one action.  A packet handler runs in a goroutine of   *)
(* its own and takes the read lock twice, once for the lease and once for  *)
(* the subnet, so other operations come in between: it is three actions.   *)
(*                                                                         *)
(* A call with an empty or unparsable argument returns an error and        *)
(* changes nothing, so the calls below have valid arguments.  A DHCP       *)
(* configuration is the subnet it was built for and a revision.            *)
(***************************************************************************)
EXTENDS GoMaps

CONSTANTS Pods, Macs, Subnets, Handlers,
          IPs,        \* addresses a lease may carry, NoIP for a nil net.IP
          NoIP, None,
          Revs,       \* revisions of a subnet's configuration
          Family,     \* "v4" or "v6": which package this allocator is of
          Agree       \* TRUE: pods that carry one MAC address report one lease for it

ASSUME FamilyAssumption == Family \in {"v4", "v6"}
ASSUME AgreeAssumption == Agree \in BOOLEAN

VARIABLES subnets, leases,
          macPodKeys, podkeyMACs, subnetPodKeys, podkeySubnets,
          pc, mac, lease,   \* of each handler: where it is, the sender, the lease it read
          sent              \* the last reply written to a client

indexes == <<macPodKeys, podkeyMACs, subnetPodKeys, podkeySubnets>>
handlers == <<pc, mac, lease, sent>>
vars == <<subnets, leases, indexes, handlers>>

Lease == [ip : IPs, net : Subnets]
OVNSubnet == [net : Subnets, rev : Revs]

\* What each message type is answered with; other types are logged and dropped.
AnswersV4 == [DISCOVER |-> "OFFER", REQUEST |-> "ACK"]
AnswersV6 == [SOLICIT |-> "ADVERTISE", RAPID_SOLICIT |-> "REPLY", REQUEST |-> "REPLY"]
Answers == IF Family = "v4" THEN AnswersV4 ELSE AnswersV6
Reply == [to : Macs, type : {"OFFER", "ACK", "ADVERTISE", "REPLY"},
          ip : IPs, net : Subnets, conf : OVNSubnet]

Init ==
  /\ subnets = EmptyMap /\ leases = EmptyMap
  /\ macPodKeys = EmptyMap /\ podkeyMACs = EmptyMap
  /\ subnetPodKeys = EmptyMap /\ podkeySubnets = EmptyMap
  /\ pc = [h \in Handlers |-> "idle"]
  /\ mac = [h \in Handlers |-> None]
  /\ lease = [h \in Handlers |-> None]
  /\ sent = None

(***************************************************************************)
(* The store.                                                              *)
(***************************************************************************)
AddOrUpdateSubnet(s, rev) ==
  /\ subnets' = Put(subnets, s, [net |-> s, rev |-> rev])
  /\ UNCHANGED <<leases, indexes, handlers>>

DeleteSubnet(s) ==
  /\ s \in DOMAIN subnets
  /\ subnets' = Drop(subnets, s)
  /\ UNCHANGED <<leases, indexes, handlers>>

HasPodDHCPLease(m, p, l) ==
  /\ m \in At(podkeyMACs, p)
  /\ p \in At(macPodKeys, m)
  /\ l.net \in At(podkeySubnets, p)
  /\ p \in At(subnetPodKeys, l.net)
  /\ m \in DOMAIN leases
  /\ leases[m] = l

GetPodKeys(s) == At(subnetPodKeys, s)

\* A slip in AddPodDHCPLease: an existing lease is not overwritten.
AddKeepsOldLease(m, p, l) ==
  /\ Agree => \A q \in At(macPodKeys, m) \ {p} : leases[m] = l
  /\ leases' = IF m \in DOMAIN leases THEN leases ELSE Put(leases, m, l)
  /\ macPodKeys' = AddTo(macPodKeys, m, p)
  /\ podkeyMACs' = AddTo(podkeyMACs, p, m)
  /\ subnetPodKeys' = AddTo(subnetPodKeys, l.net, p)
  /\ podkeySubnets' = AddTo(podkeySubnets, p, l.net)
  /\ UNCHANGED <<subnets, handlers>>

AddPodDHCPLease(m, p, l) ==
  /\ Agree => \A q \in At(macPodKeys, m) \ {p} : leases[m] = l
  /\ leases' = Put(leases, m, l)
  /\ macPodKeys' = AddTo(macPodKeys, m, p)
  /\ podkeyMACs' = AddTo(podkeyMACs, p, m)
  /\ subnetPodKeys' = AddTo(subnetPodKeys, l.net, p)
  /\ podkeySubnets' = AddTo(podkeySubnets, p, l.net)
  /\ UNCHANGED <<subnets, handlers>>

\* Slips in DeletePodDHCPLease.  Every lease of the pod goes, also a shared one:
DeleteSharedLease(p) ==
  /\ p \in DOMAIN podkeyMACs /\ p \in DOMAIN podkeySubnets
  /\ leases' = Restrict(leases, DOMAIN leases \ podkeyMACs[p])
  /\ macPodKeys' = Restrict(macPodKeys, DOMAIN macPodKeys \ podkeyMACs[p])
  /\ podkeyMACs' = Drop(podkeyMACs, p)
  /\ subnetPodKeys' = TakeFrom(subnetPodKeys, podkeySubnets[p], p)
  /\ podkeySubnets' = Drop(podkeySubnets, p)
  /\ UNCHANGED <<subnets, handlers>>

\* the subnet index is left as it was:
DeleteKeepsSubnetIndex(p) ==
  /\ p \in DOMAIN podkeyMACs /\ p \in DOMAIN podkeySubnets
  /\ leases' = Restrict(leases, {m \in DOMAIN leases : At(macPodKeys, m) # {p}})
  /\ macPodKeys' = TakeFrom(macPodKeys, podkeyMACs[p], p)
  /\ podkeyMACs' = Drop(podkeyMACs, p)
  /\ podkeySubnets' = Drop(podkeySubnets, p)
  /\ UNCHANGED <<subnets, subnetPodKeys, handlers>>

\* a subnet is dropped from the index though other pods are on it:
DeleteDropsSubnets(p) ==
  /\ p \in DOMAIN podkeyMACs /\ p \in DOMAIN podkeySubnets
  /\ leases' = Restrict(leases, {m \in DOMAIN leases : At(macPodKeys, m) # {p}})
  /\ macPodKeys' = TakeFrom(macPodKeys, podkeyMACs[p], p)
  /\ podkeyMACs' = Drop(podkeyMACs, p)
  /\ subnetPodKeys' = Restrict(subnetPodKeys, DOMAIN subnetPodKeys \ podkeySubnets[p])
  /\ podkeySubnets' = Drop(podkeySubnets, p)
  /\ UNCHANGED <<subnets, handlers>>

DeletePodDHCPLease(p) ==
  /\ p \in DOMAIN podkeyMACs
  /\ p \in DOMAIN podkeySubnets
  /\ leases' = Restrict(leases, {m \in DOMAIN leases :
                 ~(m \in podkeyMACs[p] /\ m \in DOMAIN macPodKeys /\ macPodKeys[m] = {p})})
  /\ macPodKeys' = TakeFrom(macPodKeys, podkeyMACs[p], p)
  /\ podkeyMACs' = Drop(podkeyMACs, p)
  /\ subnetPodKeys' = TakeFrom(subnetPodKeys, podkeySubnets[p], p)
  /\ podkeySubnets' = Drop(podkeySubnets, p)
  /\ UNCHANGED <<subnets, handlers>>

(***************************************************************************)
(* dhcpHandler: a server starts one per packet it receives.                *)
(***************************************************************************)
Receive(h, m) ==
  /\ pc[h] = "idle"
  /\ pc' = [pc EXCEPT ![h] = "lease"]
  /\ mac' = [mac EXCEPT ![h] = m]
  /\ UNCHANGED <<subnets, leases, indexes, lease, sent>>

Finish(h) ==
  /\ pc' = [pc EXCEPT ![h] = "idle"]
  /\ mac' = [mac EXCEPT ![h] = None]
  /\ lease' = [lease EXCEPT ![h] = None]

Answerable(m) == m \in DOMAIN leases /\ leases[m].ip # NoIP

ReadLease(h) ==
  /\ pc[h] = "lease"
  /\ Answerable(mac[h])
  /\ lease' = [lease EXCEPT ![h] = leases[mac[h]]]
  /\ pc' = [pc EXCEPT ![h] = "subnet"]
  /\ UNCHANGED <<subnets, leases, indexes, mac, sent>>

\* A slip in the handler: without a lease it goes on to look for a subnet.
NoLeaseGoesOn(h) ==
  /\ pc[h] = "lease"
  /\ ~Answerable(mac[h])
  /\ pc' = [pc EXCEPT ![h] = "subnet"]
  /\ UNCHANGED <<subnets, leases, indexes, mac, lease, sent>>

\* No lease for the sender: the packet is dropped.
NoLease(h) ==
  /\ pc[h] = "lease"
  /\ ~Answerable(mac[h])
  /\ Finish(h)
  /\ UNCHANGED <<subnets, leases, indexes, sent>>

\* A slip in the handler: the address is looked up again for the reply.
ReplyReadsAgain(h, type) ==
  LET now == IF mac[h] \in DOMAIN leases THEN leases[mac[h]] ELSE lease[h] IN
  [to |-> mac[h], type |-> type, ip |-> now.ip, net |-> now.net,
   conf |-> subnets[lease[h].net]]

ReplyOf(h, type) ==
  [to |-> mac[h], type |-> type, ip |-> lease[h].ip, net |-> lease[h].net,
   conf |-> subnets[lease[h].net]]

Answer(h) ==
  /\ pc[h] = "subnet"
  /\ lease[h].net \in DOMAIN subnets
  /\ \E kind \in DOMAIN Answers : sent' = ReplyOf(h, Answers[kind])
  /\ Finish(h)
  /\ UNCHANGED <<subnets, leases, indexes>>

\* No configuration for the lease's subnet, or a message type nobody answers.
NoAnswer(h) ==
  /\ pc[h] = "subnet"
  /\ Finish(h)
  /\ UNCHANGED <<subnets, leases, indexes, sent>>

Next ==
  \/ \E s \in Subnets, rev \in Revs : AddOrUpdateSubnet(s, rev)
  \/ \E s \in Subnets : DeleteSubnet(s)
  \/ \E m \in Macs, p \in Pods, l \in Lease : AddPodDHCPLease(m, p, l)
  \/ \E p \in Pods : DeletePodDHCPLease(p)
  \/ \E h \in Handlers, m \in Macs : Receive(h, m)
  \/ \E h \in Handlers : ReadLease(h) \/ NoLease(h) \/ Answer(h) \/ NoAnswer(h)

Spec == Init /\ [][Next]_vars

(***************************************************************************)
(* Properties.                                                             *)
(***************************************************************************)
\* The six maps hold what their Go types say, and the handlers' locals what they read.
TypeOK ==
  /\ subnets \in MapOf(Subnets, OVNSubnet)
  /\ leases \in MapOf(Macs, Lease)
  /\ macPodKeys \in MapOf(Macs, SUBSET Pods)
  /\ podkeyMACs \in MapOf(Pods, SUBSET Macs)
  /\ subnetPodKeys \in MapOf(Subnets, SUBSET Pods)
  /\ podkeySubnets \in MapOf(Pods, SUBSET Subnets)
  /\ pc \in [Handlers -> {"idle", "lease", "subnet"}]
  /\ mac \in [Handlers -> Macs \cup {None}]
  /\ lease \in [Handlers -> Lease \cup {None}]
  /\ sent \in Reply \cup {None}
  /\ \A h \in Handlers : /\ pc[h] # "idle" => mac[h] \in Macs
                         /\ pc[h] = "subnet" => lease[h] \in Lease

\* The four indexes written one after the other by Add and Delete never drift
\* apart: each pair is mutually inverse without leftover empty sets, a MAC
\* address has a lease exactly while a pod carries it, and a pod known by its
\* MAC addresses is known by its subnets (DeletePodDHCPLease's second error
\* return, which would leave the leases in place, is unreachable).
IndexesMirror ==
  /\ Mirror(macPodKeys, podkeyMACs)
  /\ Mirror(subnetPodKeys, podkeySubnets)
  /\ DOMAIN leases = DOMAIN macPodKeys
  /\ DOMAIN podkeyMACs = DOMAIN podkeySubnets

\* A lease a pod is known to have (HasPodDHCPLease) stays known as long as the
\* pod is not deleted and its MAC address is not bound to another lease: when
\* one of the pods of a migrating virtual machine is deleted, the other keeps
\* the lease of the MAC address they share, and all four indexes say so.
SurvivorKeepsLease ==
  [][\A m \in Macs, p \in Pods, l \in Lease :
       /\ HasPodDHCPLease(m, p, l)
       /\ p \in DOMAIN podkeyMACs'
       /\ m \in DOMAIN leases' => leases'[m] = l
       => HasPodDHCPLease(m, p, l)']_vars

\* A reply carries the address of a lease and the server, mask and routers of
\* that lease's subnet, whatever was rebound, reconfigured or deleted between
\* the handler's two reads.
ReplyCoherent == sent # None => sent.conf.net = sent.net

\* When pods that share a MAC address report the same lease for it, every pod
\* behind a lease is among GetPodKeys of the lease's subnet: a change of the
\* subnet notifies it (NotifyPods), however pods came, moved and went.
NotifyReachesHolders ==
  Agree => \A m \in DOMAIN leases : macPodKeys[m] \subseteq GetPodKeys(leases[m].net)

(***************************************************************************)
(* The store with its indexes implements the plain lease table.            *)
(***************************************************************************)
Table == INSTANCE LeaseTable WITH
  carries <- {pm \in Pods \X Macs : pm[2] \in At(podkeyMACs, pm[1])},
  joins <- {ps \in Pods \X Subnets : ps[2] \in At(podkeySubnets, ps[1])},
  table <- leases

\* Adding and deleting leases does to the table what binding and releasing
\* promise, although deletion decides by the inverse index which leases go.
ImplementsTable == Table!TableSpec
=============================================================================
