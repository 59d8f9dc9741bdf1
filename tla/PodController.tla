---------------------------- MODULE PodController ----------------------------
(***************************************************************************)
(* pkg/controller/pod on top of one DHCPAllocator: from the network status *)
(* of virtual machines' pods to leases and lease gauges.  The controller   *)
(* does the same to the allocator of the other family.                     *)
(*                                                                         *)
(* Three actors interleave: the informer and its event handler, the one    *)
(* pod worker, and the subnet worker, which changes a configuration and    *)
(* then queues an UPDATE for each pod of the subnet.  The process may end  *)
(* at any time; the next one starts from the pods there are.               *)
(***************************************************************************)
EXTENDS DhcpAllocator, SequencesExt, WorkQueue

CONSTANTS
  VM,             \* the virtual machine GetVMKeyByPodKey finds in a pod's name
  SpecProvider,   \* each subnet's spec.provider
  CIDR,           \* the addresses each subnet contains
  Default,        \* the default subnets
  Statuses,       \* the network statuses each pod may get
  MaxChanges, MaxRestarts   \* bounds

Providers == Range(SpecProvider)

\* A network of a pod: its attachment, its MAC address (None: does not parse), its
\* address, and the subnet kube-ovn's annotation names, or None.
NetworkStatus == [prov : Providers, mac : Macs \cup {None}, ip : IPs, switch : Subnets \cup {None}]
PodEvent == [pod : Pods, op : {"ADD", "UPDATE", "DELETE"}]

\* What the worker does: its item, the networks still to do, the lease bound for the
\* first of them and the configuration read for it.
Task == [ev : PodEvent, todo : Seq(NetworkStatus), step : {"bind", "read", "report"},
         lease : Lease \cup {None}, conf : OVNSubnet \cup {None}]

ASSUME PodAssumption ==
  /\ DOMAIN VM = Pods /\ DOMAIN SpecProvider = Subnets /\ Default \subseteq Subnets
  /\ CIDR \in [Subnets -> SUBSET IPs]
  /\ Statuses \in [Pods -> SUBSET [parses : BOOLEAN, networks : Seq(NetworkStatus)]]
  /\ IsFiniteSet(Pods) /\ {MaxChanges, MaxRestarts} \subseteq Nat
ASSUME TaskAssumption == None \notin Task /\ None \notin OVNSubnet \cup Subnets

VARIABLES
  podLister,     \* each pod's phase, and its network status once it has one
  podNotes,      \* changes not yet delivered to the event handler
  queue,
  task,          \* what the pod worker is doing, or None
  gauge,         \* dcloud_vm_dhcp_vX_lease_time: virtual machine, MAC -> lease, configuration
  changed,       \* the subnet whose pods the subnet worker is about to notify, or None
  changes, restarts

informer == <<podLister, podNotes>>
bounds == <<changes, restarts>>
store == <<subnets, leases, indexes, handlers>>
podVars == <<store, informer, queue, task, gauge, changed, bounds>>

Created == [phase |-> "created", status |-> None]

PodInit ==
  /\ Init
  /\ podLister = [p \in Pods |-> Created] /\ podNotes = <<>>
  /\ queue = EmptyQueue /\ task = None /\ gauge = EmptyMap
  /\ changed = None /\ changes = 0 /\ restarts = 0

(***************************************************************************)
(* The informer and the event handler.  OnAdd ignores a pod that is        *)
(* created, so every pod is from the start; multus writes its network      *)
(* status later and once; a pod's name is not used again.                  *)
(***************************************************************************)
PodChange(p, new, event) ==
  /\ podLister' = [podLister EXCEPT ![p] = new]
  /\ podNotes' = podNotes \o event
  /\ UNCHANGED <<store, queue, task, gauge, changed, bounds>>

\* OnUpdate: the status appears.
Attach(p, status) ==
  /\ podLister[p].phase = "created"
  /\ PodChange(p, [phase |-> "attached", status |-> status], <<[pod |-> p, op |-> "ADD"]>>)

\* OnDelete does not look at the status.
Delete(p) ==
  /\ podLister[p].phase \in {"created", "attached"}
  /\ PodChange(p, [phase |-> "gone", status |-> None], <<[pod |-> p, op |-> "DELETE"]>>)

PodDeliver ==
  /\ podNotes # <<>>
  /\ queue' = Add(queue, Head(podNotes))
  /\ podNotes' = Tail(podNotes)
  /\ UNCHANGED <<store, podLister, task, gauge, changed, bounds>>

PodRetryTimer(e) ==
  /\ e \in queue.later
  /\ queue' = Expire(queue, e)
  /\ UNCHANGED <<store, informer, task, gauge, changed, bounds>>

\* The process ends and another starts: OnAdd for the pods of the initial list.
Restart ==
  /\ restarts < MaxRestarts
  /\ restarts' = restarts + 1
  /\ \E order \in SetToSeqs({p \in Pods : podLister[p].phase = "attached"}) :
       podNotes' = [i \in DOMAIN order |-> [pod |-> order[i], op |-> "ADD"]]
  /\ subnets' = EmptyMap /\ leases' = EmptyMap
  /\ macPodKeys' = EmptyMap /\ podkeyMACs' = EmptyMap
  /\ subnetPodKeys' = EmptyMap /\ podkeySubnets' = EmptyMap
  /\ queue' = EmptyQueue /\ task' = None /\ gauge' = EmptyMap /\ changed' = None
  /\ pc' = [h \in Handlers |-> "idle"] /\ sent' = None
  /\ mac' = [h \in Handlers |-> None] /\ lease' = [h \in Handlers |-> None]
  /\ UNCHANGED <<podLister, changes>>

(***************************************************************************)
(* The subnet worker, as far as pods can tell.                             *)
(***************************************************************************)
ChangeSubnet(s) ==
  /\ changed = None /\ changes < MaxChanges
  /\ DeleteSubnet(s) \/ \E rev \in Revs : AddOrUpdateSubnet(s, rev)
  /\ changed' = s /\ changes' = changes + 1
  /\ UNCHANGED <<informer, queue, task, gauge, restarts>>

\* The pods are enqueued in the order of a Go map.
NotifyPods ==
  /\ changed # None
  /\ LET E == {[pod |-> p, op |-> "UPDATE"] : p \in GetPodKeys(changed)} IN
     \E order \in SetToSeqs(E \ (queue.dirty \cup queue.running)) : queue' = AddAll(queue, E, order)
  /\ changed' = None
  /\ UNCHANGED <<store, informer, task, gauge, bounds>>

(***************************************************************************)
(* getSubnetNameByProvider.                                                *)
(***************************************************************************)
\* The subnets of the provider come in the order of a Go map.  The position of a
\* default subnet among those that contain the address is taken in the whole list.
SubnetNames(n) ==
  IF n.switch # None THEN {n.switch}
  ELSE {s \in Subnets :
          \E listed \in SetToSeqs({t \in Subnets : SpecProvider[t] = n.prov}) :
            LET containing == SelectSeq(listed, LAMBDA t : n.ip \in CIDR[t])
                defaults == {i \in DOMAIN containing : containing[i] \in Default}
            IN /\ containing # <<>>
               /\ s = listed[IF defaults = {} THEN 1 ELSE Min(defaults)]}

(***************************************************************************)
(* The worker: sync.                                                       *)
(***************************************************************************)
NextEvent == Head(queue.order)
Idle == task = None /\ queue.order # <<>>
Status(p) == podLister[p].status

\* No pod or no network status any more; or a status that does not parse, which is
\* tried again.
PodSkip ==
  LET e == NextEvent IN
  /\ Idle /\ e.op # "DELETE"
  /\ podLister[e.pod].phase = "attached" => ~Status(e.pod).parses
  /\ queue' = Handled(Get(queue), e, podLister[e.pod].phase = "attached")
  /\ UNCHANGED <<store, informer, task, gauge, changed, bounds>>

PodTake ==
  LET e == NextEvent IN
  /\ Idle /\ e.op # "DELETE"
  /\ podLister[e.pod].phase = "attached" /\ Status(e.pod).parses
  /\ task' = [ev |-> e, todo |-> Status(e.pod).networks, step |-> "bind",
             lease |-> None, conf |-> None]
  /\ queue' = Get(queue)
  /\ UNCHANGED <<store, informer, gauge, changed, bounds>>

Working(step) == task # None /\ task.todo # <<>> /\ task.step = step
Network == Head(task.todo)

\* No subnet found, a MAC address that does not parse, or no address of the family.
Leaseless(n) == SubnetNames(n) = {} \/ n.mac = None \/ n.ip = NoIP

\* A slip in SkipNetwork: the networks after it are skipped, too.
SkipNetworks ==
  /\ Working("bind") /\ Leaseless(Network)
  /\ task' = [task EXCEPT !.todo = <<>>]
  /\ UNCHANGED <<store, informer, queue, gauge, changed, bounds>>

SkipNetwork ==
  /\ Working("bind") /\ Leaseless(Network)
  /\ task' = [task EXCEPT !.todo = Tail(@)]
  /\ UNCHANGED <<store, informer, queue, gauge, changed, bounds>>

Bind ==
  /\ Working("bind") /\ ~Leaseless(Network)
  /\ \E s \in SubnetNames(Network) :
       LET l == [ip |-> Network.ip, net |-> s] IN
       /\ AddPodDHCPLease(Network.mac, task.ev.pod, l)
       /\ task' = [task EXCEPT !.lease = l, !.step = "read"]
  /\ UNCHANGED <<informer, queue, gauge, changed, bounds>>

ReadSubnet ==
  /\ Working("read")
  /\ task' = [task EXCEPT !.step = "report",
                !.conf = IF task.lease.net \in DOMAIN subnets THEN subnets[task.lease.net] ELSE None]
  /\ UNCHANGED <<store, informer, queue, gauge, changed, bounds>>

Key(p, m) == [vm |-> VM[p], mac |-> m]
NextNetwork == [task EXCEPT !.todo = Tail(@), !.step = "bind", !.lease = None, !.conf = None]

\* A slip: without a configuration the gauge is left.
ReportKeepsGauge(key) ==
  IF task.conf # None THEN Put(gauge, key, [lease |-> task.lease, conf |-> task.conf]) ELSE gauge

\* UpdateVMDHCPvXLease from the configuration read, or DeleteVMDHCPvXLease.
LeaseGauge(key) ==
  IF task.conf # None THEN Put(gauge, key, [lease |-> task.lease, conf |-> task.conf])
  ELSE Drop(gauge, key)

Report ==
  /\ Working("report")
  /\ gauge' = LeaseGauge(Key(task.ev.pod, Network.mac))
  /\ task' = NextNetwork
  /\ UNCHANGED <<store, informer, queue, changed, bounds>>

PodEnd ==
  /\ task # None /\ task.todo = <<>>
  /\ task' = None /\ queue' = Handled(queue, task.ev, FALSE)
  /\ UNCHANGED <<store, informer, gauge, changed, bounds>>

\* A slip: the gauges of every virtual machine go.
DeletePartialOfAll(vm, macs) == Restrict(gauge, {k \in DOMAIN gauge : k.mac \in macs})

\* The gauges of a virtual machine go, except those of the MAC addresses given.
deletePartialVMDHCPLease(vm, macs) == Restrict(gauge, {k \in DOMAIN gauge : k.vm # vm \/ k.mac \in macs})

\* The leases of a deleted pod, then the gauges but for the addresses it still has.
HandlerDeletePod ==
  LET p == NextEvent.pod IN
  /\ Idle /\ NextEvent.op = "DELETE"
  /\ IF p \in DOMAIN podkeyMACs \cap DOMAIN podkeySubnets THEN DeletePodDHCPLease(p)
     ELSE UNCHANGED store
  /\ gauge' = deletePartialVMDHCPLease(VM[p], At(podkeyMACs', p))
  /\ queue' = Handled(Get(queue), NextEvent, FALSE)
  /\ UNCHANGED <<informer, task, changed, bounds>>

PodWorker ==
  \/ PodSkip \/ PodTake \/ SkipNetwork \/ Bind \/ ReadSubnet \/ Report \/ PodEnd \/ HandlerDeletePod

PodNext ==
  \/ \E p \in Pods : Delete(p) \/ \E status \in Statuses[p] : Attach(p, status)
  \/ PodDeliver
  \/ \E e \in queue.later : PodRetryTimer(e)
  \/ Restart
  \/ \E s \in Subnets : ChangeSubnet(s)
  \/ NotifyPods
  \/ PodWorker

PodSpec == PodInit /\ [][PodNext]_podVars

(***************************************************************************)
(* Properties.                                                             *)
(***************************************************************************)
Settled(p) ==
  /\ \A i \in DOMAIN podNotes : podNotes[i].pod # p
  /\ \A e \in Pending(queue) : e.pod # p

\* The leases a pod's network status asks for.
Asked(p) ==
  IF podLister[p].phase = "attached" /\ Status(p).parses
  THEN {n \in ToSet(Status(p).networks) : ~Leaseless(n)} ELSE {}

\* The store and the worker have their types: an item waits in the queue exactly
\* once, and the worker's item is the one the queue is processing.
PodTypeOK ==
  /\ TypeOK
  /\ \A p \in Pods : podLister[p].phase \in {"created", "attached", "gone"}
  /\ ToSet(queue.order) = queue.dirty \ queue.running /\ IsInjective(queue.order)
  /\ task \in Task \cup {None}
  /\ queue.running = (IF task = None THEN {} ELSE {task.ev})
  /\ Pending(queue) \subseteq PodEvent
  /\ changed \in Subnets \cup {None}

\* When nothing about a pod is under way, the allocator has exactly the leases its
\* network status asks for, and none once it is gone, although events are queued
\* by operation and an UPDATE or a retry may come after the DELETE.
LeasesFollow ==
  \A p \in Pods : Settled(p) =>
    /\ \A n \in Asked(p) : \E s \in SubnetNames(n) : HasPodDHCPLease(n.mac, p, [ip |-> n.ip, net |-> s])
    /\ At(podkeyMACs, p) = {n.mac : n \in Asked(p)}

Quiet == changed = None /\ \A p \in Pods : Settled(p)

\* A gauge that is left when nothing is under way shows a lease there is, with the
\* current configuration of its subnet.
GaugesCurrent ==
  Quiet => \A k \in DOMAIN gauge :
    /\ k.mac \in DOMAIN leases /\ leases[k.mac] = gauge[k].lease
    /\ gauge[k].lease.net \in DOMAIN subnets /\ gauge[k].conf = subnets[gauge[k].lease.net]

\* A lease on a configured subnet has its gauge, as long as no pod of the virtual
\* machine has gone.
GaugesComplete ==
  Quiet => \A p \in Pods : \A n \in Asked(p) :
    /\ leases[n.mac].net \in DOMAIN subnets
    /\ \A q \in Pods : VM[q] = VM[p] => podLister[q].phase # "gone"
    => Key(p, n.mac) \in DOMAIN gauge

\* A lease is on a subnet that contains its address.
LeaseInSubnet == \A m \in DOMAIN leases : leases[m].ip \in CIDR[leases[m].net]
=============================================================================
