-------------------------- MODULE SubnetController --------------------------
(***************************************************************************)
(* pkg/controller/subnet: from the changes of Subnet objects to the        *)
(* configurations and servers of the DHCPv4 and DHCPv6 allocators.         *)
(*                                                                         *)
(* Three goroutines interleave.  The informer stores a change in the       *)
(* lister and later tells the event handler, which queues events.  The one *)
(* subnet worker takes an event, reads the subnet as it is in the lister   *)
(* now, and brings each address family up or down.  The one pod worker     *)
(* refreshes the lease gauges of the pods the subnet worker notifies.      *)
(*                                                                         *)
(* A subnet's specification is whether DHCP is on, its DHCP provider (the  *)
(* annotation, else spec.provider), the families of its CIDR, and a        *)
(* revision of its options, gateway and CIDR.  The cache of the networks   *)
(* the controller is attached to is read here and changed by the service   *)
(* controller.                                                             *)
(***************************************************************************)
EXTENDS Naturals, FiniteSets, SequencesExt, GoMaps, WorkQueue

CONSTANTS
  Subnets, Providers, Revs, None,
  Own,             \* providers of OVN itself, filtered out by the event handler
  Nic,             \* the interface of each provider's network
  OrgMap,          \* the controller's own networks: provider -> family -> its address
  MappedMap,       \* networks Services have mapped before, in the same form
  Addresses,
  FamOrder,        \* the families in the order they are handled
  PodSubnets,      \* subnets on which a pod has a lease
  Specs,           \* the specifications an edit may give each subnet
  EditsWait,       \* TRUE: only reconfiguring a subnet does not wait for its last edit
  Deletes,         \* TRUE: subnets may be deleted
  MaxEdits, MaxStartFaults, MaxStopFaults   \* bounds

Families == ToSet(FamOrder)
Network == MapOf(Families, Addresses)
SubnetSpec == [on : BOOLEAN, prov : Providers, fams : SUBSET Families, rev : Revs]
Note == [sub : Subnets, old : SubnetSpec \cup {None}, new : SubnetSpec \cup {None}]
Event == [sub : Subnets, op : {"ADD", "UPDATE", "DELETE"}, prov : Providers]
Config == [prov : Providers, rev : Revs, addr : Addresses]

\* The subnet worker's item, what it read of the subnet and of the network, the
\* families still to do, and how far it is with the first of them.
Task == [ev : Event, spec : SubnetSpec \cup {None}, net : Network \cup {None},
         todo : Seq(Families), step : {"look", "build", "serve", "stop"}, failed : BOOLEAN]
PodTask == [sub : PodSubnets, todo : Seq(Families), read : MapOf(PodSubnets, Config) \cup {None}]

ASSUME NetworkAssumption ==
  /\ DOMAIN Nic = Providers /\ Own \subseteq Providers
  /\ OrgMap \in MapOf(Providers, Network)
  /\ MappedMap \in MapOf(Providers \ DOMAIN OrgMap, Network)
ASSUME FamilyOrderAssumption == FamOrder \in Seq(Families)
ASSUME NoneAssumption == None \notin Task /\ None \notin PodTask
ASSUME EditsAssumption == Specs \in [Subnets -> SUBSET SubnetSpec] /\ EditsWait \in BOOLEAN /\ Deletes \in BOOLEAN
ASSUME BoundsAssumption == {MaxEdits, MaxStartFaults, MaxStopFaults} \subseteq Nat

VARIABLES
  lister,       \* the informer's store: each subnet's specification or None
  notes,        \* changes stored but not yet delivered to the event handler
  queue,        \* the controller's work queue
  task,         \* what the subnet worker is doing, or None
  conf,         \* per family, the allocator's subnets: name -> [prov, rev]
  up,           \* per family, the interfaces a server runs on
  serverGauge,  \* per family, the providers dcloud_dhcp_vX_server_info reports
  subnetGauge,  \* dcloud_dhcp_subnet_info: subnet -> provider
  podQueue,     \* subnets whose pods wait in the pod controller's queue
  podTask,      \* what the pod worker is doing, or None
  leaseGauge,   \* per family, dcloud_vm_dhcp_vX_lease_time of the pods of a subnet
  infoMap,      \* the networks mapped by Services
  cacheHeld,    \* the service worker holds the network cache's lock
  edits, startFaults, stopFaults

cache == <<infoMap, cacheHeld>>
dhcp == <<conf, up, serverGauge, subnetGauge>>
pods == <<podQueue, podTask, leaseGauge>>
faults == <<startFaults, stopFaults>>
vars == <<lister, notes, queue, task, dhcp, pods, cache, edits, faults>>

Init ==
  /\ lister = [s \in Subnets |-> None] /\ notes = <<>>
  /\ queue = EmptyQueue /\ task = None
  /\ conf = [f \in Families |-> EmptyMap] /\ up = [f \in Families |-> {}]
  /\ serverGauge = [f \in Families |-> {}] /\ subnetGauge = EmptyMap
  /\ podQueue = {} /\ podTask = None /\ leaseGauge = [f \in Families |-> EmptyMap]
  /\ infoMap = MappedMap /\ cacheHeld = FALSE
  /\ edits = 0 /\ startFaults = 0 /\ stopFaults = 0

(***************************************************************************)
(* The informer and the event handler.                                     *)
(***************************************************************************)
\* Nothing about s is on its way from the informer to the allocators.
Settled(s) ==
  /\ \A i \in DOMAIN notes : notes[i].sub # s
  /\ \A e \in Pending(queue) : e.sub # s

\* DHCP stays on, with the same provider.
Reconfigures(old, new) == None \notin {old, new} /\ old.on /\ new.on /\ old.prov = new.prov

\* A user creates, edits or deletes the Subnet object and the informer stores it.
Edit(s, new) ==
  /\ edits < MaxEdits
  /\ new # lister[s]
  /\ new = None => Deletes
  /\ EditsWait => Settled(s) \/ Reconfigures(lister[s], new)
  /\ lister' = [lister EXCEPT ![s] = new]
  /\ notes' = Append(notes, [sub |-> s, old |-> lister[s], new |-> new])
  /\ edits' = edits + 1
  /\ UNCHANGED <<queue, task, dhcp, pods, cache, faults>>

filterSubnetProvider(spec) == spec.prov \notin Own

NewEvents(s, spec, op) ==
  IF filterSubnetProvider(spec) THEN <<[sub |-> s, op |-> op, prov |-> spec.prov]>> ELSE <<>>

\* A slip in OnUpdate: the new provider is added before the old one is deleted.
OnUpdateAddsFirst(s, old, new) ==
  IF ~old.on /\ new.on THEN NewEvents(s, new, "ADD")
  ELSE IF old.prov # new.prov THEN NewEvents(s, new, "ADD") \o NewEvents(s, old, "DELETE")
  ELSE IF old.on /\ ~new.on THEN NewEvents(s, new, "DELETE")
  ELSE IF old.rev # new.rev \/ old.fams # new.fams THEN NewEvents(s, new, "UPDATE")
  ELSE <<>>

OnUpdate(s, old, new) ==
  IF ~old.on /\ new.on THEN NewEvents(s, new, "ADD")
  ELSE IF old.prov # new.prov THEN NewEvents(s, old, "DELETE") \o NewEvents(s, new, "ADD")
  ELSE IF old.on /\ ~new.on THEN NewEvents(s, new, "DELETE")
  ELSE IF old.rev # new.rev \/ old.fams # new.fams THEN NewEvents(s, new, "UPDATE")
  ELSE <<>>

EventsOf(n) ==
  IF n.old = None THEN IF n.new.on THEN NewEvents(n.sub, n.new, "ADD") ELSE <<>>
  ELSE IF n.new = None THEN NewEvents(n.sub, n.old, "DELETE")
  ELSE OnUpdate(n.sub, n.old, n.new)

Deliver ==
  /\ notes # <<>>
  /\ queue' = AddEach(queue, EventsOf(Head(notes)))
  /\ notes' = Tail(notes)
  /\ UNCHANGED <<lister, task, dhcp, pods, cache, edits, faults>>

RetryTimer(e) ==
  /\ e \in queue.later
  /\ queue' = Expire(queue, e)
  /\ UNCHANGED <<lister, notes, task, dhcp, pods, cache, edits, faults>>

(***************************************************************************)
(* The worker: sync.                                                       *)
(***************************************************************************)
NextEvent == Head(queue.order)

\* DELETE finds no subnet to read: lister.Get's error is returned.
SyncFails(e) == e.op = "DELETE" /\ lister[e.sub] = None

\* Nothing to do: the subnet is gone or has DHCP off.
SyncSkips(e) == e.op # "DELETE" /\ (lister[e.sub] = None \/ ~lister[e.sub].on)

\* DELETE only reports on the subnet it reads.
SpecRead(e) == IF e.op = "DELETE" THEN None ELSE lister[e.sub]

Skip ==
  /\ task = None /\ queue.order # <<>>
  /\ SyncSkips(NextEvent) \/ SyncFails(NextEvent)
  /\ queue' = Handled(Get(queue), NextEvent, SyncFails(NextEvent))
  /\ UNCHANGED <<lister, notes, task, dhcp, pods, cache, edits, faults>>

Take ==
  /\ task = None /\ queue.order # <<>>
  /\ ~SyncSkips(NextEvent) /\ ~SyncFails(NextEvent)
  /\ task' = [ev |-> NextEvent, spec |-> SpecRead(NextEvent), net |-> None,
              todo |-> FamOrder, step |-> "look", failed |-> FALSE]
  /\ queue' = Get(queue)
  /\ UNCHANGED <<lister, notes, dhcp, pods, cache, edits, faults>>

Attached == DOMAIN OrgMap \cup DOMAIN infoMap
GetNetworkStatus(p) == IF p \in DOMAIN OrgMap THEN OrgMap[p] ELSE infoMap[p]

TaskAt(step) == task # None /\ task.step = step

\* checkNetworkProvider copies the network; without one the event is done with.
Look ==
  /\ TaskAt("look") /\ ~cacheHeld
  /\ IF task.ev.prov \in Attached
     THEN /\ task' = [task EXCEPT !.net = GetNetworkStatus(task.ev.prov), !.step = "build"]
          /\ UNCHANGED queue
     ELSE task' = None /\ queue' = Handled(queue, task.ev, FALSE)
  /\ UNCHANGED <<lister, notes, dhcp, pods, cache, edits, faults>>

Working(f, step) == TaskAt(step) /\ task.todo # <<>> /\ Head(task.todo) = f

\* The worker is done with a family and moves on.
NextFamily(failed) ==
  task' = [task EXCEPT !.todo = Tail(@), !.step = "build", !.failed = @ \/ failed]

Sub == task.ev.sub
Prov == task.ev.prov
Needed(f) == task.ev.op # "DELETE" /\ f \in task.spec.fams

\* BuildOVNSubnetByIPVxOptions needs an address of the family on the interface.
Unbuildable(f) ==
  /\ Working(f, "build") /\ Needed(f) /\ f \notin DOMAIN task.net
  /\ NextFamily(TRUE)
  /\ UNCHANGED <<lister, notes, queue, dhcp, pods, cache, edits, faults>>

Configuration(f) == [prov |-> Prov, rev |-> task.spec.rev, addr |-> task.net[f]]

\* A slip in StoreConf: a configuration that exists is not overwritten.
StoreConfOnce(f) ==
  conf' = IF Sub \in DOMAIN conf[f] THEN conf ELSE [conf EXCEPT ![f] = Put(@, Sub, Configuration(f))]

StoreConf(f) == conf' = [conf EXCEPT ![f] = Put(@, Sub, Configuration(f))]

Configure(f) ==
  /\ Working(f, "build") /\ Needed(f) /\ f \in DOMAIN task.net
  /\ StoreConf(f)
  /\ task' = [task EXCEPT !.step = "serve"]
  /\ UNCHANGED <<lister, notes, queue, up, serverGauge, subnetGauge, pods, cache, edits, faults>>

\* A server already runs on the interface.  Both families report a v4 server.
Join(f) ==
  /\ Working(f, "serve") /\ Nic[Prov] \in up[f]
  /\ serverGauge' = [g \in Families |-> serverGauge[g] \cup (IF g = "v4" THEN {Prov} ELSE {})]
  /\ NextFamily(FALSE)
  /\ UNCHANGED <<lister, notes, queue, conf, up, subnetGauge, pods, cache, edits, faults>>

Start(f) ==
  /\ Working(f, "serve") /\ Nic[Prov] \notin up[f]
  /\ up' = [up EXCEPT ![f] = @ \cup {Nic[Prov]}]
  /\ serverGauge' = [serverGauge EXCEPT ![f] = @ \cup {Prov}]
  /\ NextFamily(FALSE)
  /\ UNCHANGED <<lister, notes, queue, conf, subnetGauge, pods, cache, edits, faults>>

\* AddAndRun fails to open the socket.
StartFails(f) ==
  /\ startFaults < MaxStartFaults
  /\ Working(f, "serve") /\ Nic[Prov] \notin up[f]
  /\ startFaults' = startFaults + 1
  /\ NextFamily(TRUE)
  /\ UNCHANGED <<lister, notes, queue, dhcp, pods, cache, edits, stopFaults>>

\* A slip in OtherUsers: subnets with DHCP off count as users.
OtherUsersEvenOff(sub, p, f) ==
  \E s \in Subnets \ {sub} : lister[s] # None /\ lister[s].prov = p /\ f \in lister[s].fams

\* Another subnet in the lister has this provider and needs the family.
OtherUsers(sub, p, f) ==
  \E s \in Subnets \ {sub} :
    lister[s] # None /\ lister[s].on /\ lister[s].prov = p /\ f \in lister[s].fams

Withdraw(f) ==
  /\ Working(f, "build") /\ ~Needed(f)
  /\ conf' = [conf EXCEPT ![f] = Drop(@, Sub)]
  /\ IF OtherUsers(Sub, Prov, f) THEN NextFamily(FALSE) ELSE task' = [task EXCEPT !.step = "stop"]
  /\ UNCHANGED <<lister, notes, queue, up, serverGauge, subnetGauge, pods, cache, edits, faults>>

\* A slip in interfaceBusy: off by one.
interfaceBusyOffByOne(nic) == Cardinality({p \in DOMAIN infoMap : Nic[p] = nic}) > 2

interfaceBusy(nic) == Cardinality({p \in DOMAIN infoMap : Nic[p] = nic}) > 1

\* A slip in StopServer: on a busy interface the provider's gauge is left, too.
StopServerOrLeave(p, f) ==
  IF interfaceBusy(Nic[p]) THEN UNCHANGED <<up, serverGauge>>
  ELSE /\ up' = [up EXCEPT ![f] = @ \ {Nic[p]}]
       /\ serverGauge' = [serverGauge EXCEPT ![f] = @ \ {p}]

\* The server of p's interface is stopped, unless other networks use the interface.
StopServer(p, f) ==
  /\ up' = IF interfaceBusy(Nic[p]) THEN up ELSE [up EXCEPT ![f] = @ \ {Nic[p]}]
  /\ serverGauge' = [serverGauge EXCEPT ![f] = @ \ {p}]

\* GetInterfaceCount waits for the network cache's lock.
Stop(f) ==
  /\ Working(f, "stop") /\ ~cacheHeld
  /\ StopServer(Prov, f)
  /\ NextFamily(FALSE)
  /\ UNCHANGED <<lister, notes, queue, conf, subnetGauge, pods, cache, edits, faults>>

\* DelAndStop fails to close the socket.
CloseFails(p, f) ==
  /\ stopFaults < MaxStopFaults
  /\ ~interfaceBusy(Nic[p]) /\ Nic[p] \in up[f]
  /\ stopFaults' = stopFaults + 1

\* DELETE gives up and is retried.
StopFails(f) ==
  /\ Working(f, "stop") /\ ~cacheHeld
  /\ CloseFails(Prov, f)
  /\ IF task.ev.op = "DELETE"
     THEN task' = None /\ queue' = Handled(queue, task.ev, TRUE)
     ELSE NextFamily(TRUE) /\ UNCHANGED queue
  /\ UNCHANGED <<lister, notes, dhcp, pods, cache, edits, startFaults>>

\* A slip in Report: reconfiguring a subnet does not notify its pods.
ReportSilently(s, op, p) ==
  /\ subnetGauge' = IF op = "DELETE" THEN Drop(subnetGauge, s) ELSE Put(subnetGauge, s, p)
  /\ podQueue' = IF op = "UPDATE" THEN podQueue ELSE podQueue \cup ({s} \cap PodSubnets)

\* The subnet gauge and NotifyPods.
Report(s, op, p) ==
  /\ subnetGauge' = IF op = "DELETE" THEN Drop(subnetGauge, s) ELSE Put(subnetGauge, s, p)
  /\ podQueue' = podQueue \cup ({s} \cap PodSubnets)

\* Both families are handled.
End ==
  /\ TaskAt("build") /\ task.todo = <<>>
  /\ Report(Sub, task.ev.op, Prov)
  /\ queue' = Handled(queue, task.ev, task.failed)
  /\ task' = None
  /\ UNCHANGED <<lister, notes, conf, up, serverGauge, podTask, leaseGauge, cache, edits, faults>>

(***************************************************************************)
(* The pod worker, for the UPDATE events of NotifyPods: the leases are as  *)
(* they were, the gauges follow what it reads of the subnet, v4 then v6.   *)
(***************************************************************************)
PodTake(s) ==
  /\ podTask = None /\ s \in podQueue
  /\ podTask' = [sub |-> s, todo |-> FamOrder, read |-> None]
  /\ podQueue' = podQueue \ {s}
  /\ UNCHANGED <<lister, notes, queue, task, dhcp, leaseGauge, cache, edits, faults>>

PodRead(f) ==
  /\ podTask # None /\ podTask.todo # <<>> /\ Head(podTask.todo) = f /\ podTask.read = None
  /\ podTask' = [podTask EXCEPT !.read = Restrict(conf[f], {podTask.sub} \cap DOMAIN conf[f])]
  /\ UNCHANGED <<lister, notes, queue, task, dhcp, podQueue, leaseGauge, cache, edits, faults>>

PodWrite(f) ==
  /\ podTask # None /\ podTask.read # None /\ Head(podTask.todo) = f
  /\ leaseGauge' = [leaseGauge EXCEPT ![f] =
       IF podTask.read = EmptyMap THEN Drop(@, podTask.sub)
       ELSE Put(@, podTask.sub, podTask.read[podTask.sub])]
  /\ podTask' = IF Len(podTask.todo) = 1 THEN None
                ELSE [podTask EXCEPT !.todo = Tail(@), !.read = None]
  /\ UNCHANGED <<lister, notes, queue, task, dhcp, podQueue, cache, edits, faults>>

FamilyStep(f) ==
  \/ Unbuildable(f) \/ Configure(f) \/ Join(f) \/ Start(f) \/ StartFails(f)
  \/ Withdraw(f) \/ Stop(f) \/ StopFails(f)

Worker == Skip \/ Take \/ Look \/ (\E f \in Families : FamilyStep(f)) \/ End
PodWorker == (\E s \in PodSubnets : PodTake(s)) \/ (\E f \in Families : PodRead(f) \/ PodWrite(f))

Next ==
  \/ \E s \in Subnets : \E new \in Specs[s] \cup {None} : Edit(s, new)
  \/ Deliver
  \/ \E e \in queue.later : RetryTimer(e)
  \/ Worker
  \/ PodWorker

Spec == Init /\ [][Next]_vars

\* The scheduler runs every goroutine that can run and timers run out; users
\* need not edit anything.
Fairness ==
  /\ WF_vars(Deliver) /\ WF_vars(Worker) /\ WF_vars(PodWorker)
  /\ \A e \in Event : WF_vars(RetryTimer(e))

LiveSpec == Spec /\ Fairness

(***************************************************************************)
(* Properties.                                                             *)
(***************************************************************************)
\* The controller's state has the types of its Go fields; the worker's item is
\* the one the queue is processing, and each family's subnets are known ones.
TypeOK ==
  /\ lister \in [Subnets -> SubnetSpec \cup {None}]
  /\ notes \in Seq(Note) /\ \A i \in DOMAIN notes : notes[i].old # notes[i].new
  /\ task \in Task \cup {None} /\ podTask \in PodTask \cup {None}
  /\ ToSet(queue.order) = queue.dirty \ queue.running /\ IsInjective(queue.order)
  /\ queue.running = (IF task = None THEN {} ELSE {task.ev})
  /\ Pending(queue) \subseteq Event
  /\ conf \in [Families -> MapOf(Subnets, Config)]
  /\ leaseGauge \in [Families -> MapOf(PodSubnets, Config)]
  /\ up \in [Families -> SUBSET Range(Nic)] /\ serverGauge \in [Families -> SUBSET Providers]
  /\ subnetGauge \in MapOf(Subnets, Providers) /\ podQueue \subseteq PodSubnets
  /\ infoMap \in MapOf(Providers \ DOMAIN OrgMap, Network)

\* The subnet is to be served in family f, and the controller has an address to do so.
Wanted(s, f) ==
  /\ lister[s] # None
  /\ lister[s].on /\ lister[s].prov \in Attached /\ lister[s].prov \notin Own
  /\ f \in lister[s].fams \cap DOMAIN GetNetworkStatus(lister[s].prov)

\* The allocators and the subnet gauge agree with the subnet.
Right(s) ==
  /\ \A f \in Families :
       IF Wanted(s, f)
       THEN /\ s \in DOMAIN conf[f]
            /\ conf[f][s] = [prov |-> lister[s].prov, rev |-> lister[s].rev,
                             addr |-> GetNetworkStatus(lister[s].prov)[f]]
            /\ Nic[lister[s].prov] \in up[f]
       ELSE s \notin DOMAIN conf[f]
  /\ (\E f \in Families : Wanted(s, f)) => s \in DOMAIN subnetGauge /\ subnetGauge[s] = lister[s].prov

\* When nothing about a subnet is under way any more, its configuration is the
\* current one, under its current provider, exactly in the families it has, and
\* a server runs on the provider's interface, whatever happened to the other
\* subnets meanwhile and however often a server failed to start.
SettledIsServed == \A s \in Subnets : Settled(s) => Right(s)

\* When nothing is under way at all, a server that runs on an interface of one
\* provider has a subnet to serve: the last one to leave stopped it.
NoOrphanServer ==
  (\A s \in Subnets : Settled(s)) =>
    \A f \in Families, p \in Attached :
      Nic[p] \in up[f] =>
        \/ interfaceBusy(Nic[p])
        \/ \E s \in Subnets : Wanted(s, f) /\ Nic[lister[s].prov] = Nic[p]

\* When nothing is under way at all, the server gauge has exactly the providers
\* that have a subnet to serve, although it is cleared by the provider and the
\* server, which other providers may share, by its interface.
ServerGaugeAgrees ==
  (\A s \in Subnets : Settled(s)) =>
    \A f \in Families :
      serverGauge[f] = {p \in Attached : \E s \in Subnets : Wanted(s, f) /\ lister[s].prov = p}

\* A server that stops takes no subnet down with it: every subnet
\* configured on the interface has a change of its own under way.
NoCollateralStop ==
  [][\A f \in Families : \A nic \in up[f] \ up'[f] : \A s \in DOMAIN conf[f] :
       Nic[conf[f][s].prov] = nic => ~Settled(s)]_vars

\* A lease gauge shows the subnet's current configuration once nothing about
\* the subnet or its pods is under way, although the pod worker reads the
\* configuration and writes the gauge in two steps beside the subnet worker.
LeaseGaugeFresh ==
  \A s \in PodSubnets, f \in Families :
    Settled(s) /\ s \notin podQueue /\ (podTask = None \/ podTask.sub # s) =>
      Restrict(leaseGauge[f], {s} \cap DOMAIN leaseGauge[f])
        = Restrict(conf[f], {s} \cap DOMAIN conf[f])

\* Once users stop editing, every subnet that still exists ends up served as it
\* asks, although other subnets' events may be retried for ever beside its own.
EventuallyServed == <>[](\A s \in Subnets : lister[s] # None => Right(s))

\* sync's comment on a DELETE event: the DHCP server is deleted.  A deleted
\* subnet's configuration goes away, or the subnet comes back.
DeletedIsTornDown ==
  \A s \in Subnets :
    [](lister[s] = None => <>(lister[s] # None \/ \A f \in Families : s \notin DOMAIN conf[f]))
=============================================================================
