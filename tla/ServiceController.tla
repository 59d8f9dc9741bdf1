-------------------------- MODULE ServiceController --------------------------
(***************************************************************************)
(* pkg/controller/service composed with the subnet controller and the      *)
(* network cache: from the load-balancer Services annotated with a         *)
(* provider to the networks of infoMap.                                    *)
(*                                                                         *)
(* A Service has its informer, its event handler and one worker, which     *)
(* runs beside the subnet worker.  For a Service that is usable it stores  *)
(* the network and queues an UPDATE for the provider's subnets; for one    *)
(* that goes it takes the provider's subnets down itself, holding the      *)
(* network cache's lock.                                                   *)
(*                                                                         *)
(* The annotation is kept as it is written: with or without a namespace.   *)
(***************************************************************************)
EXTENDS SubnetController

CONSTANTS
  Services, Written,
  Qualified,       \* the provider an annotation stands for, or None if it has no such form
  SvcSpecs,        \* the specifications an edit may give each Service
  MaxSvcEdits      \* bound

\* As written, the kind of the Service, whether its selector matches the
\* controller's own pod, and its load balancer's addresses.
SvcSpec == [w : Written \cup {None}, lb : BOOLEAN, mine : BOOLEAN, ips : Network]
SvcEvent == [svc : Services, op : {"ADD", "UPDATE", "DELETE"}, w : Written]
SvcNote == [svc : Services, old : SvcSpec \cup {None}, new : SvcSpec \cup {None}]

\* What the service worker does: store a network and tell its subnets, or remove one.
StoreTask == [ev : SvcEvent, prov : Providers, step : {"list", "notify"}, todo : SUBSET Subnets]
RemoveTask == [ev : SvcEvent, prov : Providers, step : {"pick", "withdraw", "stop"},
               todo : SUBSET Subnets, sub : Subnets \cup {None}, fams : Seq(Families)]

ASSUME ServiceAssumption ==
  /\ Qualified \in [Written -> Providers \cup {None}]
  /\ SvcSpecs \in [Services -> SUBSET (SvcSpec \cup {None})] /\ MaxSvcEdits \in Nat
ASSUME SvcNoneAssumption == None \notin StoreTask \cup RemoveTask

VARIABLES
  svcLister,    \* the Services the informer has stored, or None
  svcNotes,     \* changes not yet delivered to the event handler
  svcQueue,
  svcTask,      \* what the service worker is doing, or None
  svcEdits

informer == <<lister, notes, edits>>
subnetVars == <<lister, notes, queue, task, dhcp, pods, cache, edits, faults>>
svcVars == <<svcLister, svcNotes, svcQueue, svcTask, svcEdits>>
allVars == <<subnetVars, svcVars>>

SvcInit ==
  /\ Init
  /\ svcLister = [v \in Services |-> None] /\ svcNotes = <<>>
  /\ svcQueue = EmptyQueue /\ svcTask = None /\ svcEdits = 0

(***************************************************************************)
(* The informer and the event handler.                                     *)
(***************************************************************************)
SvcSettled(v) ==
  /\ \A i \in DOMAIN svcNotes : svcNotes[i].svc # v
  /\ \A e \in Pending(svcQueue) : e.svc # v

Provider(spec) == IF spec = None \/ spec.w = None THEN None ELSE Qualified[spec.w]

SvcEdit(v, new) ==
  /\ svcEdits < MaxSvcEdits
  /\ new # svcLister[v]
  /\ svcLister' = [svcLister EXCEPT ![v] = new]
  /\ svcNotes' = Append(svcNotes, [svc |-> v, old |-> svcLister[v], new |-> new])
  /\ svcEdits' = svcEdits + 1
  /\ UNCHANGED <<subnetVars, svcQueue, svcTask>>

\* An annotation that goes or changes deletes the old provider, and only that.
SvcEventsOf(n) ==
  LET event(op, w) == <<[svc |-> n.svc, op |-> op, w |-> w]>>
      before == IF n.old = None THEN None ELSE n.old.w
      after == IF n.new = None THEN None ELSE n.new.w
  IN IF before # None /\ after # before THEN event("DELETE", before)
     ELSE IF after = None THEN <<>>
     ELSE event(IF n.old = None THEN "ADD" ELSE "UPDATE", after)

SvcDeliver ==
  /\ svcNotes # <<>>
  /\ svcQueue' = AddEach(svcQueue, SvcEventsOf(Head(svcNotes)))
  /\ svcNotes' = Tail(svcNotes)
  /\ UNCHANGED <<subnetVars, svcLister, svcTask, svcEdits>>

SvcRetryTimer(e) ==
  /\ e \in svcQueue.later
  /\ svcQueue' = Expire(svcQueue, e)
  /\ UNCHANGED <<subnetVars, svcLister, svcNotes, svcTask, svcEdits>>

(***************************************************************************)
(* The worker: sync.                                                       *)
(***************************************************************************)
NextSvcEvent == Head(svcQueue.order)

\* Annotated, for this controller, a load balancer, and of a known format.
Eligible(spec) ==
  /\ spec # None /\ spec.w # None
  /\ spec.mine /\ spec.lb /\ Qualified[spec.w] # None

\* Another Service has the same annotation: an error, so it is tried again.
Contested(spec) == Cardinality({v \in Services : svcLister[v] # None /\ svcLister[v].w = spec.w}) > 1

Usable(spec) ==
  /\ Eligible(spec) /\ ~Contested(spec)
  /\ Provider(spec) \notin DOMAIN OrgMap /\ spec.ips # EmptyMap

SvcIdle == svcTask = None /\ svcQueue.order # <<>>

\* Nothing to store or to delete.  A network that exists is not among the reasons:
\* the comparison with the one there was compares empty slices with nil ones, so
\* "no need to update" is never said.
SvcSkip ==
  LET e == NextSvcEvent
      spec == svcLister[e.svc]
  IN /\ SvcIdle
     /\ IF e.op = "DELETE" THEN Qualified[e.w] \notin DOMAIN infoMap ELSE ~Usable(spec)
     /\ svcQueue' = Handled(Get(svcQueue), e, e.op # "DELETE" /\ Eligible(spec) /\ Contested(spec))
     /\ UNCHANGED <<subnetVars, svcLister, svcNotes, svcTask, svcEdits>>

StoringTask(e, p) == [ev |-> e, prov |-> p, step |-> "list", todo |-> {}]

\* A slip in SvcStore: a network that exists is left as it is.
SvcStoreNew ==
  LET spec == svcLister[NextSvcEvent.svc]
  IN /\ SvcIdle /\ NextSvcEvent.op # "DELETE" /\ Usable(spec)
     /\ infoMap' = IF Provider(spec) \in DOMAIN infoMap THEN infoMap
                   ELSE Put(infoMap, Provider(spec), spec.ips)
     /\ svcTask' = StoringTask(NextSvcEvent, Provider(spec))
     /\ svcQueue' = Get(svcQueue)
     /\ UNCHANGED <<lister, notes, queue, task, dhcp, pods, cacheHeld, edits, faults>>
     /\ UNCHANGED <<svcLister, svcNotes, svcEdits>>

\* Of the network cache, and UpdateNetworkStatus as well.
SetNetworkStatus(p, ips) == infoMap' = Put(infoMap, p, ips)

\* A network that exists is stored again, with whatever addresses, and told of again.
SvcStore ==
  LET spec == svcLister[NextSvcEvent.svc]
  IN /\ SvcIdle /\ NextSvcEvent.op # "DELETE" /\ Usable(spec)
     /\ SetNetworkStatus(Provider(spec), spec.ips)
     /\ svcTask' = StoringTask(NextSvcEvent, Provider(spec))
     /\ svcQueue' = Get(svcQueue)
     /\ UNCHANGED <<lister, notes, queue, task, dhcp, pods, cacheHeld, edits, faults>>
     /\ UNCHANGED <<svcLister, svcNotes, svcEdits>>

SvcAt(step) == svcTask # None /\ svcTask.step = step

GetSubnetsByDHCPProvider(p) == {s \in Subnets : lister[s] # None /\ lister[s].prov = p}

\* A slip in SvcList: only subnets that are served already are told.
SvcListServed ==
  /\ SvcAt("list")
  /\ svcTask' = [svcTask EXCEPT !.step = "notify", !.todo = {s \in GetSubnetsByDHCPProvider(svcTask.prov) :
                                                            s \in DOMAIN subnetGauge}]
  /\ UNCHANGED <<subnetVars, svcLister, svcNotes, svcQueue, svcEdits>>

SvcList ==
  /\ SvcAt("list")
  /\ svcTask' = [svcTask EXCEPT !.step = "notify", !.todo = GetSubnetsByDHCPProvider(svcTask.prov)]
  /\ UNCHANGED <<subnetVars, svcLister, svcNotes, svcQueue, svcEdits>>

\* The subnet controller's EnQueue, which no filter precedes.
SvcNotify(s) ==
  /\ SvcAt("notify") /\ s \in svcTask.todo
  /\ queue' = Add(queue, [sub |-> s, op |-> "UPDATE", prov |-> svcTask.prov])
  /\ svcTask' = [svcTask EXCEPT !.todo = @ \ {s}]
  /\ UNCHANGED <<lister, notes, task, dhcp, pods, cache, edits, faults>>
  /\ UNCHANGED <<svcLister, svcNotes, svcQueue, svcEdits>>

\* The item is done.
SvcFinish(failed) == svcTask' = None /\ svcQueue' = Handled(svcQueue, svcTask.ev, failed)

SvcNotified ==
  /\ SvcAt("notify") /\ svcTask.todo = {}
  /\ SvcFinish(FALSE)
  /\ UNCHANGED <<subnetVars, svcLister, svcNotes, svcEdits>>

\* HandlerDelete takes the lock and lists the subnets of the annotation as written.
SvcDelete ==
  /\ SvcIdle /\ NextSvcEvent.op = "DELETE" /\ Qualified[NextSvcEvent.w] \in DOMAIN infoMap
  /\ cacheHeld' = TRUE
  /\ svcTask' = [ev |-> NextSvcEvent, prov |-> Qualified[NextSvcEvent.w], step |-> "pick",
                 todo |-> GetSubnetsByDHCPProvider(NextSvcEvent.w), sub |-> None, fams |-> <<>>]
  /\ svcQueue' = Get(svcQueue)
  /\ UNCHANGED <<lister, notes, queue, task, dhcp, pods, infoMap, edits, faults>>
  /\ UNCHANGED <<svcLister, svcNotes, svcEdits>>

\* DeleteNetworkProvider of one subnet, family by family.
SvcPick(s) ==
  /\ SvcAt("pick") /\ s \in svcTask.todo
  /\ svcTask' = [svcTask EXCEPT !.step = "withdraw", !.sub = s, !.fams = FamOrder, !.todo = @ \ {s}]
  /\ UNCHANGED <<subnetVars, svcLister, svcNotes, svcQueue, svcEdits>>

SvcWorking(f, step) == SvcAt(step) /\ svcTask.fams # <<>> /\ Head(svcTask.fams) = f
SvcNextFamily == svcTask' = [svcTask EXCEPT !.step = "withdraw", !.fams = Tail(@)]

\* A slip in SvcWithdraw: the server is stopped whoever else uses it.
SvcWithdrawAndStop(f) ==
  /\ SvcWorking(f, "withdraw")
  /\ conf' = [conf EXCEPT ![f] = Drop(@, svcTask.sub)]
  /\ svcTask' = [svcTask EXCEPT !.step = "stop"]
  /\ UNCHANGED <<lister, notes, queue, task, up, serverGauge, subnetGauge, pods, cache, edits, faults>>
  /\ UNCHANGED <<svcLister, svcNotes, svcQueue, svcEdits>>

SvcWithdraw(f) ==
  /\ SvcWorking(f, "withdraw")
  /\ conf' = [conf EXCEPT ![f] = Drop(@, svcTask.sub)]
  /\ IF OtherUsers(svcTask.sub, svcTask.prov, f) THEN SvcNextFamily
     ELSE svcTask' = [svcTask EXCEPT !.step = "stop"]
  /\ UNCHANGED <<lister, notes, queue, task, up, serverGauge, subnetGauge, pods, cache, edits, faults>>
  /\ UNCHANGED <<svcLister, svcNotes, svcQueue, svcEdits>>

SvcStop(f) ==
  /\ SvcWorking(f, "stop")
  /\ StopServer(svcTask.prov, f)
  /\ SvcNextFamily
  /\ UNCHANGED <<lister, notes, queue, task, conf, subnetGauge, pods, cache, edits, faults>>
  /\ UNCHANGED <<svcLister, svcNotes, svcQueue, svcEdits>>

\* A slip in SvcStopFails: the lock is not given back.
SvcStopFailsLocked(f) ==
  /\ SvcWorking(f, "stop")
  /\ CloseFails(svcTask.prov, f)
  /\ SvcFinish(TRUE)
  /\ UNCHANGED <<lister, notes, queue, task, dhcp, pods, cache, edits, startFaults>>
  /\ UNCHANGED <<svcLister, svcNotes, svcEdits>>

\* The server does not close: the event is tried again, the network stays.
SvcStopFails(f) ==
  /\ SvcWorking(f, "stop")
  /\ CloseFails(svcTask.prov, f)
  /\ cacheHeld' = FALSE
  /\ SvcFinish(TRUE)
  /\ UNCHANGED <<lister, notes, queue, task, dhcp, pods, infoMap, edits, startFaults>>
  /\ UNCHANGED <<svcLister, svcNotes, svcEdits>>

SvcReport ==
  /\ SvcAt("withdraw") /\ svcTask.fams = <<>>
  /\ Report(svcTask.sub, "DELETE", svcTask.prov)
  /\ svcTask' = [svcTask EXCEPT !.step = "pick", !.sub = None]
  /\ UNCHANGED <<lister, notes, queue, task, conf, up, serverGauge, podTask, leaseGauge, cache, edits, faults>>
  /\ UNCHANGED <<svcLister, svcNotes, svcQueue, svcEdits>>

\* DeleteNetworkStatus, and the lock is given back.
SvcRemove ==
  /\ SvcAt("pick") /\ svcTask.todo = {}
  /\ infoMap' = Drop(infoMap, svcTask.prov) /\ cacheHeld' = FALSE
  /\ SvcFinish(FALSE)
  /\ UNCHANGED <<lister, notes, queue, task, dhcp, pods, edits, faults>>
  /\ UNCHANGED <<svcLister, svcNotes, svcEdits>>

SvcWorker ==
  \/ SvcSkip \/ SvcStore \/ SvcList \/ SvcNotified
  \/ \E s \in Subnets : SvcNotify(s) \/ SvcPick(s)
  \/ \E f \in Families : SvcWithdraw(f) \/ SvcStop(f) \/ SvcStopFails(f)
  \/ SvcDelete \/ SvcReport \/ SvcRemove

(***************************************************************************)
(* The two controllers together.                                           *)
(***************************************************************************)
\* A Service's deletion of the network of p is under way.
Removing(p) ==
  \/ \E e \in Pending(svcQueue) : e.op = "DELETE" /\ Qualified[e.w] = p
  \/ \E i \in DOMAIN svcNotes : p = Provider(svcNotes[i].old) /\ p # Provider(svcNotes[i].new)

Calm == \A v \in Services : SvcSettled(v)

\* The service worker has listed the subnet and is about to tell it of another provider.
ToldOfAnother(s, new) ==
  /\ svcTask # None /\ svcTask.step = "notify" /\ s \in svcTask.todo
  /\ new # None /\ new.prov # svcTask.prov

\* A subnet neither leaves nor joins a network that is being removed, and keeps off
\* other providers than the one it is about to be told of.
SubnetEdit(s, new) ==
  /\ \A x \in {lister[s], new} \ {None} : ~Removing(x.prov)
  /\ ~ToldOfAnother(s, new)
  /\ Edit(s, new)
  /\ UNCHANGED svcVars

Holders(p) == {v \in Services : Provider(svcLister[v]) = p}
GivesUp(v, new) == Provider(svcLister[v]) \notin {None, Provider(new)}

\* Nothing about a subnet of the provider is under way in the subnet controller.
Resting(p) ==
  /\ \A e \in Pending(queue) : e.prov # p
  /\ \A i \in DOMAIN notes : \A x \in {notes[i].old, notes[i].new} \ {None} : x.prov # p

\* A Service waits for its own last edit; it gives up a provider that no other Service
\* has, while the provider's subnets rest, and none asks for it until it is gone.  The
\* other networks' subnets and Services go on meanwhile.
ServiceEdit(v, new) ==
  /\ SvcSettled(v)
  /\ GivesUp(v, new) =>
       Holders(Provider(svcLister[v])) = {v} /\ Resting(Provider(svcLister[v]))
  /\ Provider(new) # None => ~Removing(Provider(new))
  /\ SvcEdit(v, new)

\* The subnet worker takes a subnet off a provider that is on under another by now.
TakesAfterMove == task # None /\ task.ev.op = "DELETE" /\ lister[Sub] # None /\ lister[Sub].on

\* Closing a server does not fail after a move.
SubnetSteps ==
  /\ Deliver \/ Worker \/ PodWorker \/ \E e \in queue.later : RetryTimer(e)
  /\ TakesAfterMove => stopFaults' = stopFaults
  /\ UNCHANGED svcVars

SystemNext ==
  \/ \E s \in Subnets : \E new \in Specs[s] \cup {None} : SubnetEdit(s, new)
  \/ \E v \in Services : \E new \in SvcSpecs[v] : ServiceEdit(v, new)
  \/ SubnetSteps
  \/ SvcDeliver
  \/ SvcWorker
  \/ \E e \in svcQueue.later : SvcRetryTimer(e)

SystemSpec == SvcInit /\ [][SystemNext]_allVars

(***************************************************************************)
(* Properties.                                                             *)
(***************************************************************************)
\* The two controllers' state has its types, and the network cache's lock is held
\* exactly while a network is being removed, failures included.
SvcTypeOK ==
  /\ TypeOK
  /\ svcLister \in [Services -> SvcSpec \cup {None}]
  /\ svcNotes \in Seq(SvcNote) /\ svcTask \in StoreTask \cup RemoveTask \cup {None}
  /\ ToSet(svcQueue.order) = svcQueue.dirty \ svcQueue.running /\ IsInjective(svcQueue.order)
  /\ svcQueue.running = (IF svcTask = None THEN {} ELSE {svcTask.ev})
  /\ Pending(svcQueue) \subseteq SvcEvent
  /\ cacheHeld <=> svcTask # None /\ svcTask.ev.op = "DELETE"

\* When nothing is under way about Services, the promise of the subnet controller
\* holds for the networks there are by then: a subnet that looked its network up
\* just before a Service stored it, or changed its addresses, was told; and one
\* whose network went has no configuration, though another worker withdrew it.
NetworksServed == Calm => SettledIsServed

\* A Service that is settled and usable has its network, with its addresses, and
\* every network belongs to a Service that asks for it.
NetworksFollow ==
  /\ \A v \in Services : SvcSettled(v) /\ Usable(svcLister[v]) =>
       LET p == Provider(svcLister[v]) IN p \in DOMAIN infoMap /\ infoMap[p] = svcLister[v].ips
  /\ Calm => \A p \in DOMAIN infoMap : Holders(p) # {}

\* HandlerDelete's "Stop provider's DHCP service due to LoadBalancer shutdown": a
\* server that runs once all is calm is on the interface of a network there is.
GoneNetworksAreSilent ==
  Calm /\ (\A s \in Subnets : Settled(s)) =>
    \A f \in Families : up[f] \subseteq {Nic[p] : p \in Attached}
=============================================================================
