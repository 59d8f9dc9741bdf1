------------------------ MODULE PodControllerProofs ------------------------
(***************************************************************************)
(* The pod controller on top of the allocator, for every set of pods,      *)
(* virtual machines, subnets and network statuses: whatever its events,    *)
(* retries and restarts do, the store underneath takes the steps of        *)
(* DhcpAllocator or starts again, so what is proved there holds here; and  *)
(* once the pods' events are handled, the gauge names the leases.          *)
(***************************************************************************)
EXTENDS PodController, DhcpAllocatorProofs

-----------------------------------------------------------------------------
(***************************************************************************)
(* What the controller works on.                                           *)
(***************************************************************************)
VMStatus == [parses : BOOLEAN, networks : Seq(NetworkStatus)]

PodTyped ==
  /\ podLister \in [Pods -> [phase : {"created", "attached", "gone"}, status : VMStatus \cup {None}]]
  /\ \A p \in Pods : podLister[p].phase = "attached" => Status(p) \in VMStatus
  /\ podNotes \in Seq(PodEvent)
  /\ QueueOK(queue, PodEvent) /\ queue.running = (IF task = None THEN {} ELSE {task.ev})
  /\ task \in Task \cup {None} /\ changed \in Subnets \cup {None}

\* The subnets a network may be on are subnets there are.
LEMMA NamesType ==
  ASSUME NEW n \in NetworkStatus
  PROVE  SubnetNames(n) \subseteq Subnets
  BY DEF SubnetNames, NetworkStatus

\* The lease bound for a network is a lease of a MAC address.
LEMMA BindType ==
  ASSUME TypeOK, PodTyped, Bind
  PROVE  /\ \E m \in Macs, p \in Pods, l \in Lease : AddPodDHCPLease(m, p, l)
         /\ task # None /\ task' \in Task /\ task'.ev = task.ev
  <1>1. task \in Task /\ Network \in NetworkStatus
    BY DEF Bind, Working, PodTyped, Task, Network
  <1>2. Network.mac \in Macs /\ Network.ip \in IPs /\ task.ev.pod \in Pods
    BY <1>1 DEF Bind, Leaseless, NetworkStatus, Task, PodEvent
  <1>3. PICK s \in SubnetNames(Network) :
          /\ AddPodDHCPLease(Network.mac, task.ev.pod, [ip |-> Network.ip, net |-> s])
          /\ task' = [task EXCEPT !.lease = [ip |-> Network.ip, net |-> s], !.step = "read"]
    BY DEF Bind
  <1>4. [ip |-> Network.ip, net |-> s] \in Lease BY <1>1, <1>2, <1>3, NamesType DEF Lease
  <1>5. task' \in Task /\ task'.ev = task.ev BY <1>1, <1>3, <1>4 DEF Task
  <1>6. task # None BY DEF Bind, Working
  <1> QED BY <1>2, <1>3, <1>4, <1>5, <1>6

\* A pod whose leases are deleted is one of the pods.
LEMMA DeleteType ==
  ASSUME TypeOK, HandlerDeletePod
  PROVE  (\E p \in Pods : DeletePodDHCPLease(p)) \/ UNCHANGED store
  <1>1. DOMAIN podkeyMACs \subseteq Pods BY DEF TypeOK, MapOf
  <1> QED BY <1>1 DEF HandlerDeletePod, DeletePodDHCPLease

\* Every step of the controller is one of the allocator, or its restart.
LEMMA StoreStep == TypeOK /\ PodTyped /\ [PodNext]_podVars => [Next]_vars \/ Init'
  <1> SUFFICES ASSUME TypeOK, PodTyped, [PodNext]_podVars PROVE [Next]_vars \/ Init'
    OBVIOUS
  <1>1. CASE Bind BY <1>1, BindType DEF Next
  <1>2. CASE HandlerDeletePod BY <1>2, DeleteType DEF Next, store, vars
  <1>3. ASSUME NEW s \in Subnets, ChangeSubnet(s) PROVE Next
    BY <1>3 DEF ChangeSubnet, Next
  <1>4. CASE Restart BY <1>4 DEF Restart, Init
  <1>5. ASSUME NEW p \in Pods, Delete(p) \/ \E status \in Statuses[p] : Attach(p, status)
        PROVE  UNCHANGED store
    BY <1>5 DEF Delete, Attach, PodChange
  <1>6. CASE PodDeliver \/ NotifyPods \/ \E e \in queue.later : PodRetryTimer(e)
    BY <1>6 DEF PodDeliver, NotifyPods, PodRetryTimer, store, vars
  <1>7. CASE PodSkip \/ PodTake \/ SkipNetwork \/ ReadSubnet \/ Report \/ PodEnd
    BY <1>7 DEF PodSkip, PodTake, SkipNetwork, ReadSubnet, Report, PodEnd, store, vars
  <1>8. CASE UNCHANGED podVars BY <1>8 DEF podVars, store, vars
  <1> QED BY <1>1, <1>2, <1>3, <1>4, <1>5, <1>6, <1>7, <1>8 DEF PodNext, PodWorker, store, vars

-----------------------------------------------------------------------------
\* The controller's own state keeps its types.
LEMMA PodTypedStep == TypeOK /\ PodTyped /\ [PodNext]_podVars => PodTyped'
  <1> SUFFICES ASSUME TypeOK, PodTyped, [PodNext]_podVars PROVE PodTyped'
    OBVIOUS
  <1> USE DEF PodTyped
  <1>1. ASSUME NEW p \in Pods, NEW status \in Statuses[p], Attach(p, status) PROVE PodTyped'
    <2>1. status \in VMStatus BY PodAssumption DEF VMStatus
    <2>2. [phase |-> "attached", status |-> status]
            \in [phase : {"created", "attached", "gone"}, status : VMStatus \cup {None}]
      BY <2>1
    <2>3. [pod |-> p, op |-> "ADD"] \in PodEvent BY DEF PodEvent
    <2>4. podNotes' \in Seq(PodEvent) BY <1>1, <2>3 DEF Attach, PodChange
    <2> QED BY <1>1, <2>1, <2>2, <2>4 DEF Attach, PodChange, Status
  <1>2. ASSUME NEW p \in Pods, Delete(p) PROVE PodTyped'
    <2>1. [phase |-> "gone", status |-> None]
            \in [phase : {"created", "attached", "gone"}, status : VMStatus \cup {None}]
      OBVIOUS
    <2>2. [pod |-> p, op |-> "DELETE"] \in PodEvent BY DEF PodEvent
    <2>3. podNotes' \in Seq(PodEvent) BY <1>2, <2>2 DEF Delete, PodChange
    <2> QED BY <1>2, <2>1, <2>3 DEF Delete, PodChange, Status
  <1>3. CASE PodDeliver
    <2>1. Head(podNotes) \in PodEvent /\ podNotes' \in Seq(PodEvent) BY <1>3 DEF PodDeliver
    <2> QED BY <1>3, <2>1, AddOK DEF PodDeliver, Status
  <1>4. ASSUME NEW e \in queue.later, PodRetryTimer(e) PROVE PodTyped'
    <2>1. e \in PodEvent BY DEF QueueOK, QueueOf
    <2> QED BY <1>4, <2>1, ExpireOK DEF PodRetryTimer, informer, Status
  <1>5. CASE Restart
    <2> DEFINE attached == {p \in Pods : podLister[p].phase = "attached"}
    <2>1. PICK order \in SetToSeqs(attached) :
            podNotes' = [i \in DOMAIN order |-> [pod |-> order[i], op |-> "ADD"]]
      BY <1>5 DEF Restart
    <2>2. IsFiniteSet(attached) BY PodAssumption, FS_Subset
    <2> HIDE DEF attached
    <2>3. order \in Seq(attached) /\ DOMAIN order = 1 .. Len(order) BY <2>2, OrderType
    <2> USE DEF attached
    <2>4. \A i \in 1 .. Len(order) : [pod |-> order[i], op |-> "ADD"] \in PodEvent
      BY <2>3 DEF PodEvent
    <2>5. podNotes' \in Seq(PodEvent) BY <2>1, <2>3, <2>4
    <2>6. QueueOK(queue', PodEvent) /\ queue'.running = {} BY <1>5, EmptyOK DEF Restart
    <2> QED BY <1>5, <2>5, <2>6 DEF Restart, Status
  <1>6. ASSUME NEW s \in Subnets, ChangeSubnet(s) PROVE PodTyped'
    BY <1>6 DEF ChangeSubnet, informer, Status
  <1>7. CASE NotifyPods
    <2> DEFINE E == {[pod |-> p, op |-> "UPDATE"] : p \in GetPodKeys(changed)}
               U == {[pod |-> p, op |-> "UPDATE"] : p \in Pods}
    <2>1. PICK order \in SetToSeqs(E \ (queue.dirty \cup queue.running)) :
            queue' = AddAll(queue, E, order)
      BY <1>7 DEF NotifyPods
    <2>2. GetPodKeys(changed) \subseteq Pods BY DEF GetPodKeys, At, TypeOK, MapOf
    <2>3. E \subseteq U /\ U \subseteq PodEvent BY <2>2 DEF PodEvent
    <2>4. IsFiniteSet(U)
      <3>1. [p \in Pods |-> [pod |-> p, op |-> "UPDATE"]] \in Surjection(Pods, U) BY DEF Surjection
      <3> QED BY <3>1, PodAssumption, FS_Surjection
    <2>5. IsFiniteSet(E) /\ E \in SUBSET PodEvent BY <2>3, <2>4, FS_Subset
    <2> HIDE DEF E, U
    <2>8. QueueOK(queue', PodEvent) /\ queue'.running = queue.running BY <2>1, <2>5, AddAllOK
    <2> QED BY <1>7, <2>8 DEF NotifyPods, informer, Status
  <1>8. ASSUME Idle
        PROVE  /\ NextEvent \in PodEvent /\ queue.running = {} /\ queue.order # <<>>
               /\ QueueOK(Get(queue), PodEvent) /\ Get(queue).running = {NextEvent}
    BY <1>8, GetOK DEF Idle, NextEvent
  <1>9. CASE PodSkip
    <2>1. QueueOK(queue', PodEvent) /\ queue'.running = {}
      BY <1>8, <1>9, GetHandledOK DEF PodSkip, NextEvent
    <2> QED BY <1>9, <2>1 DEF PodSkip, Idle, informer, Status
  <1>10. CASE PodTake
    <2>1. Status(NextEvent.pod) \in VMStatus BY <1>8, <1>10 DEF PodTake, PodEvent
    <2>2. task' \in Task /\ task'.ev = NextEvent BY <1>8, <1>10, <2>1 DEF PodTake, Task, VMStatus
    <2> QED BY <1>8, <1>10, <2>2, TaskAssumption DEF PodTake, informer, Status
  <1>11. CASE SkipNetwork
    <2> DEFINE rest == Tail(task.todo)
    <2>1. task \in Task /\ rest \in Seq(NetworkStatus) BY <1>11 DEF SkipNetwork, Working, Task
    <2>2. task' = [task EXCEPT !.todo = rest] BY <1>11 DEF SkipNetwork
    <2> HIDE DEF rest
    <2>3. task' \in Task /\ task'.ev = task.ev BY <2>1, <2>2 DEF Task
    <2> QED BY <1>11, <2>3, TaskAssumption DEF SkipNetwork, Working, informer, Status
  <1>12. CASE Bind BY <1>12, BindType, TaskAssumption DEF Bind, informer, Status
  <1>13. CASE ReadSubnet
    <2> DEFINE conf == IF task.lease.net \in DOMAIN subnets THEN subnets[task.lease.net] ELSE None
    <2>1. conf \in OVNSubnet \cup {None} BY MapOfElim DEF TypeOK
    <2>2. task' = [task EXCEPT !.step = "report", !.conf = conf] BY <1>13 DEF ReadSubnet
    <2> HIDE DEF conf
    <2>3. task' \in Task /\ task'.ev = task.ev BY <1>13, <2>1, <2>2 DEF ReadSubnet, Working, Task
    <2> QED BY <1>13, <2>3, TaskAssumption DEF ReadSubnet, Working, informer, Status
  <1>14. CASE Report
    <2> DEFINE rest == Tail(task.todo)
    <2>1. task \in Task /\ rest \in Seq(NetworkStatus) BY <1>14 DEF Report, Working, Task
    <2>2. task' = [task EXCEPT !.todo = rest, !.step = "bind", !.lease = None, !.conf = None]
      BY <1>14 DEF Report, NextNetwork
    <2> HIDE DEF rest
    <2>3. task' \in Task /\ task'.ev = task.ev BY <2>1, <2>2 DEF Task
    <2> QED BY <1>14, <2>3, TaskAssumption DEF Report, Working, informer, Status
  <1>15. CASE PodEnd
    <2>1. /\ QueueOK(queue, PodEvent) /\ task.ev \in PodEvent /\ queue.running = {task.ev}
          /\ queue' = Handled(queue, task.ev, FALSE)
      BY <1>15 DEF PodEnd, Task
    <2> HIDE DEF PodTyped
    <2>2. \A failed \in BOOLEAN : LET done == Handled(queue, task.ev, failed) IN
            QueueOK(done, PodEvent) /\ done.running = queue.running \ {task.ev}
      BY <2>1, HandledOK
    <2>3. QueueOK(queue', PodEvent) /\ queue'.running = {} BY <2>1, <2>2
    <2> QED BY <1>15, <2>3 DEF PodTyped, PodEnd, informer, Status
  <1>16. CASE HandlerDeletePod
    <2>1. QueueOK(queue', PodEvent) /\ queue'.running = {}
      BY <1>8, <1>16, GetHandledOK DEF HandlerDeletePod, NextEvent
    <2> QED BY <1>16, <2>1 DEF HandlerDeletePod, Idle, informer, Status
  <1>17. CASE UNCHANGED podVars BY <1>17 DEF podVars, informer, Status
  <1> QED BY <1>1, <1>2, <1>3, <1>4, <1>5, <1>6, <1>7, <1>9, <1>10, <1>11, <1>12, <1>13, <1>14,
             <1>15, <1>16, <1>17 DEF PodNext, PodWorker

\* The store starts as DhcpAllocator's, and its invariants hold of a fresh store.
LEMMA PodStart == PodInit => PodTyped /\ Init
  <1> SUFFICES ASSUME PodInit PROVE PodTyped /\ Init
    OBVIOUS
  <1>1. QueueOK(queue, PodEvent) /\ queue.running = {} BY EmptyOK DEF PodInit
  <1>2. podNotes \in Seq(PodEvent) BY DEF PodInit
  <1> QED BY <1>1, <1>2 DEF PodInit, PodTyped, Created, Status

LEMMA FreshStore == Init => TypeOK /\ IndexesMirror /\ NotifyReachesHolders
  BY EmptyMapType DEF Init, TypeOK, IndexesMirror, NotifyReachesHolders, Mirror, EmptyMap

PodInv == TypeOK /\ IndexesMirror /\ NotifyReachesHolders /\ PodTyped

LEMMA PodInvariance == PodSpec => []PodInv
  <1> USE DEF PodInv
  <1>1. PodInit => PodInv BY PodStart, FreshStore
  <1>2. PodInv /\ [PodNext]_podVars => PodInv'
    <2> DEFINE Store == TypeOK /\ IndexesMirror /\ NotifyReachesHolders
    <2> SUFFICES ASSUME Store, PodTyped, [PodNext]_podVars PROVE Store' /\ PodTyped'
      OBVIOUS
    <2>1. [Next]_vars \/ Init' BY StoreStep
    <2>2. Init' => Store' BY FreshStore, PTL
    <2>3. [Next]_vars => Store' BY TypeStep, MirrorStep, NotifyStep
    <2> QED BY <2>1, <2>2, <2>3, PodTypedStep
  <1> QED BY <1>1, <1>2, PTL DEF PodSpec

\* With the pod controller on top, whatever it is told and however often it starts
\* again, the store's indexes stay inverse and a change of a subnet notifies every
\* pod behind a lease on it.
THEOREM PodStoreTheorem == PodSpec => [](IndexesMirror /\ NotifyReachesHolders)
  BY PodInvariance, PTL DEF PodInv

\* The worker's item is the one the queue is processing, and everything that waits
\* is queued exactly once, in every behaviour of any number of pods.
THEOREM PodTypes == PodSpec => []PodTypeOK
  <1>1. PodInv => PodTypeOK
    BY DEF PodInv, PodTyped, PodTypeOK, QueueOK, QueueOf, Pending
  <1> QED BY <1>1, PodInvariance, PTL

-----------------------------------------------------------------------------
(***************************************************************************)
(* The leases follow the pods.  A DELETE is under way from the moment its  *)
(* pod has gone until the allocator has nothing of the pod and the worker  *)
(* is not at it; an ADD until everything the pod asks for is bound.        *)
(***************************************************************************)
\* A pod does not ask for two leases of one MAC address.
DistinctMacs ==
  \A p \in Pods : \A status \in Statuses[p] : status.parses =>
    \A n, o \in ToSet(status.networks) : ~Leaseless(n) /\ ~Leaseless(o) /\ n.mac = o.mac => n = o

Due(p, op) == [pod |-> p, op |-> op] \in ToSet(podNotes) \cup Pending(queue)
Bound(p) == At(podkeyMACs, p)
AtWork(p) == task # None /\ task.ev.pod = p
Known(p, n) == \E s \in SubnetNames(n) : HasPodDHCPLease(n.mac, p, [ip |-> n.ip, net |-> s])

PodLeases(p) ==
  /\ Due(p, "DELETE") => podLister[p].phase = "gone"
  /\ podLister[p].phase = "created" => Bound(p) = {} /\ ~AtWork(p)
  /\ podLister[p].phase = "gone" => Due(p, "DELETE") \/ (Bound(p) = {} /\ ~AtWork(p))
  /\ podLister[p].phase = "attached" =>
       /\ Status(p) \in Statuses[p]
       /\ \A m \in Bound(p) : \E n \in Asked(p) : n.mac = m /\ Known(p, n)
       /\ Due(p, "ADD") \/ \A n \in Asked(p) : n.mac \in Bound(p)

\* Of the networks the worker's pod asks for, those no longer to do are bound.
TaskLeases(p) ==
  AtWork(p) =>
    /\ task.ev.op # "DELETE"
    /\ podLister[p].phase = "attached" =>
         /\ Status(p).parses
         /\ ToSet(task.todo) \subseteq ToSet(Status(p).networks)
         /\ \A n \in Asked(p) : n \in ToSet(task.todo) \/ n.mac \in Bound(p)
         /\ task.todo # <<>> /\ task.step # "bind" => Network.mac \in Bound(p)

Leasing == \A p \in Pods : PodLeases(p) /\ TaskLeases(p)

\* A step that leaves the leases and the indexes.
LEMMA StoreKept ==
  ASSUME NEW p, UNCHANGED <<leases, indexes>>
  PROVE  Bound(p)' = Bound(p) /\ \A n : Known(p, n) => Known(p, n)'
  BY DEF Bound, Known, HasPodDHCPLease, indexes, At

\* A step that leaves a pod and what it has.
LEMMA PodKept ==
  ASSUME NEW p \in Pods, PodLeases(p), podLister'[p] = podLister[p],
         Bound(p)' = Bound(p), \A n \in Asked(p) : Known(p, n) => Known(p, n)',
         Due(p, "DELETE")' <=> Due(p, "DELETE"),
         podLister[p].phase = "attached" /\ Due(p, "ADD") =>
           Due(p, "ADD")' \/ \A n \in Asked(p) : n.mac \in Bound(p),
         AtWork(p)' => AtWork(p) \/ podLister[p].phase = "attached"
  PROVE  PodLeases(p)'
  <1>1. Asked(p)' = Asked(p) /\ Status(p)' = Status(p) BY DEF Asked, Status
  <1> QED BY <1>1 DEF PodLeases

\* A step that leaves the worker alone.
LEMMA TaskKept ==
  ASSUME NEW p \in Pods, TaskLeases(p), task' = task,
         AtWork(p) => Bound(p) \subseteq Bound(p)',
         AtWork(p) /\ podLister'[p].phase = "attached" => podLister'[p] = podLister[p]
  PROVE  TaskLeases(p)'
  <1>1. podLister'[p] = podLister[p] => Asked(p)' = Asked(p) /\ Status(p)' = Status(p)
    BY DEF Asked, Status
  <1> QED BY <1>1 DEF TaskLeases, AtWork, Network

-----------------------------------------------------------------------------
LEMMA PodEdits ==
  ASSUME PodTyped, Leasing, NEW p \in Pods,
         Delete(p) \/ \E status \in Statuses[p] : Attach(p, status)
  PROVE  Leasing'
  <1>1. PICK note \in PodEvent :
          /\ podNotes' = podNotes \o <<note>> /\ note.pod = p
          /\ \/ note = [pod |-> p, op |-> "DELETE"] /\ Delete(p)
             \/ note = [pod |-> p, op |-> "ADD"] /\ \E status \in Statuses[p] : Attach(p, status)
    <2>1. \A op \in {"ADD", "DELETE"} : [pod |-> p, op |-> op] \in PodEvent BY DEF PodEvent
    <2>2. CASE Delete(p)
      <3>1. podNotes' = podNotes \o <<[pod |-> p, op |-> "DELETE"]>> BY <2>2 DEF Delete, PodChange
      <3> QED BY <2>1, <2>2, <3>1
    <2>3. CASE \E status \in Statuses[p] : Attach(p, status)
      <3>1. podNotes' = podNotes \o <<[pod |-> p, op |-> "ADD"]>> BY <2>3 DEF Attach, PodChange
      <3> QED BY <2>1, <2>3, <3>1
    <2> QED BY <2>2, <2>3
  <1>2. ToSet(podNotes') = ToSet(podNotes) \cup {note} BY <1>1, NoteSet DEF PodTyped
  <1>3. UNCHANGED <<leases, indexes, task, queue>> /\ \A q \in Pods : q # p => podLister'[q] = podLister[q]
    BY DEF Delete, Attach, PodChange, store, PodTyped
  <1>4. ASSUME NEW q \in Pods, q # p PROVE PodLeases(q)' /\ TaskLeases(q)'
    <2>1. \A op : Due(q, op)' <=> Due(q, op) BY <1>1, <1>2, <1>3, <1>4 DEF Due
    <2>2. Bound(q)' = Bound(q) /\ \A n : Known(q, n) => Known(q, n)' BY <1>3, StoreKept
    <2>3. AtWork(q)' <=> AtWork(q) BY <1>3 DEF AtWork
    <2> QED BY <1>3, <1>4, <2>1, <2>2, <2>3, PodKept, TaskKept DEF Leasing
  <1>5. Bound(p)' = Bound(p) /\ (AtWork(p)' <=> AtWork(p)) BY <1>3, StoreKept DEF AtWork
  <1>6. PodLeases(p) /\ TaskLeases(p) BY DEF Leasing
  <1>7. CASE note = [pod |-> p, op |-> "DELETE"] /\ Delete(p)
    <2>1. podLister'[p].phase = "gone" BY <1>7 DEF Delete, PodChange, PodTyped
    <2>2. Due(p, "DELETE")' BY <1>2, <1>7 DEF Due
    <2>3. PodLeases(p)' BY <2>1, <2>2 DEF PodLeases
    <2>4. TaskLeases(p)' BY <1>3, <1>5, <1>6, <2>1, TaskKept
    <2> QED BY <1>4, <2>3, <2>4 DEF Leasing
  <1>8. CASE /\ note = [pod |-> p, op |-> "ADD"]
             /\ \E status \in Statuses[p] : Attach(p, status)
    <2>1. PICK status \in Statuses[p] : Attach(p, status) BY <1>8
    <2>2. podLister[p].phase = "created" /\ podLister'[p] = [phase |-> "attached", status |-> status]
      BY <2>1 DEF Attach, PodChange, PodTyped
    <2>3. Due(p, "ADD")' /\ (Due(p, "DELETE")' => Due(p, "DELETE")) BY <1>2, <1>3, <1>8 DEF Due
    <2>4. Bound(p)' = {} /\ ~AtWork(p)' BY <1>5, <1>6, <2>2 DEF PodLeases
    <2>5. PodLeases(p)' BY <1>6, <2>2, <2>3, <2>4 DEF PodLeases, Status
    <2>6. TaskLeases(p)' BY <2>4 DEF TaskLeases
    <2> QED BY <1>4, <2>5, <2>6 DEF Leasing
  <1> QED BY <1>1, <1>7, <1>8

\* Steps between the pods and the worker: nothing about a pod gets lost on the way.
LEMMA QueueLeases ==
  ASSUME TypeOK, PodTyped, Leasing,
         \/ PodDeliver \/ NotifyPods \/ \E e \in queue.later : PodRetryTimer(e)
         \/ \E s \in Subnets : ChangeSubnet(s)
  PROVE  Leasing'
  <1>1. UNCHANGED <<leases, indexes, task, podLister>>
    BY DEF PodDeliver, NotifyPods, PodRetryTimer, ChangeSubnet, DeleteSubnet, AddOrUpdateSubnet,
           store, informer
  <1>2. ASSUME NEW p \in Pods, NEW op \in {"ADD", "DELETE"} PROVE Due(p, op)' <=> Due(p, op)
    <2>1. CASE PodDeliver
      <3>1. /\ Head(podNotes) \in PodEvent
            /\ ToSet(podNotes) = {Head(podNotes)} \cup ToSet(podNotes')
        BY <2>1, TailSet DEF PodDeliver, PodTyped
      <3>2. Pending(queue') = Pending(queue) \cup {Head(podNotes)}
        BY <2>1, <3>1, AddPending DEF PodDeliver, PodTyped, QueueOK
      <3> QED BY <3>1, <3>2 DEF Due
    <2>2. CASE NotifyPods
      <3>1. PICK E, order : /\ queue' = AddAll(queue, E, order)
                            /\ \A e \in E : e.op = "UPDATE"
        BY <2>2 DEF NotifyPods
      <3>2. Pending(queue') = Pending(queue) \cup E
        BY <3>1, AddAllPending DEF PodTyped, QueueOK
      <3>3. [pod |-> p, op |-> op] \notin E BY <3>1
      <3> QED BY <2>2, <3>2, <3>3 DEF NotifyPods, Due, informer
    <2>3. CASE \E e \in queue.later : PodRetryTimer(e)
      <3>1. Pending(queue') = Pending(queue) BY <2>3, ExpirePending DEF PodRetryTimer, PodTyped
      <3> QED BY <2>3, <3>1 DEF PodRetryTimer, Due, informer
    <2>4. CASE \E s \in Subnets : ChangeSubnet(s) BY <2>4 DEF ChangeSubnet, Due, informer
    <2> QED BY <2>1, <2>2, <2>3, <2>4
  <1>3. ASSUME NEW p \in Pods PROVE PodLeases(p)' /\ TaskLeases(p)'
    <2>1. Bound(p)' = Bound(p) /\ \A n : Known(p, n) => Known(p, n)' BY <1>1, StoreKept
    <2>2. AtWork(p)' <=> AtWork(p) BY <1>1 DEF AtWork
    <2> QED BY <1>1, <1>2, <2>1, <2>2, PodKept, TaskKept DEF Leasing
  <1> QED BY <1>3 DEF Leasing

\* A process that starts again has nothing, and the initial list names every pod.
LEMMA RestartLeases == ASSUME PodTyped, Leasing, Restart PROVE Leasing'
  <1> DEFINE attached == {p \in Pods : podLister[p].phase = "attached"}
  <1>1. PICK order \in SetToSeqs(attached) :
          podNotes' = [i \in DOMAIN order |-> [pod |-> order[i], op |-> "ADD"]]
    BY DEF Restart
  <1>2. IsFiniteSet(attached) BY PodAssumption, FS_Subset
  <1> HIDE DEF attached
  <1>3. ToSet(order) = attached BY <1>2, OrderType
  <1>4. podLister' = podLister /\ task' = None /\ Pending(queue') = {}
    BY DEF Restart, EmptyQueue, Pending
  <1>5. \A p : Bound(p)' = {} /\ ~AtWork(p)' BY <1>4 DEF Restart, Bound, At, EmptyMap, AtWork
  <1>6. \A p, op : Due(p, op)' <=> p \in attached /\ op = "ADD"
    BY <1>1, <1>3, <1>4 DEF Due, ToSet
  <1> USE DEF attached
  <1> QED BY <1>4, <1>5, <1>6 DEF Leasing, PodLeases, TaskLeases, Status

-----------------------------------------------------------------------------
\* The item an idle worker would get.
LEMMA IdleItem ==
  ASSUME PodTyped, Idle
  PROVE  /\ NextEvent \in PodEvent /\ QueueOK(Get(queue), PodEvent)
         /\ NextEvent \in Get(queue).running /\ Pending(Get(queue)) = Pending(queue)
         /\ NextEvent \in Pending(queue)
  <1>1. QueueOK(queue, PodEvent) /\ queue.order # <<>> BY DEF PodTyped, Idle
  <1>2. /\ QueueOK(Get(queue), PodEvent) /\ NextEvent \in PodEvent
        /\ NextEvent \in Get(queue).running
    BY <1>1, GetOK DEF NextEvent
  <1>3. Pending(Get(queue)) = Pending(queue) BY <1>1, GetPending
  <1> QED BY <1>2, <1>3 DEF Pending

\* What is under way stays so, except the item that was handled.
LEMMA FinishDue ==
  ASSUME NEW q, QueueOK(q, PodEvent), Pending(q) = Pending(queue), NEW e \in q.running,
         NEW failed \in BOOLEAN, queue' = Handled(q, e, failed), podNotes' = podNotes,
         NEW p, NEW op
  PROVE  /\ Due(p, op)' => Due(p, op)
         /\ Due(p, op) /\ (failed \/ e # [pod |-> p, op |-> op]) => Due(p, op)'
  <1>1. /\ Pending(q) \ {e} \subseteq Pending(queue') /\ Pending(queue') \subseteq Pending(q)
        /\ failed => e \in Pending(queue')
    BY HandledPending
  <1> QED BY <1>1 DEF Due

LEMMA SkipLeases == ASSUME PodTyped, Leasing, PodSkip PROVE Leasing'
  <1> DEFINE e == NextEvent
             failed == podLister[e.pod].phase = "attached"
  <1>1. /\ task = None /\ UNCHANGED <<leases, indexes, task, podLister, podNotes>>
        /\ queue' = Handled(Get(queue), e, failed) /\ e.op # "DELETE"
        /\ failed => ~Status(e.pod).parses
    BY DEF PodSkip, Idle, store, informer
  <1>2. /\ QueueOK(Get(queue), PodEvent) /\ e \in Get(queue).running
        /\ Pending(Get(queue)) = Pending(queue)
    BY IdleItem DEF PodSkip
  <1>3. failed \in BOOLEAN OBVIOUS
  <1> HIDE DEF e, failed
  <1>4. \A p, op : /\ Due(p, op)' => Due(p, op)
                   /\ Due(p, op) /\ e # [pod |-> p, op |-> op] => Due(p, op)'
    BY <1>1, <1>2, <1>3, FinishDue
  <1>5. ASSUME NEW p \in Pods PROVE PodLeases(p)' /\ TaskLeases(p)'
    <2>1. Bound(p)' = Bound(p) /\ \A n : Known(p, n) => Known(p, n)' BY <1>1, StoreKept
    <2>2. Due(p, "DELETE")' <=> Due(p, "DELETE") BY <1>1, <1>4
    <2>3. podLister[p].phase = "attached" /\ Due(p, "ADD") =>
            Due(p, "ADD")' \/ \A n \in Asked(p) : n.mac \in Bound(p)
      <3>1. CASE e = [pod |-> p, op |-> "ADD"] BY <1>1, <3>1 DEF failed, Asked
      <3>2. CASE e # [pod |-> p, op |-> "ADD"] BY <1>4, <3>2
      <3> QED BY <3>1, <3>2
    <2>4. ~AtWork(p)' BY <1>1 DEF AtWork
    <2>5. TaskLeases(p)' BY <2>4 DEF TaskLeases
    <2> QED BY <1>1, <2>1, <2>2, <2>3, <2>4, <2>5, PodKept DEF Leasing
  <1> QED BY <1>5 DEF Leasing

LEMMA TakeLeases == ASSUME PodTyped, Leasing, PodTake PROVE Leasing'
  <1>1. UNCHANGED <<leases, indexes, podLister, podNotes>> /\ NextEvent.op # "DELETE"
    BY DEF PodTake, store, informer
  <1>2. /\ podLister[NextEvent.pod].phase = "attached" /\ Status(NextEvent.pod).parses
        /\ task'.ev = NextEvent /\ task'.todo = Status(NextEvent.pod).networks
        /\ task'.step = "bind"
    BY DEF PodTake
  <1>3. Pending(queue') = Pending(queue) BY IdleItem DEF PodTake
  <1>4. ASSUME NEW p \in Pods PROVE PodLeases(p)' /\ TaskLeases(p)'
    <2>1. Bound(p)' = Bound(p) /\ \A n : Known(p, n) => Known(p, n)' BY <1>1, StoreKept
    <2>2. \A op : Due(p, op)' <=> Due(p, op) BY <1>1, <1>3 DEF Due
    <2>3. AtWork(p)' => p = NextEvent.pod BY <1>2 DEF AtWork
    <2>4. PodLeases(p)' BY <1>1, <1>2, <2>1, <2>2, <2>3, PodKept DEF Leasing
    <2>5. Asked(p)' = Asked(p) /\ Status(p)' = Status(p) BY <1>1 DEF Asked, Status
    <2>6. podLister[p].phase = "attached" /\ Status(p).parses =>
            \A n \in Asked(p) : n \in ToSet(Status(p).networks)
      BY DEF Asked
    <2>7. TaskLeases(p)' BY <1>1, <1>2, <2>3, <2>5, <2>6 DEF TaskLeases
    <2> QED BY <2>4, <2>7
  <1> QED BY <1>4 DEF Leasing

\* Moving on from one network to the next, or on within one.
LEMMA NetworkLeases ==
  ASSUME PodTyped, Leasing, SkipNetwork \/ ReadSubnet \/ Report
  PROVE  Leasing'
  <1>1. UNCHANGED <<leases, indexes, podLister, podNotes, queue>>
    BY DEF SkipNetwork, ReadSubnet, Report, store, informer
  <1>2. task # None /\ task \in Task /\ task.todo \in Seq(NetworkStatus) /\ task.todo # <<>>
    BY DEF SkipNetwork, ReadSubnet, Report, Working, PodTyped, Task
  <1>3. /\ task'.ev = task.ev
        /\ \/ SkipNetwork /\ task'.todo = Tail(task.todo) /\ task'.step = "bind"
           \/ ReadSubnet /\ task'.todo = task.todo /\ task.step # "bind"
           \/ Report /\ task'.todo = Tail(task.todo) /\ task'.step = "bind"
    BY <1>2 DEF SkipNetwork, ReadSubnet, Report, Working, NextNetwork, Task
  <1>4. ToSet(task.todo) = {Network} \cup ToSet(Tail(task.todo)) BY <1>2, TailSet DEF Network
  <1>5. ASSUME NEW p \in Pods PROVE PodLeases(p)' /\ TaskLeases(p)'
    <2>1. Bound(p)' = Bound(p) /\ \A n : Known(p, n) => Known(p, n)' BY <1>1, StoreKept
    <2>2. \A op : Due(p, op)' <=> Due(p, op) BY <1>1 DEF Due
    <2>3. AtWork(p)' => AtWork(p) BY <1>2, <1>3 DEF AtWork
    <2>4. PodLeases(p)' BY <1>1, <2>1, <2>2, <2>3, PodKept DEF Leasing
    <2>5. Asked(p)' = Asked(p) /\ Status(p)' = Status(p) BY <1>1 DEF Asked, Status
    <2>6. ASSUME AtWork(p), podLister[p].phase = "attached"
          PROVE  /\ ToSet(task'.todo) \subseteq ToSet(task.todo)
                 /\ \A n \in Asked(p) : n \in ToSet(task'.todo) \/ n.mac \in Bound(p)
                 /\ task'.step # "bind" => Head(task'.todo).mac \in Bound(p)
      <3>1. \A n \in Asked(p) : n \in ToSet(task.todo) \/ n.mac \in Bound(p)
        BY <2>6 DEF Leasing, TaskLeases
      <3>2. task.step # "bind" => Network.mac \in Bound(p) BY <1>2, <2>6 DEF Leasing, TaskLeases
      <3>3. CASE SkipNetwork /\ task'.todo = Tail(task.todo) /\ task'.step = "bind"
        <4>1. Network \notin Asked(p) BY <3>3 DEF SkipNetwork, Asked
        <4> QED BY <1>4, <3>1, <3>3, <4>1
      <3>4. CASE ReadSubnet /\ task'.todo = task.todo /\ task.step # "bind"
        BY <3>1, <3>2, <3>4 DEF Network
      <3>5. CASE Report /\ task'.todo = Tail(task.todo) /\ task'.step = "bind"
        <4>1. Network.mac \in Bound(p) BY <3>2, <3>5 DEF Report, Working
        <4> QED BY <1>4, <3>1, <3>5, <4>1
      <3> QED BY <1>3, <3>3, <3>4, <3>5
    <2>7. TaskLeases(p)' BY <1>1, <1>3, <2>1, <2>3, <2>5, <2>6 DEF Leasing, TaskLeases, Network
    <2> QED BY <2>4, <2>7
  <1> QED BY <1>5 DEF Leasing

\* Everything the pod asks for is bound when its item is done.
LEMMA EndLeases == ASSUME PodTyped, Leasing, PodEnd PROVE Leasing'
  <1> DEFINE e == task.ev
  <1>1. /\ UNCHANGED <<leases, indexes, podLister, podNotes>> /\ task' = None
        /\ task # None /\ task.todo = <<>> /\ queue' = Handled(queue, e, FALSE)
    BY DEF PodEnd, store, informer
  <1>2. QueueOK(queue, PodEvent) /\ e \in queue.running BY <1>1 DEF PodTyped
  <1>3. \A p : AtWork(p) <=> e.pod = p BY <1>1 DEF AtWork
  <1>4. e.op # "DELETE"
    <2>1. e.pod \in Pods BY <1>1 DEF PodTyped, Task, PodEvent
    <2> QED BY <1>1, <2>1 DEF Leasing, TaskLeases, AtWork
  <1> HIDE DEF e
  <1>5. \A p, op : /\ Due(p, op)' => Due(p, op)
                   /\ Due(p, op) /\ e # [pod |-> p, op |-> op] => Due(p, op)'
    BY <1>1, <1>2, FinishDue
  <1>6. ASSUME NEW p \in Pods PROVE PodLeases(p)' /\ TaskLeases(p)'
    <2>1. Bound(p)' = Bound(p) /\ \A n : Known(p, n) => Known(p, n)' BY <1>1, StoreKept
    <2>2. Due(p, "DELETE")' <=> Due(p, "DELETE") BY <1>4, <1>5
    <2>3. podLister[p].phase = "attached" /\ Due(p, "ADD") =>
            Due(p, "ADD")' \/ \A n \in Asked(p) : n.mac \in Bound(p)
      <3>1. CASE AtWork(p) BY <1>1, <3>1 DEF Leasing, TaskLeases, ToSet
      <3>2. CASE ~AtWork(p) BY <1>3, <1>5, <3>2
      <3> QED BY <3>1, <3>2
    <2>4. ~AtWork(p)' BY <1>1 DEF AtWork
    <2>5. TaskLeases(p)' BY <2>4 DEF TaskLeases
    <2> QED BY <1>1, <2>1, <2>2, <2>3, <2>4, <2>5, PodKept DEF Leasing
  <1> QED BY <1>6 DEF Leasing

\* A binding makes the lease known and leaves what is known under other addresses,
\* and under this one for the pods that agree.
LEMMA BindKnown ==
  ASSUME Agree, NEW m, NEW p, NEW l, AddPodDHCPLease(m, p, l)
  PROVE  /\ HasPodDHCPLease(m, p, l)'
         /\ \A q : \A k : k \in Bound(q)' <=> k \in Bound(q) \/ (q = p /\ k = m)
         /\ \A k, q, l2 : HasPodDHCPLease(k, q, l2) /\ (k # m \/ q # p) => HasPodDHCPLease(k, q, l2)'
  <1>1. /\ \A x, z : z \in At(macPodKeys', x) <=> z \in At(macPodKeys, x) \/ (x = m /\ z = p)
        /\ \A x, z : z \in At(podkeyMACs', x) <=> z \in At(podkeyMACs, x) \/ (x = p /\ z = m)
        /\ \A x, z : z \in At(subnetPodKeys', x) <=> z \in At(subnetPodKeys, x) \/ (x = l.net /\ z = p)
        /\ \A x, z : z \in At(podkeySubnets', x) <=> z \in At(podkeySubnets, x) \/ (x = p /\ z = l.net)
    <2>1. PICK net : net = l.net OBVIOUS
    <2>2. \A x, z : z \in At(macPodKeys', x) <=> z \in At(macPodKeys, x) \/ (x = m /\ z = p)
      <3>1. macPodKeys' = AddTo(macPodKeys, m, p) BY DEF AddPodDHCPLease
      <3> QED BY ONLY <3>1, AddToMembers
    <2>3. \A x, z : z \in At(podkeyMACs', x) <=> z \in At(podkeyMACs, x) \/ (x = p /\ z = m)
      <3>1. podkeyMACs' = AddTo(podkeyMACs, p, m) BY DEF AddPodDHCPLease
      <3> QED BY ONLY <3>1, AddToMembers
    <2>4. \A x, z : z \in At(subnetPodKeys', x) <=> z \in At(subnetPodKeys, x) \/ (x = net /\ z = p)
      <3>1. subnetPodKeys' = AddTo(subnetPodKeys, net, p) BY <2>1 DEF AddPodDHCPLease
      <3> QED BY ONLY <3>1, AddToMembers
    <2>5. \A x, z : z \in At(podkeySubnets', x) <=> z \in At(podkeySubnets, x) \/ (x = p /\ z = net)
      <3>1. podkeySubnets' = AddTo(podkeySubnets, p, net) BY <2>1 DEF AddPodDHCPLease
      <3> QED BY ONLY <3>1, AddToMembers
    <2> QED BY <2>1, <2>2, <2>3, <2>4, <2>5
  <1>2. /\ DOMAIN leases' = DOMAIN leases \cup {m} /\ leases'[m] = l
        /\ \A k \in DOMAIN leases : k # m => leases'[k] = leases[k]
        /\ \A q \in At(macPodKeys, m) \ {p} : leases[m] = l
    BY DEF AddPodDHCPLease, Put
  <1>3. HasPodDHCPLease(m, p, l)' BY <1>1, <1>2 DEF HasPodDHCPLease
  <1>4. ASSUME NEW k, NEW q, NEW l2, HasPodDHCPLease(k, q, l2), k # m \/ q # p
        PROVE  HasPodDHCPLease(k, q, l2)'
    BY <1>1, <1>2, <1>4 DEF HasPodDHCPLease
  <1>5. \A q : \A k : k \in Bound(q)' <=> k \in Bound(q) \/ (q = p /\ k = m) BY <1>1 DEF Bound
  <1> QED BY <1>3, <1>4, <1>5

LEMMA BindLeases == ASSUME Agree, TypeOK, PodTyped, Leasing, Bind PROVE Leasing'
  <1>1. PICK s \in SubnetNames(Network) :
          /\ AddPodDHCPLease(Network.mac, task.ev.pod, [ip |-> Network.ip, net |-> s])
          /\ task' = [task EXCEPT !.lease = [ip |-> Network.ip, net |-> s], !.step = "read"]
    BY DEF Bind
  <1>2. PICK m, w, l : m = Network.mac /\ w = task.ev.pod /\ l = [ip |-> Network.ip, net |-> s]
    OBVIOUS
  <1>3. /\ HasPodDHCPLease(m, w, l)'
        /\ \A q : \A k : k \in Bound(q)' <=> k \in Bound(q) \/ (q = w /\ k = m)
        /\ \A k, q, l2 : HasPodDHCPLease(k, q, l2) /\ (k # m \/ q # w) => HasPodDHCPLease(k, q, l2)'
    BY <1>1, <1>2, BindKnown
  <1>4. UNCHANGED <<podLister, podNotes, queue>> BY DEF Bind, informer
  <1>5. task # None /\ task \in Task /\ task.todo # <<>> /\ task.todo \in Seq(NetworkStatus)
    BY DEF Bind, Working, PodTyped, Task
  <1>6. task'.ev = task.ev /\ task'.todo = task.todo /\ task'.step = "read"
    BY <1>1, <1>5 DEF Task
  <1>7. task' # None BY <1>5, BindType, TaskAssumption
  <1>8. Network \in ToSet(task.todo) BY <1>5, TailSet DEF Network
  <1>9. ASSUME NEW p \in Pods PROVE PodLeases(p)' /\ TaskLeases(p)'
    <2>1. \A op : Due(p, op)' <=> Due(p, op) BY <1>4 DEF Due
    <2>2. AtWork(p)' <=> AtWork(p) BY <1>5, <1>6, <1>7 DEF AtWork
    <2>3. Asked(p)' = Asked(p) /\ Status(p)' = Status(p) BY <1>4 DEF Asked, Status
    <2>4. AtWork(p) <=> p = w BY <1>2, <1>5 DEF AtWork
    <2>5. PodLeases(p) /\ TaskLeases(p) BY DEF Leasing
    <2>6. ASSUME p = w, podLister[p].phase = "attached"
          PROVE  Network \in Asked(p)
      <3>1. ToSet(task.todo) \subseteq ToSet(Status(p).networks) /\ Status(p).parses
        BY <2>4, <2>5, <2>6 DEF TaskLeases
      <3>2. ~Leaseless(Network) BY DEF Bind
      <3> QED BY <1>8, <2>6, <3>1, <3>2 DEF Asked
    <2>7. ASSUME NEW n, Known(p, n), n.mac # m \/ p # w PROVE Known(p, n)'
      BY <1>3, <2>7 DEF Known
    <2>8. PICK b : b = Network OBVIOUS
    <2>9. p = w => Known(p, b)' BY <1>1, <1>2, <1>3, <2>8 DEF Known
    <2>10. podLister[p].phase = "attached" =>
             \A k \in Bound(p)' : \E n \in Asked(p) : n.mac = k /\ Known(p, n)'
      <3> SUFFICES ASSUME podLister[p].phase = "attached", NEW k \in Bound(p)'
                   PROVE  \E n \in Asked(p) : n.mac = k /\ Known(p, n)'
        OBVIOUS
      <3>1. CASE p = w /\ k = m BY <1>2, <2>6, <2>8, <2>9, <3>1
      <3>2. CASE ~(p = w /\ k = m)
        <4>1. k \in Bound(p) BY <1>3, <3>2
        <4>2. PICK n \in Asked(p) : n.mac = k /\ Known(p, n) BY <2>5, <4>1 DEF PodLeases
        <4> QED BY <2>7, <3>2, <4>2
      <3> QED BY <3>1, <3>2
    <2>11. Bound(p) \subseteq Bound(p)' /\ (p # w => Bound(p)' = Bound(p)) BY <1>3
    <2>12. PodLeases(p)' BY <1>4, <2>1, <2>2, <2>3, <2>4, <2>5, <2>10, <2>11 DEF PodLeases
    <2>13. p = w => m \in Bound(p)' BY <1>3
    <2>14. TaskLeases(p)'
      BY <1>2, <1>4, <1>6, <2>2, <2>3, <2>4, <2>5, <2>11, <2>13 DEF TaskLeases, Network
    <2> QED BY <2>12, <2>14
  <1> QED BY <1>9 DEF Leasing

\* A deletion takes what its pod has and nothing another pod is known to have.
LEMMA DeleteKnown ==
  ASSUME IndexesMirror, NEW p \in Pods, DeletePodDHCPLease(p)
  PROVE  /\ \A q : Bound(q)' = IF q = p THEN {} ELSE Bound(q)
         /\ \A k, q, l : HasPodDHCPLease(k, q, l) /\ q # p => HasPodDHCPLease(k, q, l)'
  <1>1. /\ \A x, z : z \in At(macPodKeys', x) <=>
                       z \in At(macPodKeys, x) /\ ~(x \in podkeyMACs[p] /\ z = p)
        /\ \A x, z : z \in At(subnetPodKeys', x) <=>
                       z \in At(subnetPodKeys, x) /\ ~(x \in podkeySubnets[p] /\ z = p)
    BY TakeFromMembers DEF DeletePodDHCPLease
  <1>2. /\ \A x, z : z \in At(podkeyMACs', x) <=> z \in At(podkeyMACs, x) /\ x # p
        /\ \A x, z : z \in At(podkeySubnets', x) <=> z \in At(podkeySubnets, x) /\ x # p
    BY DropMembers DEF DeletePodDHCPLease
  <1>3. \A q : Bound(q)' = IF q = p THEN {} ELSE Bound(q)
    BY DEF Bound, At, DeletePodDHCPLease, Drop, Restrict
  <1>4. ASSUME NEW k, NEW q, NEW l, HasPodDHCPLease(k, q, l), q # p
        PROVE  HasPodDHCPLease(k, q, l)'
    <2>1. k \in DOMAIN leases /\ leases[k] = l /\ q \in At(macPodKeys, k)
      BY <1>4 DEF HasPodDHCPLease
    <2>2. macPodKeys[k] # {p} BY <1>4, <2>1 DEF At
    <2>3. k \in DOMAIN leases' /\ leases'[k] = l BY <2>1, <2>2, DeleteLeaves
    <2> QED BY <1>1, <1>2, <1>4, <2>3 DEF HasPodDHCPLease
  <1> QED BY <1>3, <1>4

LEMMA DeleteLeases == ASSUME TypeOK, IndexesMirror, PodTyped, Leasing, HandlerDeletePod PROVE Leasing'
  <1> DEFINE e == NextEvent
             w == NextEvent.pod
  <1>1. /\ task = None /\ e.op = "DELETE" /\ UNCHANGED <<task, podLister, podNotes>>
        /\ queue' = Handled(Get(queue), e, FALSE)
    BY DEF HandlerDeletePod, Idle, informer
  <1>2. /\ e \in PodEvent /\ QueueOK(Get(queue), PodEvent) /\ e \in Get(queue).running
        /\ Pending(Get(queue)) = Pending(queue) /\ e \in Pending(queue)
    BY IdleItem DEF HandlerDeletePod
  <1>3. w \in Pods /\ e = [pod |-> w, op |-> "DELETE"] BY <1>1, <1>2 DEF PodEvent
  <1>4. /\ \A q : Bound(q)' = IF q = w THEN {} ELSE Bound(q)
        /\ \A k, q, l : HasPodDHCPLease(k, q, l) /\ q # w => HasPodDHCPLease(k, q, l)'
    <2>1. CASE w \in DOMAIN podkeyMACs \cap DOMAIN podkeySubnets
      <3>1. DeletePodDHCPLease(w) BY <2>1 DEF HandlerDeletePod
      <3> QED BY <1>3, <3>1, DeleteKnown
    <2>2. CASE w \notin DOMAIN podkeyMACs \cap DOMAIN podkeySubnets
      <3>1. UNCHANGED store BY <2>2 DEF HandlerDeletePod
      <3>2. w \notin DOMAIN podkeyMACs BY <2>2 DEF IndexesMirror
      <3> QED BY <3>1, <3>2 DEF store, indexes, Bound, At, HasPodDHCPLease
    <2> QED BY <2>1, <2>2
  <1>5. podLister[w].phase = "gone" BY <1>2, <1>3 DEF Leasing, PodLeases, Due
  <1> HIDE DEF e, w
  <1>6. \A p, op : /\ Due(p, op)' => Due(p, op)
                   /\ Due(p, op) /\ e # [pod |-> p, op |-> op] => Due(p, op)'
    BY <1>1, <1>2, FinishDue
  <1>7. ASSUME NEW p \in Pods PROVE PodLeases(p)' /\ TaskLeases(p)'
    <2>1. ~AtWork(p)' BY <1>1 DEF AtWork
    <2>2. TaskLeases(p)' BY <2>1 DEF TaskLeases
    <2>3. CASE p = w
      <3>1. Bound(p)' = {} BY <1>4, <2>3
      <3>2. podLister'[p].phase = "gone" BY <1>1, <1>5, <2>3
      <3>3. podLister'[p].phase # "created" /\ podLister'[p].phase # "attached" BY <3>2
      <3>4. PodLeases(p)' BY <2>1, <3>1, <3>2, <3>3 DEF PodLeases
      <3> QED BY <2>2, <3>4
    <2>4. CASE p # w
      <3>1. \A op : Due(p, op)' <=> Due(p, op) BY <1>3, <1>6, <2>4
      <3>2. Bound(p)' = Bound(p) /\ \A n : Known(p, n) => Known(p, n)' BY <1>4, <2>4 DEF Known
      <3> QED BY <1>1, <2>1, <2>2, <3>1, <3>2, PodKept DEF Leasing
    <2> QED BY <2>2, <2>3, <2>4
  <1> QED BY <1>7 DEF Leasing

-----------------------------------------------------------------------------
LEMMA LeasesStep == Agree /\ PodInv /\ Leasing /\ [PodNext]_podVars => Leasing'
  <1> SUFFICES ASSUME Agree, PodInv, Leasing, [PodNext]_podVars PROVE Leasing'
    OBVIOUS
  <1>1. CASE UNCHANGED podVars
    <2>1. UNCHANGED <<leases, indexes, task, queue, podLister, podNotes>>
      BY <1>1 DEF podVars, store, informer
    <2>2. ASSUME NEW p \in Pods PROVE PodLeases(p)' /\ TaskLeases(p)'
      <3>1. Bound(p)' = Bound(p) /\ \A n : Known(p, n) => Known(p, n)' BY <2>1, StoreKept
      <3>2. \A op : Due(p, op)' <=> Due(p, op) BY <2>1 DEF Due
      <3>3. AtWork(p)' <=> AtWork(p) BY <2>1 DEF AtWork
      <3> QED BY <2>1, <3>1, <3>2, <3>3, PodKept, TaskKept DEF Leasing
    <2> QED BY <2>2 DEF Leasing
  <1>2. CASE PodWorker
    BY <1>2, SkipLeases, TakeLeases, NetworkLeases, BindLeases, EndLeases, DeleteLeases
       DEF PodWorker, PodInv
  <1> QED BY <1>1, <1>2, PodEdits, QueueLeases, RestartLeases DEF PodNext, PodInv

LEMMA LeasesInit == PodInit => Leasing
  <1> SUFFICES ASSUME PodInit PROVE Leasing OBVIOUS
  <1>1. \A p : Bound(p) = {} /\ ~AtWork(p)
    BY DEF PodInit, Init, Bound, At, EmptyMap, AtWork
  <1>2. \A p, op : ~Due(p, op) BY DEF PodInit, Due, ToSet, Pending, EmptyQueue
  <1>3. \A p \in Pods : podLister[p].phase = "created" BY DEF PodInit, Created
  <1> QED BY <1>1, <1>2, <1>3 DEF Leasing, PodLeases, TaskLeases

LEMMA LeasesSettle ==
  ASSUME DistinctMacs, PodTyped, Leasing
  PROVE  LeasesFollow
  <1> SUFFICES ASSUME NEW p \in Pods, Settled(p)
               PROVE  /\ \A n \in Asked(p) : Known(p, n)
                      /\ Bound(p) = {n.mac : n \in Asked(p)}
    BY DEF LeasesFollow, Known, Bound
  <1>1. \A op : ~Due(p, op) BY DEF Due, Settled, ToSet
  <1>2. PodLeases(p) /\ (podLister[p].phase # "attached" => Asked(p) = {})
    BY DEF Leasing, Asked
  <1>3. CASE podLister[p].phase = "attached"
    <2>1. /\ \A m \in Bound(p) : \E n \in Asked(p) : n.mac = m /\ Known(p, n)
          /\ \A n \in Asked(p) : n.mac \in Bound(p)
      BY <1>1, <1>2, <1>3 DEF PodLeases
    <2>2. \A n, o \in Asked(p) : n.mac = o.mac => n = o
      BY <1>2, <1>3 DEF PodLeases, DistinctMacs, Asked
    <2>3. \A n \in Asked(p) : Known(p, n) BY <2>1, <2>2
    <2> QED BY <2>1, <2>3
  <1>4. CASE podLister[p].phase = "created" BY <1>2, <1>4 DEF PodLeases
  <1>5. CASE podLister[p].phase = "gone" BY <1>1, <1>2, <1>5 DEF PodLeases
  <1>6. podLister[p].phase \in {"created", "attached", "gone"} BY DEF PodTyped
  <1> QED BY <1>3, <1>4, <1>5, <1>6

\* If pods that share a MAC address report the same lease for it, and no pod asks
\* for two under one, then the leases of every pod about which nothing is under way
\* are those its network status asks for, and none once it is gone.
THEOREM LeasesTheorem == PodSpec => [](Agree /\ DistinctMacs => LeasesFollow)
  <1>1. PodInit => Leasing BY LeasesInit
  <1>2. PodInv /\ (Agree => Leasing) => (Agree /\ DistinctMacs => LeasesFollow)
    BY LeasesSettle DEF PodInv
  <1>3. PodInv /\ (Agree => Leasing) /\ [PodNext]_podVars => (Agree => Leasing)'
    BY LeasesStep
  <1> QED BY <1>1, <1>2, <1>3, PodInvariance, PTL DEF PodSpec

-----------------------------------------------------------------------------
(***************************************************************************)
(* The gauges follow the leases.                                           *)
(***************************************************************************)
ConfNow(s) == IF s \in DOMAIN subnets THEN subnets[s] ELSE None

\* The pod has an item that is not yet taken, or the worker has still to report its
\* lease of m: it has not read the configuration, or what it read is current.
Waits(q) == \E op \in {"ADD", "UPDATE"} :
              [pod |-> q, op |-> op] \in ToSet(podNotes) \cup Waiting(queue)
ToDo(q, m) ==
  /\ AtWork(q) /\ task.todo # <<>>
  /\ \/ task.step = "report" /\ Network.mac = m /\ task.conf = ConfNow(task.lease.net)
     \/ \E n \in ToSet(task.todo) : n.mac = m /\ ~Leaseless(n) /\ (task.step = "report" => n # Network)
Reports(q, m) == Waits(q) \/ ToDo(q, m)

HasKey(q, k) == VM[q] = k.vm /\ k.mac \in Bound(q)

\* The gauge is about to be written again, or to go with a pod that has gone.
Coming(k) ==
  \/ changed = leases[k.mac].net
  \/ \E q \in Pods : HasKey(q, k) /\ podLister[q].phase = "attached" /\ Reports(q, k.mac)
Ending(vm) == \E q \in Pods : VM[q] = vm /\ Due(q, "DELETE")

Shown(k) ==
  /\ leases[k.mac].net \in DOMAIN subnets
  /\ gauge[k] = [lease |-> leases[k.mac], conf |-> subnets[leases[k.mac].net]]

CurrentInv ==
  \A k \in DOMAIN gauge :
    (\E q \in Pods : HasKey(q, k) /\ k = Key(q, k.mac)) /\ (Shown(k) \/ Coming(k) \/ Ending(k.vm))

Gone(vm) == \E q \in Pods : VM[q] = vm /\ podLister[q].phase = "gone"

CompleteInv ==
  \A p \in Pods, m \in Macs :
    LET k == Key(p, m) IN
    HasKey(p, k) /\ podLister[p].phase = "attached" /\ leases[m].net \in DOMAIN subnets =>
      Gone(VM[p]) \/ k \in DOMAIN gauge \/ Coming(k)

\* What the worker has bound and read is so, or its pod comes up again.
ReportInv ==
  task # None /\ task.step # "bind" =>
    /\ task.todo # <<>> /\ Network.mac \in Bound(task.ev.pod) /\ leases[Network.mac] = task.lease
    /\ ~Leaseless(Network)
    /\ task.step = "report" =>
         \/ task.conf = ConfNow(task.lease.net)
         \/ changed = task.lease.net
         \/ [pod |-> task.ev.pod, op |-> "UPDATE"] \in Waiting(queue)

GaugeInv == CurrentInv /\ CompleteInv /\ ReportInv

LEMMA CarriedLease ==
  ASSUME IndexesMirror, NEW q, NEW m \in Bound(q)
  PROVE  m \in DOMAIN leases /\ q \in At(macPodKeys, m)
  <1>1. q \in At(macPodKeys, m) BY MirrorAt DEF IndexesMirror, Bound
  <1> QED BY <1>1 DEF IndexesMirror, At

\* A change of the subnet of a lease notifies the pods that carry it.
LEMMA CarrierNotified ==
  ASSUME Agree, IndexesMirror, NotifyReachesHolders, NEW q, NEW m \in Bound(q)
  PROVE  q \in GetPodKeys(leases[m].net)
  <1>1. m \in DOMAIN leases /\ q \in At(macPodKeys, m) BY CarriedLease
  <1> QED BY <1>1 DEF NotifyReachesHolders, IndexesMirror, At

\* A pod that has a lease, or the worker, is attached or its deletion is under way.
LEMMA CarrierPhase ==
  ASSUME PodTyped, Leasing, NEW q \in Pods, Bound(q) # {} \/ AtWork(q)
  PROVE  podLister[q].phase = "attached" \/ (podLister[q].phase = "gone" /\ Due(q, "DELETE"))
  <1>1. podLister[q].phase \in {"created", "attached", "gone"} BY DEF PodTyped
  <1> QED BY <1>1 DEF Leasing, PodLeases

\* A step that leaves the pods, the store and the gauges, and nothing unreported.
LEMMA GaugeKept ==
  ASSUME CurrentInv, CompleteInv, UNCHANGED <<podLister, leases, indexes, subnets, changed, gauge>>,
         \A q \in Pods : podLister[q].phase = "attached" =>
           \A m \in Bound(q) : Reports(q, m) => Reports(q, m)',
         \A q \in Pods : Due(q, "DELETE") => Due(q, "DELETE")'
  PROVE  CurrentInv' /\ CompleteInv'
  <1>1. \A q : Bound(q)' = Bound(q) BY DEF Bound, indexes
  <1>2. \A q, k : HasKey(q, k)' <=> HasKey(q, k) BY <1>1 DEF HasKey
  <1>3. ASSUME NEW k, Coming(k) PROVE Coming(k)'
    <2>1. CASE changed = leases[k.mac].net BY <2>1 DEF Coming
    <2>2. ASSUME NEW q \in Pods, HasKey(q, k), podLister[q].phase = "attached", Reports(q, k.mac)
          PROVE  Coming(k)'
      <3>1. k.mac \in Bound(q) BY <2>2 DEF HasKey
      <3>2. Reports(q, k.mac)' BY <2>2, <3>1
      <3> QED BY <1>2, <2>2, <3>2 DEF Coming
    <2> QED BY <1>3, <2>1, <2>2 DEF Coming
  <1>4. \A vm : Ending(vm) => Ending(vm)' BY DEF Ending
  <1>5. \A k : Shown(k) => Shown(k)' BY DEF Shown
  <1>6. CurrentInv' BY <1>2, <1>3, <1>4, <1>5 DEF CurrentInv
  <1>7. \A vm : Gone(vm)' <=> Gone(vm) BY DEF Gone
  <1>8. CompleteInv' BY <1>2, <1>3, <1>7 DEF CompleteInv, Key
  <1> QED BY <1>6, <1>8

LEMMA GaugeInit == PodInit => GaugeInv
  BY DEF PodInit, Init, GaugeInv, CurrentInv, CompleteInv, ReportInv, HasKey, Bound, At, EmptyMap

LEMMA GaugeRestart == Restart => GaugeInv'
  BY DEF Restart, GaugeInv, CurrentInv, CompleteInv, ReportInv, HasKey, Bound, At, EmptyMap

-----------------------------------------------------------------------------
LEMMA GaugeEdits ==
  ASSUME PodInv, Leasing, GaugeInv, NEW p \in Pods,
         Delete(p) \/ \E status \in Statuses[p] : Attach(p, status)
  PROVE  GaugeInv'
  <1>1. PICK note \in PodEvent :
          /\ podNotes' = podNotes \o <<note>>
          /\ \/ note = [pod |-> p, op |-> "DELETE"] /\ podLister'[p].phase = "gone"
             \/ podLister[p].phase = "created" /\ podLister'[p].phase = "attached"
    <2>1. \A op \in {"ADD", "DELETE"} : [pod |-> p, op |-> op] \in PodEvent BY DEF PodEvent
    <2>2. CASE Delete(p)
      <3>1. podNotes' = podNotes \o <<[pod |-> p, op |-> "DELETE"]>> BY <2>2 DEF Delete, PodChange
      <3>2. podLister'[p].phase = "gone" BY <2>2 DEF Delete, PodChange, PodInv, PodTyped
      <3> QED BY <2>1, <3>1, <3>2
    <2>3. CASE \E status \in Statuses[p] : Attach(p, status)
      <3>1. podNotes' = podNotes \o <<[pod |-> p, op |-> "ADD"]>> BY <2>3 DEF Attach, PodChange
      <3>2. podLister[p].phase = "created" /\ podLister'[p].phase = "attached"
        BY <2>3 DEF Attach, PodChange, PodInv, PodTyped
      <3> QED BY <2>1, <3>1, <3>2
    <2> QED BY <2>2, <2>3
  <1>2. ToSet(podNotes') = ToSet(podNotes) \cup {note} BY <1>1, NoteSet DEF PodInv, PodTyped
  <1>3. /\ UNCHANGED <<leases, indexes, subnets, task, queue, gauge, changed>>
        /\ \A q \in Pods : q # p => podLister'[q] = podLister[q]
    BY DEF Delete, Attach, PodChange, store, PodInv, PodTyped
  <1>4. \A q : Bound(q)' = Bound(q) BY <1>3 DEF Bound, indexes
  <1>5. \A q, k : HasKey(q, k)' <=> HasKey(q, k) BY <1>4 DEF HasKey
  <1>6. \A q, op : Due(q, op) => Due(q, op)' BY <1>2, <1>3 DEF Due
  <1>7. \A q, m : Reports(q, m) => Reports(q, m)'
    BY <1>2, <1>3 DEF Reports, Waits, ToDo, AtWork, Network, ConfNow
  <1>8. podLister[p].phase = "created" => \A k : ~HasKey(p, k)
    BY DEF Leasing, PodLeases, HasKey
  <1>9. ASSUME NEW k, Coming(k) PROVE Coming(k)' \/ (Ending(k.vm)' /\ Gone(k.vm)')
    <2>1. CASE changed = leases[k.mac].net BY <1>3, <2>1 DEF Coming
    <2>2. ASSUME NEW q \in Pods, HasKey(q, k), podLister[q].phase = "attached", Reports(q, k.mac)
          PROVE  Coming(k)' \/ (Ending(k.vm)' /\ Gone(k.vm)')
      <3>1. CASE podLister'[q].phase = "attached" BY <1>5, <1>7, <2>2, <3>1 DEF Coming
      <3>2. CASE podLister'[q].phase # "attached"
        <4>1. q = p /\ note = [pod |-> p, op |-> "DELETE"] /\ podLister'[p].phase = "gone"
          BY <1>1, <1>3, <2>2, <3>2
        <4>2. Due(p, "DELETE")' BY <1>2, <4>1 DEF Due
        <4> QED BY <2>2, <4>1, <4>2 DEF Ending, Gone, HasKey
      <3> QED BY <3>1, <3>2
    <2> QED BY <1>9, <2>1, <2>2 DEF Coming
  <1>10. CurrentInv'
    <2>1. \A k : Shown(k) => Shown(k)' BY <1>3 DEF Shown
    <2>2. \A vm : Ending(vm) => Ending(vm)' BY <1>6 DEF Ending
    <2> QED BY <1>3, <1>5, <1>9, <2>1, <2>2 DEF GaugeInv, CurrentInv
  <1>11. CompleteInv'
    <2> SUFFICES ASSUME NEW q \in Pods, NEW m \in Macs, HasKey(q, Key(q, m)),
                        podLister'[q].phase = "attached", leases[m].net \in DOMAIN subnets
                 PROVE  Gone(VM[q])' \/ Key(q, m) \in DOMAIN gauge \/ Coming(Key(q, m))'
      BY <1>3, <1>5 DEF CompleteInv, Key
    <2>1. podLister[q].phase = "attached" BY <1>1, <1>3, <1>8
    <2>2. Gone(VM[q]) \/ Key(q, m) \in DOMAIN gauge \/ Coming(Key(q, m))
      BY <2>1 DEF GaugeInv, CompleteInv
    <2>3. \A vm : Gone(vm) => Gone(vm)'
      <3>1. podLister[p].phase # "gone" BY DEF Delete, Attach
      <3> QED BY <1>3, <3>1 DEF Gone
    <2>4. Key(q, m).vm = VM[q] BY DEF Key
    <2> QED BY <1>9, <2>2, <2>3, <2>4
  <1>12. ReportInv' BY <1>3, <1>4 DEF GaugeInv, ReportInv, Network, ConfNow
  <1> QED BY <1>10, <1>11, <1>12 DEF GaugeInv

\* An item on its way to the worker.
LEMMA GaugeQueue ==
  ASSUME PodInv, GaugeInv, PodDeliver \/ \E e \in queue.later : PodRetryTimer(e)
  PROVE  GaugeInv'
  <1>1. UNCHANGED <<podLister, leases, indexes, subnets, changed, gauge, task>>
    BY DEF PodDeliver, PodRetryTimer, store, informer
  <1>2. /\ ToSet(podNotes) \cup Waiting(queue) \subseteq ToSet(podNotes') \cup Waiting(queue')
        /\ Waiting(queue) \subseteq Waiting(queue') /\ queue'.running = queue.running
    <2>1. CASE PodDeliver
      <3>1. /\ Head(podNotes) \in PodEvent
            /\ ToSet(podNotes) = {Head(podNotes)} \cup ToSet(podNotes')
        BY <2>1, TailSet DEF PodDeliver, PodInv, PodTyped
      <3>2. /\ queue'.dirty = queue.dirty \cup {Head(podNotes)}
            /\ queue'.later = queue.later /\ queue'.running = queue.running
        BY <2>1, <3>1, AddSets DEF PodDeliver, PodInv, PodTyped, QueueOK
      <3> QED BY <3>1, <3>2 DEF Waiting
    <2>2. CASE \E e \in queue.later : PodRetryTimer(e)
      <3>1. PICK e \in queue.later : queue' = Expire(queue, e) /\ podNotes' = podNotes
        BY <2>2 DEF PodRetryTimer, informer
      <3>2. /\ queue'.dirty = queue.dirty \cup {e} /\ queue'.later = queue.later \ {e}
            /\ queue'.running = queue.running
        BY <3>1, ExpireSets DEF PodInv, PodTyped
      <3> QED BY <3>1, <3>2 DEF Waiting
    <2> QED BY <2>1, <2>2
  <1>3. \A q : Due(q, "DELETE") => Due(q, "DELETE")' BY <1>2 DEF Due, Pending, Waiting
  <1>4. \A q, m : Reports(q, m) => Reports(q, m)'
    BY <1>1, <1>2 DEF Reports, Waits, ToDo, AtWork, Network, ConfNow
  <1>5. CurrentInv' /\ CompleteInv' BY <1>1, <1>3, <1>4, GaugeKept DEF GaugeInv
  <1>6. ReportInv' BY <1>1, <1>2 DEF GaugeInv, ReportInv, Network, ConfNow, Bound, indexes
  <1> QED BY <1>5, <1>6 DEF GaugeInv

\* An item that is skipped is one of a pod that is not attached, or comes back.
LEMMA GaugeSkip == ASSUME PodInv, Leasing, GaugeInv, PodSkip PROVE GaugeInv'
  <1> DEFINE e == NextEvent
             failed == podLister[e.pod].phase = "attached"
  <1>1. /\ task = None /\ UNCHANGED <<podLister, leases, indexes, subnets, changed, gauge, task, podNotes>>
        /\ queue' = Handled(Get(queue), e, failed) /\ e.op # "DELETE"
    BY DEF PodSkip, Idle, store, informer
  <1>2. /\ QueueOK(Get(queue), PodEvent) /\ e \in Get(queue).running
        /\ Pending(Get(queue)) = Pending(queue)
    BY IdleItem DEF PodSkip, PodInv
  <1>3. Get(queue).dirty = queue.dirty \ {e} /\ Get(queue).later = queue.later
    BY GetSets DEF PodSkip, Idle, NextEvent, PodInv, PodTyped
  <1>4. failed \in BOOLEAN OBVIOUS
  <1> HIDE DEF e, failed
  <1>5. /\ queue'.dirty = queue.dirty \ {e}
        /\ queue'.later = queue.later \cup (IF failed THEN {e} ELSE {})
    BY <1>1, <1>2, <1>3, <1>4, HandledSets
  <1>6. ASSUME NEW q \in Pods, podLister[q].phase = "attached", Waits(q) PROVE Waits(q)'
    <2>1. PICK op \in {"ADD", "UPDATE"} : [pod |-> q, op |-> op] \in ToSet(podNotes) \cup Waiting(queue)
      BY <1>6 DEF Waits
    <2>2. [pod |-> q, op |-> op] = e => failed BY <1>6 DEF failed
    <2>3. [pod |-> q, op |-> op] \in ToSet(podNotes') \cup Waiting(queue')
      BY <1>1, <1>5, <2>1, <2>2 DEF Waiting
    <2> QED BY <2>3 DEF Waits
  <1>7. \A q, m : ~ToDo(q, m) BY <1>1 DEF ToDo, AtWork
  <1>8. \A q : Due(q, "DELETE") => Due(q, "DELETE")' BY <1>1, <1>2, <1>4, FinishDue
  <1>9. CurrentInv' /\ CompleteInv' BY <1>1, <1>6, <1>7, <1>8, GaugeKept DEF GaugeInv, Reports
  <1>10. ReportInv' BY <1>1 DEF ReportInv
  <1> QED BY <1>9, <1>10 DEF GaugeInv

\* The worker that takes an item has all the networks of its pod to do.
LEMMA GaugeTake == ASSUME PodInv, Leasing, GaugeInv, PodTake PROVE GaugeInv'
  <1> DEFINE e == NextEvent
  <1>1. /\ task = None /\ UNCHANGED <<podLister, leases, indexes, subnets, changed, gauge, podNotes>>
        /\ queue' = Get(queue) /\ podLister[e.pod].phase = "attached" /\ Status(e.pod).parses
        /\ task' = [ev |-> e, todo |-> Status(e.pod).networks, step |-> "bind",
                    lease |-> None, conf |-> None]
    BY DEF PodTake, Idle, store, informer
  <1>2. /\ e \in PodEvent /\ Pending(Get(queue)) = Pending(queue)
    BY IdleItem DEF PodTake, PodInv
  <1>3. Get(queue).dirty = queue.dirty \ {e} /\ Get(queue).later = queue.later
    BY GetSets DEF PodTake, Idle, NextEvent, PodInv, PodTyped
  <1> HIDE DEF e
  <1>4. task' # None
    <2>1. e.pod \in Pods BY <1>2 DEF PodEvent
    <2>2. Status(e.pod) \in VMStatus BY <1>1, <2>1 DEF PodInv, PodTyped
    <2>3. Status(e.pod).networks \in Seq(NetworkStatus) BY <2>2 DEF VMStatus
    <2>4. task' \in Task BY <1>1, <1>2, <2>3 DEF Task
    <2> QED BY <2>4, TaskAssumption
  <1>5. ASSUME NEW q \in Pods, podLister[q].phase = "attached", NEW m \in Bound(q), Reports(q, m)
        PROVE  Reports(q, m)'
    <2>1. Waits(q) BY <1>1, <1>5 DEF Reports, ToDo, AtWork
    <2>2. CASE q = e.pod
      <3>1. PICK n \in Asked(q) : n.mac = m BY <1>5 DEF Leasing, PodLeases
      <3>2. n \in ToSet(Status(q).networks) /\ ~Leaseless(n) BY <3>1 DEF Asked
      <3>3. AtWork(q)' /\ n \in ToSet(task'.todo) /\ task'.step = "bind"
        BY <1>1, <1>4, <2>2, <3>2 DEF AtWork
      <3>4. task'.todo # <<>> BY <3>3 DEF ToSet
      <3> QED BY <3>1, <3>2, <3>3, <3>4 DEF Reports, ToDo
    <2>3. CASE q # e.pod
      <3>1. PICK op \in {"ADD", "UPDATE"} : [pod |-> q, op |-> op] \in ToSet(podNotes) \cup Waiting(queue)
        BY <2>1 DEF Waits
      <3>2. [pod |-> q, op |-> op] # e BY <2>3
      <3>3. [pod |-> q, op |-> op] \in ToSet(podNotes') \cup Waiting(queue')
        BY <1>1, <1>3, <3>1, <3>2 DEF Waiting
      <3> QED BY <3>3 DEF Reports, Waits
    <2> QED BY <2>2, <2>3
  <1>6. \A q : Due(q, "DELETE") => Due(q, "DELETE")' BY <1>1, <1>2 DEF Due
  <1>7. CurrentInv' /\ CompleteInv' BY <1>1, <1>5, <1>6, GaugeKept DEF GaugeInv
  <1>8. ReportInv' BY <1>1 DEF ReportInv
  <1> QED BY <1>7, <1>8 DEF GaugeInv

\* The worker moves on past a network that gets no lease, or reads a configuration.
LEMMA GaugeSteps == ASSUME PodInv, Leasing, GaugeInv, SkipNetwork \/ ReadSubnet PROVE GaugeInv'
  <1>1. UNCHANGED <<podLister, leases, indexes, subnets, changed, gauge, podNotes, queue>>
    BY DEF SkipNetwork, ReadSubnet, store, informer
  <1>2. task # None /\ task \in Task /\ task.todo \in Seq(NetworkStatus) /\ task.todo # <<>>
    BY DEF SkipNetwork, ReadSubnet, Working, PodInv, PodTyped, Task
  <1>3. ToSet(task.todo) = {Network} \cup ToSet(Tail(task.todo)) BY <1>2, TailSet DEF Network
  <1>4. task' # None
    <2>1. PodTyped' BY PodTypedStep DEF PodInv, PodNext, PodWorker
    <2>2. queue'.running = {task.ev} BY <1>1, <1>2 DEF PodInv, PodTyped
    <2> QED BY <2>1, <2>2 DEF PodTyped
  <1>5. \A q : Waits(q)' <=> Waits(q) BY <1>1 DEF Waits
  <1>6. \A q : Due(q, "DELETE") => Due(q, "DELETE")' BY <1>1 DEF Due
  <1>7. CASE SkipNetwork
    <2>1. task'.ev = task.ev /\ task'.todo = Tail(task.todo) /\ task'.step = "bind" /\ task.step = "bind"
      BY <1>2, <1>7 DEF SkipNetwork, Working, Task
    <2>2. Leaseless(Network) BY <1>7 DEF SkipNetwork
    <2>3. ASSUME NEW q, NEW m, ToDo(q, m) PROVE ToDo(q, m)'
      <3>1. PICK n \in ToSet(task.todo) : n.mac = m /\ ~Leaseless(n) BY <2>1, <2>3 DEF ToDo
      <3>2. n \in ToSet(task'.todo) BY <1>3, <2>1, <2>2, <3>1
      <3>3. task'.todo # <<>> BY <3>2 DEF ToSet
      <3>4. AtWork(q)' BY <1>4, <2>1, <2>3 DEF ToDo, AtWork
      <3> QED BY <2>1, <3>1, <3>2, <3>3, <3>4 DEF ToDo
    <2>4. CurrentInv' /\ CompleteInv' BY <1>1, <1>5, <1>6, <2>3, GaugeKept DEF GaugeInv, Reports
    <2>5. ReportInv' BY <2>1 DEF ReportInv
    <2> QED BY <2>4, <2>5 DEF GaugeInv
  <1>8. CASE ReadSubnet
    <2>1. /\ task'.ev = task.ev /\ task'.todo = task.todo /\ task'.step = "report" /\ task.step = "read"
          /\ task'.lease = task.lease /\ task'.conf = ConfNow(task.lease.net)
      BY <1>2, <1>8 DEF ReadSubnet, Working, Task, ConfNow
    <2>2. PICK b : b = Network OBVIOUS
    <2>3. Network' = b BY <2>1, <2>2 DEF Network
    <2>4. PICK s : s = task.lease.net OBVIOUS
    <2>5. task'.conf = ConfNow(s)' /\ task'.lease.net = s BY <1>1, <2>1, <2>4 DEF ConfNow
    <2>6. ASSUME NEW q, NEW m, ToDo(q, m) PROVE ToDo(q, m)'
      <3>1. PICK n \in ToSet(task.todo) : n.mac = m /\ ~Leaseless(n) BY <2>1, <2>6 DEF ToDo
      <3>2. AtWork(q)' /\ task'.todo # <<>> BY <1>2, <1>4, <2>1, <2>6 DEF ToDo, AtWork
      <3>3. CASE n = b
        <4>1. task'.conf = ConfNow(task.lease.net)' BY <2>4, <2>5, <1>1, <2>1 DEF ConfNow
        <4> QED BY <2>1, <2>3, <3>1, <3>2, <3>3, <4>1 DEF ToDo
      <3>4. CASE n # b BY <2>1, <2>3, <3>1, <3>2, <3>4 DEF ToDo
      <3> QED BY <3>3, <3>4
    <2>7. CurrentInv' /\ CompleteInv' BY <1>1, <1>5, <1>6, <2>6, GaugeKept DEF GaugeInv, Reports
    <2>8. /\ task.todo # <<>> /\ Network.mac \in Bound(task.ev.pod)
          /\ leases[Network.mac] = task.lease /\ ~Leaseless(Network)
      BY <1>2, <2>1 DEF GaugeInv, ReportInv
    <2>9. ReportInv' BY <1>1, <2>1, <2>2, <2>3, <2>8 DEF ReportInv, Bound, indexes, ConfNow
    <2> QED BY <2>7, <2>9 DEF GaugeInv
  <1> QED BY <1>7, <1>8

\* An item that is done has nothing left to report.
LEMMA GaugeEnd == ASSUME PodInv, Leasing, GaugeInv, PodEnd PROVE GaugeInv'
  <1> DEFINE e == task.ev
  <1>1. /\ UNCHANGED <<podLister, leases, indexes, subnets, changed, gauge, podNotes>>
        /\ task # None /\ task.todo = <<>> /\ task' = None /\ queue' = Handled(queue, e, FALSE)
    BY DEF PodEnd, store, informer
  <1>2. QueueOK(queue, PodEvent) /\ e \in queue.running BY <1>1 DEF PodInv, PodTyped
  <1>3. e.op # "DELETE"
    <2>1. e.pod \in Pods BY <1>1 DEF PodInv, PodTyped, Task, PodEvent
    <2> QED BY <1>1, <2>1 DEF Leasing, TaskLeases, AtWork
  <1> HIDE DEF e
  <1>4. Waiting(queue') = Waiting(queue)
    <2>1. queue'.dirty = queue.dirty /\ queue'.later = queue.later \cup (IF FALSE THEN {e} ELSE {})
      BY <1>1, <1>2, HandledSets
    <2> QED BY <2>1 DEF Waiting
  <1>5. \A q : Due(q, "DELETE") => Due(q, "DELETE")'
    <2>1. \A q, op : Due(q, op) /\ e # [pod |-> q, op |-> op] => Due(q, op)'
      BY <1>1, <1>2, FinishDue
    <2> QED BY <1>3, <2>1
  <1>6. \A q, m : Reports(q, m) => Reports(q, m)' BY <1>1, <1>4 DEF Reports, ToDo, Waits
  <1>7. CurrentInv' /\ CompleteInv' BY <1>1, <1>5, <1>6, GaugeKept DEF GaugeInv
  <1>8. ReportInv' BY <1>1 DEF ReportInv
  <1> QED BY <1>7, <1>8 DEF GaugeInv

-----------------------------------------------------------------------------
\* A carried lease is on a subnet.
LEMMA CarriedNet ==
  ASSUME TypeOK, IndexesMirror, NEW q, NEW m \in Bound(q)
  PROVE  leases[m].net \in Subnets /\ leases[m].net # None
  <1>1. m \in DOMAIN leases BY CarriedLease
  <1>2. leases[m] \in Lease BY <1>1, MapOfElim DEF TypeOK
  <1>3. leases[m].net \in Subnets BY <1>2 DEF Lease
  <1> QED BY <1>3, TaskAssumption

\* Keys and reports on a changed subnet wait for the notification, others are as before.
LEMMA GaugeSubnet == ASSUME PodInv, GaugeInv, NEW s \in Subnets, ChangeSubnet(s) PROVE GaugeInv'
  <1>1. /\ UNCHANGED <<podLister, podNotes, leases, indexes, queue, task, gauge>>
        /\ changed = None /\ changed' = s
    BY DEF ChangeSubnet, DeleteSubnet, AddOrUpdateSubnet, informer
  <1>2. \A t : t # s => (t \in DOMAIN subnets' <=> t \in DOMAIN subnets) /\ (t \in DOMAIN subnets => subnets'[t] = subnets[t])
    <2>1. CASE DeleteSubnet(s) BY <2>1, DropMembers DEF DeleteSubnet, Drop, Restrict
    <2>2. ASSUME NEW rev \in Revs, AddOrUpdateSubnet(s, rev)
          PROVE  \A t : t # s => (t \in DOMAIN subnets' <=> t \in DOMAIN subnets) /\ (t \in DOMAIN subnets => subnets'[t] = subnets[t])
      BY <2>2 DEF AddOrUpdateSubnet, Put
    <2> QED BY <2>1, <2>2 DEF ChangeSubnet
  <1>3. \A t : t # s => ConfNow(t)' = ConfNow(t)
    <2> SUFFICES ASSUME NEW t, t # s
                 PROVE  (IF t \in DOMAIN subnets' THEN subnets'[t] ELSE None) = ConfNow(t)
      BY DEF ConfNow
    <2> QED BY <1>2 DEF ConfNow
  <1>4. \A q : Bound(q)' = Bound(q) BY <1>1 DEF Bound, indexes
  <1>5. \A q, k : HasKey(q, k)' <=> HasKey(q, k) BY <1>4 DEF HasKey
  <1>6. Network' = Network /\ \A q : (Waits(q)' <=> Waits(q)) /\ (AtWork(q)' <=> AtWork(q))
    BY <1>1 DEF Network, Waits, AtWork
  <1>7. ASSUME NEW q \in Pods, NEW m \in Bound(q), leases[m].net # s, Reports(q, m)
        PROVE  Reports(q, m)'
    <2>1. CASE Waits(q) BY <1>6, <2>1 DEF Reports
    <2>2. CASE ToDo(q, m)
      <3>1. CASE task.step = "report" /\ Network.mac = m /\ task.conf = ConfNow(task.lease.net)
        <4>1. task.lease = leases[m] BY <2>2, <3>1 DEF GaugeInv, ReportInv, ToDo, AtWork
        <4>2. PICK t : t = task.lease.net OBVIOUS
        <4>3. ConfNow(t)' = ConfNow(t) /\ task'.lease.net = t BY <1>1, <1>3, <1>7, <4>1, <4>2
        <4>4. task'.conf = ConfNow(task.lease.net)' BY <1>1, <3>1, <4>2, <4>3 DEF ConfNow
        <4> QED BY <1>1, <1>6, <2>2, <3>1, <4>4 DEF ToDo, Reports
      <3>2. CASE \E n \in ToSet(task.todo) : n.mac = m /\ ~Leaseless(n) /\ (task.step = "report" => n # Network)
        BY <1>1, <1>6, <2>2, <3>2 DEF ToDo, Reports
      <3> QED BY <2>2, <3>1, <3>2 DEF ToDo
    <2> QED BY <1>7, <2>1, <2>2 DEF Reports
  <1>8. ASSUME NEW p \in Pods, NEW k, HasKey(p, k), Coming(k) PROVE Coming(k)'
    <2>1. leases[k.mac].net \in Subnets /\ leases[k.mac].net # None
      BY <1>8, CarriedNet DEF HasKey, PodInv
    <2>2. CASE leases[k.mac].net = s BY <1>1, <2>2 DEF Coming
    <2>3. CASE leases[k.mac].net # s
      <3>1. PICK q \in Pods : HasKey(q, k) /\ podLister[q].phase = "attached" /\ Reports(q, k.mac)
        BY <1>1, <1>8, <2>1 DEF Coming
      <3>2. Reports(q, k.mac)' BY <1>7, <2>3, <3>1 DEF HasKey
      <3> QED BY <1>1, <1>5, <3>1, <3>2 DEF Coming
    <2> QED BY <2>2, <2>3
  <1>9. CurrentInv'
    <2> SUFFICES ASSUME NEW k \in DOMAIN gauge
                 PROVE  (\E q \in Pods : HasKey(q, k)' /\ k = Key(q, k.mac)) /\ (Shown(k)' \/ Coming(k)' \/ Ending(k.vm)')
      BY <1>1 DEF CurrentInv
    <2>1. PICK p \in Pods : HasKey(p, k) /\ k = Key(p, k.mac) BY DEF GaugeInv, CurrentInv
    <2>2. Shown(k) \/ Coming(k) \/ Ending(k.vm) BY DEF GaugeInv, CurrentInv
    <2>3. Ending(k.vm) => Ending(k.vm)' BY <1>1 DEF Ending, Due
    <2>4. Shown(k) => Shown(k)' \/ Coming(k)'
      <3>1. CASE leases[k.mac].net = s BY <1>1, <3>1 DEF Coming
      <3>2. CASE leases[k.mac].net # s BY <1>1, <1>2, <3>2 DEF Shown
      <3> QED BY <3>1, <3>2
    <2> QED BY <1>5, <1>8, <2>1, <2>2, <2>3, <2>4
  <1>10. CompleteInv'
    <2> SUFFICES ASSUME NEW p \in Pods, NEW m \in Macs, HasKey(p, Key(p, m)),
                        podLister[p].phase = "attached", leases[m].net \in DOMAIN subnets'
                 PROVE  Gone(VM[p])' \/ Key(p, m) \in DOMAIN gauge \/ Coming(Key(p, m))'
      BY <1>1, <1>5 DEF CompleteInv, Key
    <2>1. CASE leases[m].net = s BY <1>1, <2>1 DEF Coming, Key
    <2>2. CASE leases[m].net # s
      <3>1. leases[m].net \in DOMAIN subnets BY <1>2, <2>2
      <3>2. Gone(VM[p]) \/ Key(p, m) \in DOMAIN gauge \/ Coming(Key(p, m))
        BY <3>1 DEF GaugeInv, CompleteInv
      <3>3. Gone(VM[p]) => Gone(VM[p])' BY <1>1 DEF Gone
      <3> QED BY <1>8, <3>2, <3>3
    <2> QED BY <2>1, <2>2
  <1>11. ReportInv'
    <2> SUFFICES ASSUME task # None, task.step # "bind"
                 PROVE  /\ task.todo # <<>> /\ Network.mac \in Bound(task.ev.pod)
                        /\ leases[Network.mac] = task.lease /\ ~Leaseless(Network)
                        /\ task.step = "report" =>
                             \/ task'.conf = ConfNow(task.lease.net)'
                             \/ s = task.lease.net
                             \/ [pod |-> task.ev.pod, op |-> "UPDATE"] \in Waiting(queue)
      BY <1>1, <1>4, <1>6 DEF ReportInv, Bound, indexes, ConfNow
    <2>1. /\ task.todo # <<>> /\ Network.mac \in Bound(task.ev.pod)
          /\ leases[Network.mac] = task.lease /\ ~Leaseless(Network)
          /\ task.step = "report" =>
               \/ task.conf = ConfNow(task.lease.net)
               \/ changed = task.lease.net
               \/ [pod |-> task.ev.pod, op |-> "UPDATE"] \in Waiting(queue)
      BY DEF GaugeInv, ReportInv
    <2>2. changed # task.lease.net BY <1>1, <2>1, CarriedNet DEF PodInv
    <2>3. PICK t : t = task.lease.net OBVIOUS
    <2>4. task.conf = ConfNow(t) /\ t # s => task'.conf = ConfNow(task.lease.net)'
      <3>1. t # s => ConfNow(t)' = ConfNow(t) BY <1>3
      <3> QED BY <1>1, <2>3, <3>1 DEF ConfNow
    <2> QED BY <2>1, <2>2, <2>3, <2>4
  <1> QED BY <1>9, <1>10, <1>11 DEF GaugeInv

\* The pods that carry a lease on the changed subnet are queued; one that has gone is
\* about to be deleted.
LEMMA GaugeNotify == ASSUME Agree, PodInv, Leasing, GaugeInv, NotifyPods PROVE GaugeInv'
  <1> DEFINE E == {[pod |-> p, op |-> "UPDATE"] : p \in GetPodKeys(changed)}
  <1>1. /\ UNCHANGED <<podLister, podNotes, leases, indexes, subnets, task, gauge>>
        /\ changed # None /\ changed' = None
    BY DEF NotifyPods, informer, store
  <1>2. PICK order : queue' = AddAll(queue, E, order) BY DEF NotifyPods
  <1>3. queue'.dirty = queue.dirty \cup E /\ queue'.later = queue.later /\ queue'.running = queue.running
    BY <1>2 DEF AddAll, QueueOK, QueueOf, PodInv, PodTyped
  <1>4. \A q \in GetPodKeys(changed) : [pod |-> q, op |-> "UPDATE"] \in E OBVIOUS
  <1> HIDE DEF E
  <1>5. Waiting(queue') = Waiting(queue) \cup E BY <1>3 DEF Waiting
  <1>6. \A q : Bound(q)' = Bound(q) BY <1>1 DEF Bound, indexes
  <1>7. \A q, k : HasKey(q, k)' <=> HasKey(q, k) BY <1>6 DEF HasKey
  <1>8. \A q, m : Reports(q, m) => Reports(q, m)'
    BY <1>1, <1>5 DEF Reports, Waits, ToDo, AtWork, Network, ConfNow
  <1>9. \A q : Due(q, "DELETE") => Due(q, "DELETE")' BY <1>1, <1>3 DEF Due, Pending
  <1>10. ASSUME NEW q \in Pods, NEW m \in Bound(q), changed = leases[m].net
         PROVE  [pod |-> q, op |-> "UPDATE"] \in Waiting(queue') /\ Reports(q, m)'
    <2>1. q \in GetPodKeys(changed) BY <1>10, CarrierNotified DEF PodInv
    <2>2. [pod |-> q, op |-> "UPDATE"] \in Waiting(queue') BY <1>4, <1>5, <2>1
    <2> QED BY <2>2 DEF Reports, Waits
  <1>11. ASSUME NEW p \in Pods, NEW k, HasKey(p, k), Coming(k)
         PROVE  Coming(k)' \/ (Ending(k.vm)' /\ podLister[p].phase # "attached")
    <2>1. CASE changed = leases[k.mac].net
      <3>1. Reports(p, k.mac)' /\ Bound(p) # {} BY <1>10, <1>11, <2>1 DEF HasKey
      <3>2. CASE podLister[p].phase = "attached" BY <1>1, <1>7, <1>11, <3>1, <3>2 DEF Coming
      <3>3. CASE podLister[p].phase # "attached"
        <4>1. Due(p, "DELETE") BY <3>1, <3>3, CarrierPhase DEF PodInv
        <4> QED BY <1>9, <1>11, <3>3, <4>1 DEF Ending, HasKey
      <3> QED BY <3>2, <3>3
    <2>2. ASSUME NEW q \in Pods, HasKey(q, k), podLister[q].phase = "attached", Reports(q, k.mac)
          PROVE  Coming(k)'
      BY <1>1, <1>7, <1>8, <2>2 DEF Coming
    <2> QED BY <1>11, <2>1, <2>2 DEF Coming
  <1>12. CurrentInv'
    <2>1. \A k : Shown(k) => Shown(k)' BY <1>1 DEF Shown
    <2>2. \A vm : Ending(vm) => Ending(vm)' BY <1>9 DEF Ending
    <2> QED BY <1>1, <1>7, <1>11, <2>1, <2>2 DEF GaugeInv, CurrentInv
  <1>13. CompleteInv'
    <2>1. \A vm : Gone(vm) => Gone(vm)' BY <1>1 DEF Gone
    <2> QED BY <1>1, <1>7, <1>11, <2>1 DEF GaugeInv, CompleteInv
  <1>14. ReportInv'
    <2> SUFFICES ASSUME task # None, task.step # "bind"
                 PROVE  /\ task.todo # <<>> /\ Network.mac \in Bound(task.ev.pod)
                        /\ leases[Network.mac] = task.lease /\ ~Leaseless(Network)
                        /\ task.step = "report" =>
                             \/ task.conf = ConfNow(task.lease.net)
                             \/ [pod |-> task.ev.pod, op |-> "UPDATE"] \in Waiting(queue')
      BY <1>1, <1>6 DEF ReportInv, Bound, indexes, ConfNow, Network
    <2>1. /\ task.todo # <<>> /\ Network.mac \in Bound(task.ev.pod)
          /\ leases[Network.mac] = task.lease /\ ~Leaseless(Network)
          /\ task.step = "report" =>
               \/ task.conf = ConfNow(task.lease.net)
               \/ changed = task.lease.net
               \/ [pod |-> task.ev.pod, op |-> "UPDATE"] \in Waiting(queue)
      BY DEF GaugeInv, ReportInv
    <2>2. task.ev.pod \in Pods BY DEF PodInv, PodTyped, Task, PodEvent
    <2>3. changed = task.lease.net => [pod |-> task.ev.pod, op |-> "UPDATE"] \in Waiting(queue')
      BY <1>10, <2>1, <2>2
    <2> QED BY <1>5, <2>1, <2>3
  <1> QED BY <1>12, <1>13, <1>14 DEF GaugeInv

\* The worker binds a lease and has then to report it.  If another pod carries the
\* MAC address, the lease is the same.
LEMMA GaugeBind == ASSUME Agree, PodInv, Leasing, GaugeInv, Bind PROVE GaugeInv'
  <1>1. PICK s \in SubnetNames(Network) :
          /\ AddPodDHCPLease(Network.mac, task.ev.pod, [ip |-> Network.ip, net |-> s])
          /\ task' = [task EXCEPT !.lease = [ip |-> Network.ip, net |-> s], !.step = "read"]
    BY DEF Bind
  <1>2. PICK m, w, l : m = Network.mac /\ w = task.ev.pod /\ l = [ip |-> Network.ip, net |-> s]
    OBVIOUS
  <1>3. AddPodDHCPLease(m, w, l) BY <1>1, <1>2
  <1>4. \A q : \A k : k \in Bound(q)' <=> k \in Bound(q) \/ (q = w /\ k = m) BY <1>3, BindKnown
  <1>5. /\ leases'[m] = l /\ \A k \in DOMAIN leases : k # m => leases'[k] = leases[k]
        /\ \A q \in At(macPodKeys, m) \ {w} : leases[m] = l
    BY <1>3 DEF AddPodDHCPLease, Put
  <1>6. UNCHANGED <<podLister, podNotes, queue, gauge, changed, subnets>>
    BY <1>3 DEF Bind, informer, AddPodDHCPLease
  <1>7. task # None /\ task \in Task /\ task.todo # <<>> /\ task.todo \in Seq(NetworkStatus) /\ task.step = "bind"
    BY DEF Bind, Working, PodInv, PodTyped, Task
  <1>8. task'.ev = task.ev /\ task'.todo = task.todo /\ task'.step = "read" /\ task'.lease = l
    BY <1>1, <1>2, <1>7 DEF Task
  <1>9. task' # None BY <1>7, BindType, TaskAssumption DEF PodInv
  <1>10. Network \in ToSet(task.todo) /\ ~Leaseless(Network) BY <1>7, TailSet DEF Network, Bind
  <1>11. w \in Pods BY <1>2, <1>7 DEF Task, PodEvent
  <1>12. \A q, k : HasKey(q, k)' <=> HasKey(q, k) \/ (q = w /\ VM[w] = k.vm /\ k.mac = m)
    BY <1>4 DEF HasKey
  <1>13. \A q, n : Reports(q, n) => Reports(q, n)'
    <2>1. \A q : (Waits(q)' <=> Waits(q)) /\ (AtWork(q)' <=> AtWork(q))
      BY <1>6, <1>7, <1>8, <1>9 DEF Waits, AtWork
    <2> QED BY <1>7, <1>8, <2>1 DEF Reports, ToDo
  <1>14. ToDo(w, m)'
    <2>1. AtWork(w)' BY <1>2, <1>8, <1>9 DEF AtWork
    <2>2. PICK b : b = Network OBVIOUS
    <2>3. b \in ToSet(task'.todo) /\ b.mac = m /\ ~Leaseless(b) /\ task'.step # "report" /\ task'.todo # <<>>
      BY <1>2, <1>7, <1>8, <1>10, <2>2
    <2> QED BY <2>1, <2>3 DEF ToDo
  <1>15. \A vm : (Ending(vm)' <=> Ending(vm)) /\ (Gone(vm)' <=> Gone(vm))
    BY <1>6 DEF Ending, Due, Gone
  <1>16. ASSUME NEW k, VM[w] = k.vm, k.mac = m
         PROVE  Coming(k)' \/ (Ending(k.vm)' /\ podLister[w].phase = "gone")
    <2>1. HasKey(w, k)' BY <1>12, <1>16
    <2>2. CASE podLister[w].phase = "attached"
      BY <1>6, <1>11, <1>14, <1>16, <2>1, <2>2 DEF Coming, Reports
    <2>3. CASE podLister[w].phase # "attached"
      <3>1. AtWork(w) BY <1>2, <1>7 DEF AtWork
      <3>2. podLister[w].phase = "gone" /\ Due(w, "DELETE") BY <1>11, <2>3, <3>1, CarrierPhase DEF PodInv
      <3> QED BY <1>11, <1>15, <1>16, <3>2 DEF Ending
    <2> QED BY <2>2, <2>3
  <1>17. ASSUME NEW q \in Pods, NEW k, HasKey(q, k), ~(VM[w] = k.vm /\ k.mac = m)
         PROVE  leases'[k.mac] = leases[k.mac]
    <2>1. k.mac \in DOMAIN leases /\ q \in At(macPodKeys, k.mac)
      BY <1>17, CarriedLease DEF HasKey, PodInv
    <2>2. k.mac = m => q # w BY <1>17 DEF HasKey
    <2> QED BY <1>5, <2>1, <2>2
  <1>18. ASSUME NEW p \in Pods, NEW k, HasKey(p, k), ~(VM[w] = k.vm /\ k.mac = m)
         PROVE  (Shown(k) => Shown(k)') /\ (Coming(k) => Coming(k)')
    <2>1. leases'[k.mac] = leases[k.mac] BY <1>17, <1>18
    <2>2. Shown(k) => Shown(k)' BY <1>6, <2>1 DEF Shown
    <2>3. CASE changed = leases[k.mac].net BY <1>6, <2>1, <2>2, <2>3 DEF Coming
    <2>4. ASSUME NEW q \in Pods, HasKey(q, k), podLister[q].phase = "attached", Reports(q, k.mac)
          PROVE  Coming(k)'
      BY <1>6, <1>12, <1>13, <2>4 DEF Coming
    <2> QED BY <2>2, <2>3, <2>4 DEF Coming
  <1>19. CurrentInv'
    <2> SUFFICES ASSUME NEW k \in DOMAIN gauge
                 PROVE  (\E q \in Pods : HasKey(q, k)' /\ k = Key(q, k.mac)) /\ (Shown(k)' \/ Coming(k)' \/ Ending(k.vm)')
      BY <1>6 DEF CurrentInv
    <2>1. /\ \E q \in Pods : HasKey(q, k) /\ k = Key(q, k.mac)
          /\ Shown(k) \/ Coming(k) \/ Ending(k.vm)
      BY DEF GaugeInv, CurrentInv
    <2>2. CASE VM[w] = k.vm /\ k.mac = m BY <1>12, <1>16, <2>1, <2>2
    <2>3. CASE ~(VM[w] = k.vm /\ k.mac = m) BY <1>12, <1>15, <1>18, <2>1, <2>3
    <2> QED BY <2>2, <2>3
  <1>20. CompleteInv'
    <2> SUFFICES ASSUME NEW p \in Pods, NEW n \in Macs, HasKey(p, Key(p, n))',
                        podLister[p].phase = "attached", leases'[n].net \in DOMAIN subnets
                 PROVE  Gone(VM[p])' \/ Key(p, n) \in DOMAIN gauge \/ Coming(Key(p, n))'
      BY <1>6 DEF CompleteInv, Key
    <2>1. PICK k : k = Key(p, n) OBVIOUS
    <2>2. k.vm = VM[p] /\ k.mac = n BY <2>1 DEF Key
    <2>3. CASE VM[w] = k.vm /\ k.mac = m
      <3>1. Coming(k)' \/ podLister[w].phase = "gone" BY <1>16, <2>3
      <3>2. podLister[w].phase = "gone" => Gone(VM[p]) BY <1>11, <2>2, <2>3 DEF Gone
      <3> QED BY <1>15, <2>1, <3>1, <3>2 DEF Key
    <2>4. CASE ~(VM[w] = k.vm /\ k.mac = m)
      <3>1. HasKey(p, k)' BY <2>1 DEF Key
      <3>2. HasKey(p, k) BY <1>12, <2>4, <3>1
      <3>3. leases'[n] = leases[n] BY <1>17, <2>2, <2>4, <3>2
      <3>4. Gone(VM[p]) \/ k \in DOMAIN gauge \/ Coming(k) BY <2>1, <3>2, <3>3 DEF GaugeInv, CompleteInv
      <3>5. Gone(VM[p])' \/ k \in DOMAIN gauge \/ Coming(k)' BY <1>15, <1>18, <2>4, <3>2, <3>4
      <3> QED BY <2>1, <3>5 DEF Key
    <2> QED BY <2>3, <2>4
  <1>21. ReportInv'
    <2>1. PICK b : b = Network OBVIOUS
    <2>2. Network' = b /\ b.mac = m /\ ~Leaseless(b) BY <1>2, <1>8, <1>10, <2>1 DEF Network
    <2>3. m \in Bound(w)' BY <1>4
    <2> QED BY <1>2, <1>5, <1>7, <1>8, <2>2, <2>3 DEF ReportInv, Bound
  <1> QED BY <1>19, <1>20, <1>21 DEF GaugeInv

\* The worker writes or deletes one gauge, by a configuration that is current or whose
\* change brings the pod up again.
LEMMA GaugeReport == ASSUME PodInv, Leasing, GaugeInv, Report PROVE GaugeInv'
  <1>1. PICK m, w, key : m = Network.mac /\ w = task.ev.pod /\ key = Key(w, m) OBVIOUS
  <1>2. /\ UNCHANGED <<podLister, podNotes, queue, changed, leases, indexes, subnets>>
        /\ gauge' = LeaseGauge(key) /\ task' = NextNetwork
    BY <1>1 DEF Report, store, informer
  <1>3. task # None /\ task \in Task /\ task.todo # <<>> /\ task.todo \in Seq(NetworkStatus) /\ task.step = "report"
    BY DEF Report, Working, PodInv, PodTyped, Task
  <1>4. task'.ev = task.ev /\ task'.todo = Tail(task.todo) /\ task'.step = "bind"
    BY <1>2, <1>3 DEF NextNetwork, Task
  <1>5. task' # None
    <2>1. PodTyped' BY PodTypedStep DEF PodInv, PodNext, PodWorker
    <2>2. queue'.running = {task.ev} BY <1>2, <1>3 DEF PodInv, PodTyped
    <2> QED BY <2>1, <2>2 DEF PodTyped
  <1>6. ToSet(task.todo) = {Network} \cup ToSet(Tail(task.todo)) BY <1>3, TailSet DEF Network
  <1>7. w \in Pods /\ key.vm = VM[w] /\ key.mac = m /\ AtWork(w)
    BY <1>1, <1>3 DEF Task, PodEvent, Key, AtWork
  <1>8. /\ m \in Bound(w) /\ leases[m] = task.lease
        /\ \/ task.conf = ConfNow(leases[m].net)
           \/ changed = leases[m].net
           \/ [pod |-> w, op |-> "UPDATE"] \in Waiting(queue)
    BY <1>1, <1>3 DEF GaugeInv, ReportInv
  <1>9. HasKey(w, key) BY <1>7, <1>8 DEF HasKey
  <1>10. \A q, k : HasKey(q, k)' <=> HasKey(q, k) BY <1>2 DEF HasKey, Bound, indexes
  <1>11. \A vm : (Ending(vm)' <=> Ending(vm)) /\ (Gone(vm)' <=> Gone(vm))
    BY <1>2 DEF Ending, Due, Gone
  <1>12. \A q : Waits(q)' <=> Waits(q) BY <1>2 DEF Waits
  <1>13. ASSUME NEW q, NEW n, q # w \/ n # m, Reports(q, n) PROVE Reports(q, n)'
    <2>1. CASE Waits(q) BY <1>12, <2>1 DEF Reports
    <2>2. CASE ToDo(q, n)
      <3>1. q = w /\ n # m BY <1>1, <1>13, <2>2 DEF ToDo, AtWork
      <3>2. PICK b \in ToSet(task.todo) : b.mac = n /\ ~Leaseless(b) /\ b # Network
        BY <1>1, <1>3, <2>2, <3>1 DEF ToDo
      <3>3. b \in ToSet(task'.todo) BY <1>4, <1>6, <3>2
      <3>4. task'.todo # <<>> BY <3>3 DEF ToSet
      <3>5. AtWork(q)' BY <1>4, <1>5, <2>2 DEF ToDo, AtWork
      <3> QED BY <1>4, <3>2, <3>3, <3>4, <3>5 DEF Reports, ToDo
    <2> QED BY <1>13, <2>1, <2>2 DEF Reports
  <1>14. ASSUME NEW k, k.vm # VM[w] \/ k.mac # m, Coming(k) PROVE Coming(k)'
    <2>1. CASE changed = leases[k.mac].net BY <1>2, <2>1 DEF Coming
    <2>2. ASSUME NEW q \in Pods, HasKey(q, k), podLister[q].phase = "attached", Reports(q, k.mac)
          PROVE  Coming(k)'
      <3>1. q # w \/ k.mac # m BY <1>14, <2>2 DEF HasKey
      <3>2. Reports(q, k.mac)' BY <1>13, <2>2, <3>1
      <3> QED BY <1>2, <1>10, <2>2, <3>2 DEF Coming
    <2> QED BY <1>14, <2>1, <2>2 DEF Coming
  <1>15. \/ task.conf = ConfNow(leases[m].net)
         \/ Coming(key)' \/ (Ending(VM[w])' /\ podLister[w].phase = "gone")
    <2>1. CASE changed = leases[m].net BY <1>2, <1>7, <2>1 DEF Coming
    <2>2. CASE [pod |-> w, op |-> "UPDATE"] \in Waiting(queue)
      <3>1. Reports(w, m)' BY <1>2, <2>2 DEF Reports, Waits
      <3>2. CASE podLister[w].phase = "attached" BY <1>2, <1>7, <1>9, <1>10, <3>1, <3>2 DEF Coming
      <3>3. CASE podLister[w].phase # "attached"
        <4>1. podLister[w].phase = "gone" /\ Due(w, "DELETE") BY <1>7, <3>3, CarrierPhase DEF PodInv
        <4> QED BY <1>7, <1>11, <4>1 DEF Ending
      <3> QED BY <3>2, <3>3
    <2> QED BY <1>8, <2>1, <2>2
  <1>16. /\ \A k : k # key => (k \in DOMAIN gauge' <=> k \in DOMAIN gauge)
         /\ \A k \in DOMAIN gauge : k # key => gauge'[k] = gauge[k]
         /\ key \in DOMAIN gauge' <=> task.conf # None
         /\ task.conf # None => gauge'[key] = [lease |-> task.lease, conf |-> task.conf]
    <2>1. CASE task.conf # None
      <3>1. gauge' = Put(gauge, key, [lease |-> task.lease, conf |-> task.conf])
        BY <1>2, <2>1 DEF LeaseGauge
      <3> QED BY <2>1, <3>1 DEF Put
    <2>2. CASE task.conf = None
      <3>1. gauge' = Drop(gauge, key) BY <1>2, <2>2 DEF LeaseGauge
      <3> QED BY <2>2, <3>1 DEF Drop, Restrict
    <2> QED BY <2>1, <2>2
  <1>17. CurrentInv'
    <2> SUFFICES ASSUME NEW k \in DOMAIN gauge'
                 PROVE  (\E q \in Pods : HasKey(q, k)' /\ k = Key(q, k.mac)) /\ (Shown(k)' \/ Coming(k)' \/ Ending(k.vm)')
      BY DEF CurrentInv
    <2>1. CASE k = key
      <3>1. task.conf # None /\ gauge'[k] = [lease |-> leases[m], conf |-> task.conf]
        BY <1>8, <1>16, <2>1
      <3>2. task.conf = ConfNow(leases[m].net) => Shown(k)'
        BY <1>2, <1>7, <2>1, <3>1 DEF ConfNow, Shown
      <3>3. \E q \in Pods : HasKey(q, k)' /\ k = Key(q, k.mac) BY <1>1, <1>7, <1>9, <1>10, <2>1
      <3> QED BY <1>7, <1>15, <2>1, <3>2, <3>3
    <2>2. CASE k # key
      <3>1. k \in DOMAIN gauge /\ gauge'[k] = gauge[k] BY <1>16, <2>2
      <3>2. /\ \E q \in Pods : HasKey(q, k) /\ k = Key(q, k.mac)
            /\ Shown(k) \/ Coming(k) \/ Ending(k.vm)
        BY <3>1 DEF GaugeInv, CurrentInv
      <3>3. Shown(k) => Shown(k)' BY <1>2, <3>1 DEF Shown
      <3>4. CASE k.vm # VM[w] \/ k.mac # m BY <1>10, <1>11, <1>14, <3>2, <3>3, <3>4
      <3>5. CASE k.vm = VM[w] /\ k.mac = m
        <4>1. k = key BY <1>1, <3>2, <3>5 DEF HasKey, Key
        <4> QED BY <2>2, <4>1
      <3> QED BY <3>4, <3>5
    <2> QED BY <2>1, <2>2
  <1>18. CompleteInv'
    <2> SUFFICES ASSUME NEW p \in Pods, NEW n \in Macs, HasKey(p, Key(p, n)),
                        podLister[p].phase = "attached", leases[n].net \in DOMAIN subnets
                 PROVE  Gone(VM[p])' \/ Key(p, n) \in DOMAIN gauge' \/ Coming(Key(p, n))'
      BY <1>2, <1>10 DEF CompleteInv, Key
    <2>1. PICK k : k = Key(p, n) /\ k.vm = VM[p] /\ k.mac = n BY DEF Key
    <2>2. CASE VM[p] = VM[w] /\ n = m
      <3>1. k = key BY <1>1, <2>1, <2>2 DEF Key
      <3>2. task.conf = ConfNow(leases[m].net) => task.conf # None
        <4>1. subnets[leases[m].net] \in OVNSubnet BY <2>2, MapOfElim DEF PodInv, TypeOK
        <4> QED BY <2>2, <4>1, TaskAssumption DEF ConfNow
      <3>3. podLister[w].phase = "gone" => Gone(VM[p])' BY <1>2, <1>7, <2>2 DEF Gone
      <3>4. k \in DOMAIN gauge' \/ Coming(k)' \/ Gone(VM[p])' BY <1>15, <1>16, <3>1, <3>2, <3>3
      <3> QED BY <2>1, <3>4
    <2>3. CASE VM[p] # VM[w] \/ n # m
      <3>1. Gone(VM[p]) \/ k \in DOMAIN gauge \/ Coming(k) BY <2>1 DEF GaugeInv, CompleteInv
      <3>2. k # key BY <1>7, <2>1, <2>3
      <3>3. Gone(VM[p])' \/ k \in DOMAIN gauge' \/ Coming(k)'
        BY <1>11, <1>14, <1>16, <2>1, <2>3, <3>1, <3>2
      <3> QED BY <2>1, <3>3
    <2> QED BY <2>2, <2>3
  <1>19. ReportInv' BY <1>4 DEF ReportInv
  <1> QED BY <1>17, <1>18, <1>19 DEF GaugeInv

\* The gauges of a virtual machine go with any of its pods; the others' leases stay.
LEMMA GaugeDelete == ASSUME PodInv, Leasing, GaugeInv, HandlerDeletePod PROVE GaugeInv'
  <1> DEFINE e == NextEvent
             w == NextEvent.pod
  <1>1. /\ task = None /\ e.op = "DELETE"
        /\ UNCHANGED <<task, podLister, podNotes, changed>>
        /\ queue' = Handled(Get(queue), e, FALSE)
        /\ gauge' = deletePartialVMDHCPLease(VM[w], At(podkeyMACs', w))
    BY DEF HandlerDeletePod, Idle, informer
  <1>2. /\ e \in PodEvent /\ QueueOK(Get(queue), PodEvent) /\ e \in Get(queue).running
        /\ Pending(Get(queue)) = Pending(queue) /\ e \in Pending(queue)
    BY IdleItem DEF HandlerDeletePod, PodInv
  <1>3. w \in Pods /\ e = [pod |-> w, op |-> "DELETE"] BY <1>1, <1>2 DEF PodEvent
  <1>4. /\ \A q : Bound(q)' = IF q = w THEN {} ELSE Bound(q)
        /\ \A q : q # w => \A m \in Bound(q) : leases'[m] = leases[m]
        /\ UNCHANGED subnets
    <2>1. CASE w \in DOMAIN podkeyMACs \cap DOMAIN podkeySubnets
      <3>1. DeletePodDHCPLease(w) BY <2>1 DEF HandlerDeletePod
      <3>2. ASSUME NEW q, q # w, NEW m \in Bound(q) PROVE leases'[m] = leases[m]
        <4>1. m \in DOMAIN leases /\ q \in At(macPodKeys, m) BY <3>2, CarriedLease DEF PodInv
        <4>2. macPodKeys[m] # {w} BY <3>2, <4>1 DEF At
        <4> QED BY <1>3, <3>1, <4>1, <4>2, DeleteLeaves DEF PodInv
      <3>3. \A q : Bound(q)' = IF q = w THEN {} ELSE Bound(q) BY <1>3, <3>1, DeleteKnown DEF PodInv
      <3>4. UNCHANGED subnets BY <3>1 DEF DeletePodDHCPLease
      <3> QED BY <3>2, <3>3, <3>4
    <2>2. CASE w \notin DOMAIN podkeyMACs \cap DOMAIN podkeySubnets
      <3>1. UNCHANGED store BY <2>2 DEF HandlerDeletePod
      <3>2. w \notin DOMAIN podkeyMACs BY <2>2 DEF PodInv, IndexesMirror
      <3> QED BY <3>1, <3>2 DEF store, indexes, Bound, At
    <2> QED BY <2>1, <2>2
  <1>5. podLister[w].phase = "gone" BY <1>2, <1>3 DEF Leasing, PodLeases, Due
  <1>6. Get(queue).dirty = queue.dirty \ {e} /\ Get(queue).later = queue.later
    BY GetSets DEF HandlerDeletePod, Idle, NextEvent, PodInv, PodTyped
  <1>7. /\ DOMAIN gauge' = {k \in DOMAIN gauge : k.vm # VM[w]}
        /\ \A k \in DOMAIN gauge' : gauge'[k] = gauge[k]
    <2>1. At(podkeyMACs', w) = {} BY <1>4 DEF Bound
    <2>2. gauge' = Restrict(gauge, {k \in DOMAIN gauge : k.vm # VM[w] \/ k.mac \in {}}) BY <1>1, <2>1 DEF deletePartialVMDHCPLease
    <2> QED BY <2>2 DEF Restrict
  <1> HIDE DEF e, w
  <1>8. queue'.dirty = queue.dirty \ {e} /\ queue.later \subseteq queue'.later
    <2>1. queue'.dirty = Get(queue).dirty /\ queue'.later = Get(queue).later \cup (IF FALSE THEN {e} ELSE {})
      BY <1>1, <1>2, HandledSets
    <2> QED BY <1>6, <2>1
  <1>9. \A q : q # w => (Due(q, "DELETE") => Due(q, "DELETE")')
    <2>1. \A q, op : Due(q, op) /\ e # [pod |-> q, op |-> op] => Due(q, op)'
      BY <1>1, <1>2, FinishDue
    <2> QED BY <1>3, <2>1
  <1>10. \A q : Waits(q) => Waits(q)'
    <2> SUFFICES ASSUME NEW q, NEW op \in {"ADD", "UPDATE"},
                        [pod |-> q, op |-> op] \in ToSet(podNotes) \cup Waiting(queue)
                 PROVE  [pod |-> q, op |-> op] \in ToSet(podNotes') \cup Waiting(queue')
      BY DEF Waits
    <2>1. [pod |-> q, op |-> op] # e BY <1>1
    <2> QED BY <1>1, <1>8, <2>1 DEF Waiting
  <1>11. \A q, m : Reports(q, m) => Reports(q, m)'
    BY <1>1, <1>10 DEF Reports, ToDo, AtWork
  <1>12. ASSUME NEW k, k.vm # VM[w], NEW p \in Pods, HasKey(p, k)
         PROVE  /\ HasKey(p, k)' /\ leases'[k.mac] = leases[k.mac]
                /\ Shown(k) /\ k \in DOMAIN gauge => Shown(k)'
                /\ Coming(k) => Coming(k)'
                /\ Ending(k.vm) => Ending(k.vm)'
    <2>1. \A q : HasKey(q, k) => HasKey(q, k)' /\ q # w BY <1>4, <1>12 DEF HasKey
    <2>2. leases'[k.mac] = leases[k.mac] BY <1>4, <1>12, <2>1 DEF HasKey
    <2>3. Shown(k) /\ k \in DOMAIN gauge => Shown(k)' BY <1>4, <1>7, <1>12, <2>2 DEF Shown
    <2>4. Coming(k) => Coming(k)'
      <3>1. CASE changed = leases[k.mac].net BY <1>1, <2>2, <3>1 DEF Coming
      <3>2. ASSUME NEW q \in Pods, HasKey(q, k), podLister[q].phase = "attached", Reports(q, k.mac)
            PROVE  Coming(k)'
        BY <1>1, <1>11, <2>1, <3>2 DEF Coming
      <3> QED BY <3>1, <3>2 DEF Coming
    <2>5. Ending(k.vm) => Ending(k.vm)' BY <1>9, <1>12 DEF Ending
    <2> QED BY <1>12, <2>1, <2>2, <2>3, <2>4, <2>5
  <1>13. CurrentInv'
    <2> SUFFICES ASSUME NEW k \in DOMAIN gauge'
                 PROVE  (\E q \in Pods : HasKey(q, k)' /\ k = Key(q, k.mac)) /\ (Shown(k)' \/ Coming(k)' \/ Ending(k.vm)')
      BY DEF CurrentInv
    <2>1. k \in DOMAIN gauge /\ k.vm # VM[w] BY <1>7
    <2>2. PICK p \in Pods : HasKey(p, k) /\ k = Key(p, k.mac) BY <2>1 DEF GaugeInv, CurrentInv
    <2>3. Shown(k) \/ Coming(k) \/ Ending(k.vm) BY <2>1 DEF GaugeInv, CurrentInv
    <2> QED BY <1>12, <2>1, <2>2, <2>3
  <1>14. CompleteInv'
    <2> SUFFICES ASSUME NEW p \in Pods, NEW n \in Macs, HasKey(p, Key(p, n))',
                        podLister[p].phase = "attached", leases'[n].net \in DOMAIN subnets
                 PROVE  Gone(VM[p])' \/ Key(p, n) \in DOMAIN gauge' \/ Coming(Key(p, n))'
      BY <1>1, <1>4 DEF CompleteInv, Key
    <2>1. PICK k : k = Key(p, n) OBVIOUS
    <2>2. k.vm = VM[p] /\ k.mac = n BY <2>1 DEF Key
    <2>3. CASE VM[p] = VM[w] BY <1>1, <1>3, <1>5, <2>3 DEF Gone
    <2>4. CASE VM[p] # VM[w]
      <3>1. HasKey(p, k) BY <1>4, <2>1, <2>2, <2>4 DEF HasKey, Key
      <3>2. leases'[n] = leases[n] BY <1>12, <2>2, <2>4, <3>1
      <3>3. Gone(VM[p]) \/ k \in DOMAIN gauge \/ Coming(k)
        BY <2>1, <3>1, <3>2 DEF GaugeInv, CompleteInv
      <3>4. Gone(VM[p]) => Gone(VM[p])' BY <1>1 DEF Gone
      <3>5. Gone(VM[p])' \/ k \in DOMAIN gauge' \/ Coming(k)'
        BY <1>7, <1>12, <2>2, <2>4, <3>1, <3>3, <3>4
      <3> QED BY <2>1, <3>5
    <2> QED BY <2>3, <2>4
  <1>15. ReportInv' BY <1>1 DEF ReportInv
  <1> QED BY <1>13, <1>14, <1>15 DEF GaugeInv

-----------------------------------------------------------------------------
LEMMA GaugeStep == Agree /\ PodInv /\ Leasing /\ GaugeInv /\ [PodNext]_podVars => GaugeInv'
  <1> SUFFICES ASSUME Agree, PodInv, Leasing, GaugeInv, [PodNext]_podVars PROVE GaugeInv'
    OBVIOUS
  <1>1. CASE UNCHANGED podVars
    <2>1. UNCHANGED <<podLister, podNotes, leases, indexes, subnets, queue, task, gauge, changed>>
      BY <1>1 DEF podVars, store, informer
    <2>2. \A q, m : Reports(q, m) => Reports(q, m)'
      BY <2>1 DEF Reports, Waits, ToDo, AtWork, Network, ConfNow
    <2>3. \A q : Due(q, "DELETE") => Due(q, "DELETE")' BY <2>1 DEF Due
    <2>4. CurrentInv' /\ CompleteInv' BY <2>1, <2>2, <2>3, GaugeKept DEF GaugeInv
    <2>5. ReportInv' BY <2>1 DEF GaugeInv, ReportInv, Network, ConfNow, Bound, indexes
    <2> QED BY <2>4, <2>5 DEF GaugeInv
  <1>2. CASE PodWorker
    BY <1>2, GaugeSkip, GaugeTake, GaugeSteps, GaugeBind, GaugeReport, GaugeEnd, GaugeDelete
       DEF PodWorker
  <1> QED BY <1>1, <1>2, GaugeEdits, GaugeQueue, GaugeRestart, GaugeSubnet, GaugeNotify DEF PodNext

\* Nothing is coming or ending any more.
LEMMA QuietGauges ==
  ASSUME PodInv, Quiet
  PROVE  /\ \A q \in Pods : \A op : ~Due(q, op)
         /\ \A k : \A p \in Pods : HasKey(p, k) => ~Coming(k)
  <1>1. \A q \in Pods : \A op : ~Due(q, op) BY DEF Quiet, Settled, Due, ToSet
  <1>2. task = None
    <2> SUFFICES ASSUME task # None PROVE FALSE OBVIOUS
    <2>1. task.ev \in queue.running /\ task.ev \in PodEvent BY DEF PodInv, PodTyped, Task
    <2>2. task.ev.pod \in Pods /\ task.ev \in Pending(queue) BY <2>1 DEF PodEvent, Pending
    <2> QED BY <2>2 DEF Quiet, Settled
  <1>3. ASSUME NEW q \in Pods, NEW m PROVE ~Reports(q, m)
    BY <1>1, <1>2 DEF Reports, ToDo, AtWork, Waits, Due, Waiting, Pending
  <1>4. ASSUME NEW k, NEW p \in Pods, HasKey(p, k) PROVE ~Coming(k)
    <2>1. leases[k.mac].net # None BY <1>4, CarriedNet DEF HasKey, PodInv
    <2> QED BY <1>3, <2>1 DEF Coming, Quiet
  <1> QED BY <1>1, <1>4

LEMMA GaugesSettle ==
  ASSUME PodInv, Leasing, GaugeInv
  PROVE  GaugesCurrent /\ GaugesComplete
  <1>1. ASSUME Quiet, NEW k \in DOMAIN gauge
        PROVE  /\ k.mac \in DOMAIN leases /\ leases[k.mac] = gauge[k].lease
               /\ gauge[k].lease.net \in DOMAIN subnets /\ gauge[k].conf = subnets[gauge[k].lease.net]
    <2>1. PICK q \in Pods : HasKey(q, k) BY DEF GaugeInv, CurrentInv
    <2>2. k.mac \in DOMAIN leases BY <2>1, CarriedLease DEF HasKey, PodInv
    <2>3. ~Coming(k) /\ ~Ending(k.vm) BY <1>1, <2>1, QuietGauges DEF Ending
    <2>4. Shown(k) BY <2>3 DEF GaugeInv, CurrentInv
    <2> QED BY <2>2, <2>4 DEF Shown
  <1>2. ASSUME Quiet, NEW p \in Pods, NEW n \in Asked(p), leases[n.mac].net \in DOMAIN subnets,
               \A q \in Pods : VM[q] = VM[p] => podLister[q].phase # "gone"
        PROVE  Key(p, n.mac) \in DOMAIN gauge
    <2>1. podLister[p].phase = "attached" BY <1>2 DEF Asked
    <2>2. n.mac \in Bound(p) BY <1>2, <2>1, QuietGauges DEF Leasing, PodLeases
    <2>3. n.mac \in Macs BY <2>2, AtType DEF Bound, PodInv, TypeOK
    <2>4. HasKey(p, Key(p, n.mac)) BY <2>2 DEF HasKey, Key
    <2>5. ~Coming(Key(p, n.mac)) BY <1>2, <2>4, QuietGauges
    <2> QED BY <1>2, <2>1, <2>3, <2>4, <2>5 DEF GaugeInv, CompleteInv, Gone
  <1> QED BY <1>1, <1>2 DEF GaugesCurrent, GaugesComplete

\* If pods that share a MAC address report the same lease for it: when nothing is
\* under way, every gauge shows the lease there is with the configuration its subnet
\* has now, however bindings, reports, subnet changes and deletions came.
THEOREM GaugesCurrentTheorem == PodSpec => [](Agree => GaugesCurrent)
  <1>1. PodInit => Leasing BY LeasesInit
  <1>2. PodInv /\ (Agree => Leasing /\ GaugeInv) => (Agree => GaugesCurrent) BY GaugesSettle
  <1>3. PodInv /\ (Agree => Leasing /\ GaugeInv) /\ [PodNext]_podVars => (Agree => Leasing /\ GaugeInv)'
    BY LeasesStep, GaugeStep
  <1> QED BY <1>1, <1>2, <1>3, GaugeInit, PodInvariance, PTL DEF PodSpec

\* And every lease a pod asks for on a configured subnet has its gauge, unless a pod
\* of the virtual machine has gone.
THEOREM GaugesCompleteTheorem == PodSpec => [](Agree => GaugesComplete)
  <1>1. PodInit => Leasing BY LeasesInit
  <1>2. PodInv /\ (Agree => Leasing /\ GaugeInv) => (Agree => GaugesComplete) BY GaugesSettle
  <1>3. PodInv /\ (Agree => Leasing /\ GaugeInv) /\ [PodNext]_podVars => (Agree => Leasing /\ GaugeInv)'
    BY LeasesStep, GaugeStep
  <1> QED BY <1>1, <1>2, <1>3, GaugeInit, PodInvariance, PTL DEF PodSpec
=============================================================================
