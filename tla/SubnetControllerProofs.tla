----------------------- MODULE SubnetControllerProofs -----------------------
(***************************************************************************)
(* Theorems about SubnetController for every set of subnets, providers and *)
(* networks, every order of the families and every bound on edits and      *)
(* faults.                                                                 *)
(***************************************************************************)
EXTENDS SubnetController, LibraryProofs

(***************************************************************************)
(* The inductive invariant: the types, and what the workers have read.     *)
(***************************************************************************)
ListTyped ==
  /\ lister \in [Subnets -> SubnetSpec \cup {None}]
  /\ notes \in Seq(Note) /\ \A i \in DOMAIN notes : notes[i].old # notes[i].new

QueueTyped == QueueOK(queue, Event) /\ queue.running = (IF task = None THEN {} ELSE {task.ev})

\* The worker has read the subnet unless it deletes, and the network before it works.
TaskTyped ==
  /\ task \in Task \cup {None}
  /\ task # None =>
       /\ task.ev.op # "DELETE" => task.spec \in SubnetSpec
       /\ task.step # "look" => task.net \in Network

DhcpTyped ==
  /\ conf \in [Families -> MapOf(Subnets, Config)]
  /\ up \in [Families -> SUBSET Range(Nic)] /\ serverGauge \in [Families -> SUBSET Providers]
  /\ subnetGauge \in MapOf(Subnets, Providers)

\* The pod worker reads the configuration of its own subnet.
PodTyped ==
  /\ leaseGauge \in [Families -> MapOf(PodSubnets, Config)] /\ podQueue \subseteq PodSubnets
  /\ podTask \in PodTask \cup {None}
  /\ podTask # None /\ podTask.read # None =>
       podTask.todo # <<>> /\ DOMAIN podTask.read \subseteq {podTask.sub}

CacheTyped == infoMap \in MapOf(Providers \ DOMAIN OrgMap, Network)

SubInv == ListTyped /\ QueueTyped /\ TaskTyped /\ DhcpTyped /\ PodTyped /\ CacheTyped

LEMMA InvTypes == SubInv => TypeOK
  BY DEF SubInv, ListTyped, QueueTyped, TaskTyped, DhcpTyped, PodTyped, CacheTyped, TypeOK,
         QueueOK, QueueOf, Pending

LEMMA InvInit == Init => SubInv
  <1> SUFFICES ASSUME Init PROVE SubInv
    OBVIOUS
  <1>1. ListTyped BY DEF Init, ListTyped
  <1>2. QueueTyped /\ TaskTyped BY EmptyOK DEF Init, QueueTyped, TaskTyped
  <1>3. EmptyMap \in MapOf(Subnets, Config) /\ EmptyMap \in MapOf(PodSubnets, Config)
        /\ EmptyMap \in MapOf(Subnets, Providers)
    BY EmptyMapType
  <1>4. DhcpTyped /\ PodTyped BY <1>3 DEF Init, DhcpTyped, PodTyped
  <1>5. CacheTyped BY NetworkAssumption DEF Init, CacheTyped
  <1> QED BY <1>1, <1>2, <1>4, <1>5 DEF SubInv

-----------------------------------------------------------------------------
(***************************************************************************)
(* The informer, the event handler and the timers.                         *)
(***************************************************************************)
LEMMA EditStep ==
  ASSUME SubInv, NEW s \in Subnets, NEW new \in Specs[s] \cup {None}, Edit(s, new)
  PROVE  SubInv'
  <1> DEFINE note == [sub |-> s, old |-> lister[s], new |-> new]
  <1>1. new \in SubnetSpec \cup {None} BY EditsAssumption
  <1>2. note \in Note /\ note.old # note.new
    BY <1>1 DEF Note, Edit, SubInv, ListTyped
  <1>3. notes' = Append(notes, note) BY DEF Edit
  <1> HIDE DEF note
  <1>4. notes \in Seq(Note) /\ \A i \in DOMAIN notes : notes[i].old # notes[i].new
    BY DEF SubInv, ListTyped
  <1>5. notes' \in Seq(Note) /\ \A i \in DOMAIN notes' : notes'[i].old # notes'[i].new
    BY <1>2, <1>3, <1>4
  <1>6. ListTyped' BY <1>1, <1>5 DEF Edit, SubInv, ListTyped
  <1> QED BY <1>6 DEF Edit, SubInv, QueueTyped, TaskTyped, DhcpTyped, PodTyped, CacheTyped,
                      dhcp, pods, cache

LEMMA NewEventsType ==
  ASSUME NEW s \in Subnets, NEW spec \in SubnetSpec, NEW op \in {"ADD", "UPDATE", "DELETE"}
  PROVE  NewEvents(s, spec, op) \in Seq(Event)
  <1>1. [sub |-> s, op |-> op, prov |-> spec.prov] \in Event BY DEF Event, SubnetSpec
  <1> QED BY <1>1 DEF NewEvents

\* What the event handler queues are events.
LEMMA EventsType ==
  ASSUME NEW n \in Note, n.old # n.new
  PROVE  EventsOf(n) \in Seq(Event)
  <1>1. n.sub \in Subnets /\ n.old \in SubnetSpec \cup {None} /\ n.new \in SubnetSpec \cup {None}
    BY DEF Note
  <1>2. CASE n.old = None \/ n.new = None BY <1>1, <1>2, NewEventsType DEF EventsOf
  <1>3. CASE n.old # None /\ n.new # None
    <2>1. n.old \in SubnetSpec /\ n.new \in SubnetSpec BY <1>1, <1>3
    <2>2. \A op \in {"ADD", "UPDATE", "DELETE"} :
            /\ NewEvents(n.sub, n.old, op) \in Seq(Event)
            /\ NewEvents(n.sub, n.new, op) \in Seq(Event)
      BY <1>1, <2>1, NewEventsType
    <2>3. OnUpdate(n.sub, n.old, n.new) \in Seq(Event)
      <3>1. NewEvents(n.sub, n.old, "DELETE") \o NewEvents(n.sub, n.new, "ADD") \in Seq(Event)
        BY <2>2
      <3> QED BY <2>2, <3>1 DEF OnUpdate
    <2> QED BY <1>3, <2>3 DEF EventsOf
  <1> QED BY <1>2, <1>3

LEMMA DeliverStep == ASSUME SubInv, Deliver PROVE SubInv'
  <1> DEFINE n == Head(notes)
             rest == Tail(notes)
  <1>1. notes \in Seq(Note) /\ notes # <<>> /\ \A i \in DOMAIN notes : notes[i].old # notes[i].new
    BY DEF SubInv, ListTyped, Deliver
  <1>2. n \in Note /\ n.old # n.new BY <1>1
  <1>3. rest \in Seq(Note) /\ \A i \in DOMAIN rest : rest[i].old # rest[i].new BY <1>1
  <1>4. queue' = AddEach(queue, EventsOf(n)) /\ notes' = rest BY DEF Deliver
  <1> HIDE DEF n, rest
  <1>5. EventsOf(n) \in Seq(Event) BY <1>2, EventsType
  <1>6. QueueOK(queue', Event) /\ queue'.running = queue.running
    BY <1>4, <1>5, AddEachOK DEF SubInv, QueueTyped
  <1>7. ListTyped' BY <1>3, <1>4 DEF Deliver, SubInv, ListTyped
  <1> QED BY <1>6, <1>7 DEF Deliver, SubInv, QueueTyped, TaskTyped, DhcpTyped, PodTyped, CacheTyped,
                            dhcp, pods, cache

LEMMA RetryStep == ASSUME SubInv, NEW e \in queue.later, RetryTimer(e) PROVE SubInv'
  <1>1. e \in Event /\ QueueOK(queue, Event) BY DEF SubInv, QueueTyped, QueueOK, QueueOf
  <1>2. QueueOK(queue', Event) /\ queue'.running = queue.running
    BY <1>1, ExpireOK DEF RetryTimer
  <1> QED BY <1>2 DEF RetryTimer, SubInv, ListTyped, QueueTyped, TaskTyped, DhcpTyped, PodTyped,
                      CacheTyped, dhcp, pods, cache

-----------------------------------------------------------------------------
(***************************************************************************)
(* The worker.                                                             *)
(***************************************************************************)
\* The worker may take the first item when it is idle.
LEMMA IdleType ==
  ASSUME SubInv, task = None, queue.order # <<>>
  PROVE  /\ QueueOK(queue, Event) /\ queue.running = {} /\ NextEvent \in Event
         /\ QueueOK(Get(queue), Event) /\ Get(queue).running = {NextEvent}
  BY GetOK DEF SubInv, QueueTyped, NextEvent

\* The worker is done with its item.
LEMMA FinishType ==
  ASSUME SubInv, task # None, NEW failed \in BOOLEAN, queue' = Handled(queue, task.ev, failed),
         task' = None
  PROVE  QueueTyped' /\ TaskTyped'
  <1>1. task.ev \in Event BY DEF SubInv, TaskTyped, Task
  <1>2. QueueOK(queue, Event) /\ queue.running = {task.ev} BY DEF SubInv, QueueTyped
  <1>3. QueueOK(queue', Event) /\ queue'.running = queue.running \ {task.ev}
    BY <1>1, <1>2, HandledOK
  <1>4. queue'.running = {} BY <1>2, <1>3
  <1> QED BY <1>3, <1>4 DEF QueueTyped, TaskTyped

LEMMA SkipStep == ASSUME SubInv, Skip PROVE SubInv'
  <1>1. task = None /\ queue.order # <<>> BY DEF Skip
  <1>2. SyncFails(NextEvent) \in BOOLEAN BY DEF SyncFails
  <1>3. QueueOK(queue', Event) /\ queue'.running = {}
    BY <1>1, <1>2, IdleType, GetHandledOK DEF Skip, NextEvent
  <1> QED BY <1>1, <1>3 DEF Skip, SubInv, ListTyped, QueueTyped, TaskTyped, DhcpTyped, PodTyped,
                            CacheTyped, dhcp, pods, cache

LEMMA TakeStep == ASSUME SubInv, Take PROVE SubInv'
  <1> DEFINE e == NextEvent
  <1>1. task = None /\ queue.order # <<>> BY DEF Take
  <1>2. e \in Event /\ QueueOK(queue', Event) /\ queue'.running = {e}
    BY <1>1, IdleType DEF Take
  <1>3. SpecRead(e) \in SubnetSpec \cup {None} /\ (e.op # "DELETE" => SpecRead(e) \in SubnetSpec)
    BY <1>2 DEF Take, SpecRead, SyncSkips, SyncFails, SubInv, ListTyped, Event
  <1>4. task' = [ev |-> e, spec |-> SpecRead(e), net |-> None, todo |-> FamOrder, step |-> "look",
                 failed |-> FALSE]
    BY DEF Take
  <1> HIDE DEF e
  <1>5. task' \in Task /\ task'.ev = e BY <1>2, <1>3, <1>4, FamilyOrderAssumption DEF Task
  <1>6. QueueTyped' /\ TaskTyped'
    BY <1>2, <1>3, <1>4, <1>5, NoneAssumption DEF QueueTyped, TaskTyped
  <1> QED BY <1>6 DEF Take, SubInv, ListTyped, DhcpTyped, PodTyped, CacheTyped, dhcp, pods, cache

\* A network the controller is attached to has its addresses.
LEMMA NetworkType ==
  ASSUME CacheTyped, NEW p \in Attached
  PROVE  GetNetworkStatus(p) \in Network
  BY NetworkAssumption, MapOfElim DEF CacheTyped, Attached, GetNetworkStatus

LEMMA LookStep == ASSUME SubInv, Look PROVE SubInv'
  <1>1. task # None /\ task \in Task /\ task.step = "look"
    BY DEF Look, TaskAt, SubInv, TaskTyped
  <1>2. CASE task.ev.prov \in Attached
    <2> DEFINE net == GetNetworkStatus(task.ev.prov)
    <2>1. net \in Network BY <1>2, NetworkType DEF SubInv
    <2>2. task' = [task EXCEPT !.net = net, !.step = "build"] /\ queue' = queue
      BY <1>2 DEF Look
    <2> HIDE DEF net
    <2>3. /\ task' \in Task /\ task'.ev = task.ev /\ task'.spec = task.spec /\ task'.net = net
      BY <1>1, <2>1, <2>2 DEF Task
    <2>4. QueueTyped' /\ TaskTyped'
      BY <1>1, <2>1, <2>2, <2>3, NoneAssumption DEF SubInv, QueueTyped, TaskTyped
    <2> QED BY <2>4 DEF Look, SubInv, ListTyped, DhcpTyped, PodTyped, CacheTyped, dhcp, pods, cache
  <1>3. CASE task.ev.prov \notin Attached
    <2>1. QueueTyped' /\ TaskTyped' BY <1>1, <1>3, FinishType DEF Look
    <2> QED BY <2>1 DEF Look, SubInv, ListTyped, DhcpTyped, PodTyped, CacheTyped, dhcp, pods, cache
  <1> QED BY <1>2, <1>3

\* What the worker has when it works on a family.
LEMMA WorkingType ==
  ASSUME SubInv, NEW f, NEW step \in {"build", "serve", "stop"}, Working(f, step)
  PROVE  /\ task # None /\ task \in Task /\ task.net \in Network /\ task.step = step
         /\ Sub \in Subnets /\ Prov \in Providers /\ Nic[Prov] \in Range(Nic)
         /\ Needed(f) => task.spec \in SubnetSpec
  <1>1. task # None /\ task \in Task /\ task.step = step
    BY DEF Working, TaskAt, SubInv, TaskTyped
  <1>2. Sub \in Subnets /\ Prov \in Providers BY <1>1 DEF Task, Event, Sub, Prov
  <1>3. Nic[Prov] \in Range(Nic) BY <1>2, NetworkAssumption DEF Range
  <1> QED BY <1>1, <1>2, <1>3 DEF SubInv, TaskTyped, Needed

\* Moving on to another step or family keeps the item.
LEMMA MoveType ==
  ASSUME SubInv, task # None, task.step # "look", UNCHANGED queue,
         \/ \E step \in {"serve", "stop"} : task' = [task EXCEPT !.step = step]
         \/ task.todo # <<>> /\ \E failed \in BOOLEAN : NextFamily(failed)
  PROVE  /\ QueueTyped' /\ TaskTyped'
         /\ task' # None /\ task'.ev = task.ev /\ task'.step # "look"
  <1>1. task \in Task /\ QueueTyped BY DEF SubInv, TaskTyped
  <1>2. /\ task' \in Task /\ task'.ev = task.ev /\ task'.spec = task.spec /\ task'.net = task.net
        /\ task'.step # "look"
    <2>1. CASE \E step \in {"serve", "stop"} : task' = [task EXCEPT !.step = step]
      BY <1>1, <2>1 DEF Task
    <2>2. ASSUME task.todo # <<>>, NEW failed \in BOOLEAN, NextFamily(failed)
          PROVE  /\ task' \in Task /\ task'.ev = task.ev /\ task'.spec = task.spec
                 /\ task'.net = task.net /\ task'.step # "look"
      <3> DEFINE rest == Tail(task.todo)
                 any == task.failed \/ failed
      <3>1. rest \in Seq(Families) BY <1>1, <2>2 DEF Task
      <3>2. any \in BOOLEAN OBVIOUS
      <3>3. task' = [task EXCEPT !.todo = rest, !.step = "build", !.failed = any]
        BY <2>2 DEF NextFamily
      <3> HIDE DEF rest, any
      <3> QED BY <1>1, <3>1, <3>2, <3>3 DEF Task
    <2> QED BY <2>1, <2>2
  <1> QED BY <1>1, <1>2, NoneAssumption DEF SubInv, QueueTyped, TaskTyped

LEMMA ConfigureStep == ASSUME SubInv, NEW f \in Families, Configure(f) PROVE SubInv'
  <1> DEFINE new == Put(conf[f], Sub, Configuration(f))
  <1>1. Working(f, "build") /\ Needed(f) /\ f \in DOMAIN task.net BY DEF Configure
  <1>2. Sub \in Subnets /\ Prov \in Providers /\ task.spec \in SubnetSpec /\ task.net \in Network
        /\ task # None /\ task.step = "build"
    BY <1>1, WorkingType
  <1>3. task.net[f] \in Addresses BY <1>1, <1>2, MapOfElim DEF Network
  <1>4. Configuration(f) \in Config BY <1>2, <1>3 DEF Configuration, Config, SubnetSpec
  <1>5. conf \in [Families -> MapOf(Subnets, Config)] BY DEF SubInv, DhcpTyped
  <1>6. new \in MapOf(Subnets, Config) BY <1>2, <1>4, <1>5, PutType
  <1>7. conf' = [conf EXCEPT ![f] = new] BY DEF Configure, StoreConf
  <1> HIDE DEF new
  <1>8. DhcpTyped' BY <1>5, <1>6, <1>7 DEF Configure, SubInv, DhcpTyped
  <1>9. QueueTyped' /\ TaskTyped' BY <1>2, MoveType DEF Configure
  <1> QED BY <1>8, <1>9 DEF Configure, SubInv, ListTyped, PodTyped, CacheTyped, pods, cache

\* Taking a subnet's configuration of a family away.
LEMMA WithdrawType ==
  ASSUME DhcpTyped, NEW f \in Families, NEW s, conf' = [conf EXCEPT ![f] = Drop(@, s)],
         UNCHANGED <<up, serverGauge, subnetGauge>>
  PROVE  DhcpTyped'
  <1> DEFINE rest == Drop(conf[f], s)
  <1>1. conf \in [Families -> MapOf(Subnets, Config)] BY DEF DhcpTyped
  <1>2. rest \in MapOf(Subnets, Config) BY <1>1, DropType
  <1>3. conf' = [conf EXCEPT ![f] = rest] OBVIOUS
  <1> HIDE DEF rest
  <1> QED BY <1>1, <1>2, <1>3 DEF DhcpTyped

LEMMA WithdrawStep == ASSUME SubInv, NEW f \in Families, Withdraw(f) PROVE SubInv'
  <1>1. Working(f, "build") /\ task.todo # <<>> BY DEF Withdraw, Working
  <1>2. task # None /\ task.step # "look" BY <1>1, WorkingType
  <1>3. DhcpTyped' BY WithdrawType DEF Withdraw, SubInv
  <1>4. QueueTyped' /\ TaskTyped' BY <1>1, <1>2, MoveType DEF Withdraw
  <1> QED BY <1>3, <1>4 DEF Withdraw, SubInv, ListTyped, PodTyped, CacheTyped, pods, cache

\* Stopping a provider's server.
LEMMA StopType ==
  ASSUME DhcpTyped, NEW f \in Families, NEW p, StopServer(p, f), UNCHANGED <<conf, subnetGauge>>
  PROVE  DhcpTyped'
  BY DEF DhcpTyped, StopServer

LEMMA ServeStep ==
  ASSUME SubInv, NEW f \in Families, Join(f) \/ Start(f) \/ StartFails(f) \/ Unbuildable(f) \/ Stop(f)
  PROVE  SubInv'
  <1>1. task # None /\ task.step # "look" /\ task.todo # <<>> /\ Prov \in Providers
        /\ Nic[Prov] \in Range(Nic)
    BY WorkingType DEF Join, Start, StartFails, Unbuildable, Stop, Working
  <1>2. UNCHANGED queue /\ \E failed \in BOOLEAN : NextFamily(failed)
    BY DEF Join, Start, StartFails, Unbuildable, Stop
  <1>3. QueueTyped' /\ TaskTyped' BY <1>1, <1>2, MoveType
  <1>4. DhcpTyped'
    <2>1. CASE Join(f) BY <1>1, <2>1 DEF Join, SubInv, DhcpTyped
    <2>2. CASE Start(f) BY <1>1, <2>2 DEF Start, SubInv, DhcpTyped
    <2>3. CASE StartFails(f) \/ Unbuildable(f)
      BY <2>3 DEF StartFails, Unbuildable, SubInv, DhcpTyped, dhcp
    <2>4. CASE Stop(f) BY <2>4, StopType DEF Stop, SubInv
    <2> QED BY <2>1, <2>2, <2>3, <2>4
  <1>5. UNCHANGED <<lister, notes, pods, cache>>
    BY DEF Join, Start, StartFails, Unbuildable, Stop
  <1> QED BY <1>3, <1>4, <1>5 DEF SubInv, ListTyped, PodTyped, CacheTyped, pods, cache

LEMMA StopFailsStep == ASSUME SubInv, NEW f \in Families, StopFails(f) PROVE SubInv'
  <1>1. Working(f, "stop") /\ task.todo # <<>> BY DEF StopFails, Working
  <1>2. task # None /\ task.step # "look" BY <1>1, WorkingType
  <1>3. QueueTyped' /\ TaskTyped'
    <2>1. CASE task.ev.op = "DELETE" BY <1>2, <2>1, FinishType DEF StopFails
    <2>2. CASE task.ev.op # "DELETE" BY <1>1, <1>2, <2>2, MoveType DEF StopFails
    <2> QED BY <2>1, <2>2
  <1> QED BY <1>3 DEF StopFails, SubInv, ListTyped, DhcpTyped, PodTyped, CacheTyped, dhcp, pods, cache

\* The subnet gauge and the pods to notify.
LEMMA ReportType ==
  ASSUME DhcpTyped, PodTyped, NEW s \in Subnets, NEW op, NEW p \in Providers, Report(s, op, p),
         UNCHANGED <<conf, up, serverGauge, podTask, leaseGauge>>
  PROVE  DhcpTyped' /\ PodTyped'
  <1>1. subnetGauge' \in MapOf(Subnets, Providers) BY PutType, DropType DEF Report, DhcpTyped
  <1> QED BY <1>1 DEF Report, DhcpTyped, PodTyped

LEMMA EndStep == ASSUME SubInv, End PROVE SubInv'
  <1>1. task # None /\ task \in Task BY DEF End, TaskAt, SubInv, TaskTyped
  <1>2. Sub \in Subnets /\ Prov \in Providers /\ task.failed \in BOOLEAN
    BY <1>1 DEF Task, Event, Sub, Prov
  <1>3. QueueTyped' /\ TaskTyped' BY <1>1, <1>2, FinishType DEF End
  <1>4. DhcpTyped' /\ PodTyped' BY <1>2, ReportType DEF End, SubInv
  <1> QED BY <1>3, <1>4 DEF End, SubInv, ListTyped, CacheTyped, cache

LEMMA WorkerStep == SubInv /\ Worker => SubInv'
  BY SkipStep, TakeStep, LookStep, ConfigureStep, WithdrawStep, ServeStep, StopFailsStep, EndStep
     DEF Worker, FamilyStep

-----------------------------------------------------------------------------
(***************************************************************************)
(* The pod worker.                                                         *)
(***************************************************************************)
\* What is left untouched when only the pod worker moves.
LEMMA PodsOnly ==
  ASSUME SubInv, PodTyped', UNCHANGED <<lister, notes, queue, task, dhcp, cache>>
  PROVE  SubInv'
  BY DEF SubInv, ListTyped, QueueTyped, TaskTyped, DhcpTyped, CacheTyped, dhcp, cache

LEMMA PodTakeStep == ASSUME SubInv, NEW s \in PodSubnets, PodTake(s) PROVE SubInv'
  <1>1. podTask' \in PodTask /\ podTask'.read = None
    BY FamilyOrderAssumption DEF PodTake, PodTask
  <1>2. PodTyped' BY <1>1 DEF PodTake, SubInv, PodTyped
  <1> QED BY <1>2, PodsOnly DEF PodTake

LEMMA PodReadStep ==
  ASSUME SubInv, NEW f \in Families, PodRead(f)
  PROVE  SubInv' /\ podTask' # None
  <1> DEFINE own == {podTask.sub} \cap DOMAIN conf[f]
             read == Restrict(conf[f], own)
  <1>1. podTask # None /\ podTask \in PodTask /\ podTask.todo # <<>>
    BY DEF PodRead, SubInv, PodTyped
  <1>2. conf[f] \in MapOf(Subnets, Config) BY DEF SubInv, DhcpTyped
  <1>3. read \in [own -> Config] BY <1>2, MapOfElim DEF Restrict
  <1>4. own \subseteq PodSubnets /\ own \subseteq {podTask.sub} BY <1>1 DEF PodTask
  <1>5. read \in MapOf(PodSubnets, Config) /\ DOMAIN read \subseteq {podTask.sub}
    BY <1>3, <1>4, MapOfIntro
  <1>6. podTask' = [podTask EXCEPT !.read = read] BY DEF PodRead
  <1> HIDE DEF read, own
  <1>7. podTask' \in PodTask /\ podTask'.read = read /\ podTask'.sub = podTask.sub
        /\ podTask'.todo = podTask.todo
    BY <1>1, <1>5, <1>6 DEF PodTask
  <1>8. PodTyped' BY <1>1, <1>5, <1>7 DEF PodRead, SubInv, PodTyped
  <1> QED BY <1>7, <1>8, PodsOnly, NoneAssumption DEF PodRead

LEMMA PodWriteStep ==
  ASSUME SubInv, NEW f \in Families, PodWrite(f)
  PROVE  SubInv' /\ (Len(podTask.todo) # 1 => podTask' # None)
  <1> DEFINE s == podTask.sub
             read == podTask.read
             old == leaseGauge[f]
             new == IF read = EmptyMap THEN Drop(old, s) ELSE Put(old, s, read[s])
             rest == Tail(podTask.todo)
  <1>1. podTask # None /\ podTask \in PodTask /\ read # None /\ podTask.todo # <<>>
    BY DEF PodWrite, SubInv, PodTyped
  <1>2. s \in PodSubnets /\ read \in MapOf(PodSubnets, Config) /\ DOMAIN read \subseteq {s}
    BY <1>1 DEF PodTask, SubInv, PodTyped
  <1>3. old \in MapOf(PodSubnets, Config) BY DEF SubInv, PodTyped
  <1>4. read # EmptyMap => read[s] \in Config
    <2>1. read \in [DOMAIN read -> Config] BY <1>2, MapOfElim
    <2>2. DOMAIN read = {} => read = EmptyMap BY <2>1 DEF EmptyMap
    <2> QED BY <1>2, <2>1, <2>2
  <1>5. new \in MapOf(PodSubnets, Config) BY <1>2, <1>3, <1>4, PutType, DropType
  <1>6. leaseGauge' = [leaseGauge EXCEPT ![f] = new] BY DEF PodWrite
  <1>7. Len(podTask.todo) # 1 => podTask' = [podTask EXCEPT !.todo = rest, !.read = None]
    BY DEF PodWrite
  <1>8. CASE Len(podTask.todo) = 1
    <2>1. podTask' = None BY <1>8 DEF PodWrite
    <2> HIDE DEF new
    <2>2. PodTyped' BY <1>5, <1>6, <2>1 DEF PodWrite, SubInv, PodTyped
    <2> QED BY <1>8, <2>2, PodsOnly DEF PodWrite
  <1>9. CASE Len(podTask.todo) # 1
    <2>1. rest \in Seq(Families) BY <1>1 DEF PodTask
    <2> HIDE DEF new, rest
    <2>2. podTask' \in PodTask /\ podTask'.read = None BY <1>1, <1>7, <1>9, <2>1 DEF PodTask
    <2>3. PodTyped' BY <1>5, <1>6, <2>2 DEF PodWrite, SubInv, PodTyped
    <2> QED BY <2>2, <2>3, PodsOnly, NoneAssumption DEF PodWrite
  <1> QED BY <1>8, <1>9

LEMMA PodWorkerStep == SubInv /\ PodWorker => SubInv'
  BY PodTakeStep, PodReadStep, PodWriteStep DEF PodWorker

-----------------------------------------------------------------------------
LEMMA InvStep == SubInv /\ [Next]_vars => SubInv'
  <1>1. SubInv /\ UNCHANGED vars => SubInv'
    BY DEF vars, SubInv, ListTyped, QueueTyped, TaskTyped, DhcpTyped, PodTyped, CacheTyped,
           dhcp, pods, cache
  <1> QED BY <1>1, EditStep, DeliverStep, RetryStep, WorkerStep, PodWorkerStep DEF Next

\* For any subnets, providers, networks and faults the controller's state has its
\* types, its work queue has each item that waits exactly once, and the worker's
\* item is the one the queue is processing.
THEOREM SubnetTypes == Spec => []TypeOK
  BY InvInit, InvStep, InvTypes, PTL DEF Spec

-----------------------------------------------------------------------------
(***************************************************************************)
(* The lease gauges.  A gauge may differ from the configuration only while *)
(* the pods of the subnet are about to be told: they are in the queue, or  *)
(* the worker will report at the end of what it does, or a DELETE that     *)
(* failed half-way is tried again until it reports.                        *)
(***************************************************************************)
Shown(s, f) == Restrict(leaseGauge[f], {s} \cap DOMAIN leaseGauge[f])
Configured(s, f) == Restrict(conf[f], {s} \cap DOMAIN conf[f])

Owed(s) ==
  \/ task # None /\ Sub = s /\ task.step # "look"
  \/ \E e \in Pending(queue) : e.sub = s /\ e.op = "DELETE" /\ e.prov \in Attached

Announced(s) == s \in podQueue \/ Owed(s)

\* Each gauge is right, or announced, or still to be written by the pod worker.
GaugesFollow ==
  \A s \in PodSubnets, f \in Families :
    \/ Shown(s, f) = Configured(s, f) \/ Announced(s)
    \/ podTask # None /\ podTask.sub = s /\ f \in ToSet(podTask.todo)

\* What the pod worker is about to write is right, or the subnet's pods are told again.
ReadFollows ==
  podTask # None /\ podTask.read # None =>
    podTask.read = Configured(podTask.sub, Head(podTask.todo)) \/ Announced(podTask.sub)

\* The worker goes beyond its first step only for a network there is.
WorksAttached == task # None /\ task.step # "look" => Prov \in Attached

GaugeInv == SubInv /\ GaugesFollow /\ ReadFollows /\ WorksAttached

\* What is pending about a DELETE stays, except what the worker finishes.
LEMMA InformerAnnounced ==
  ASSUME SubInv, NEW s, Announced(s),
         \/ \E t \in Subnets : \E new \in Specs[t] \cup {None} : Edit(t, new)
         \/ Deliver \/ \E e \in queue.later : RetryTimer(e)
  PROVE  Announced(s)'
  <1>1. Pending(queue) \subseteq Pending(queue')
    <2>1. CASE \E t \in Subnets : \E new \in Specs[t] \cup {None} : Edit(t, new) BY <2>1 DEF Edit
    <2>2. CASE Deliver
      <3>1. Head(notes) \in Note /\ Head(notes).old # Head(notes).new
        BY <2>2 DEF Deliver, SubInv, ListTyped
      <3> QED BY <2>2, <3>1, EventsType, AddEachPending DEF Deliver, SubInv, QueueTyped
    <2>3. CASE \E e \in queue.later : RetryTimer(e)
      BY <2>3, ExpirePending DEF RetryTimer, SubInv, QueueTyped
    <2> QED BY <2>1, <2>2, <2>3
  <1>2. UNCHANGED <<infoMap, podQueue, task>> BY DEF Edit, Deliver, RetryTimer, pods, cache
  <1> QED BY <1>1, <1>2 DEF Announced, Owed, Attached, Sub

\* Finishing an item that is not a DELETE of an attached network, or one that failed.
LEMMA FinishAnnounced ==
  ASSUME SubInv, NEW s, Announced(s), task # None, NEW failed \in BOOLEAN,
         queue' = Handled(queue, task.ev, failed), UNCHANGED <<infoMap, podQueue>>,
         task.step # "look" => failed /\ task.ev.op = "DELETE" /\ Prov \in Attached,
         task.step = "look" => Prov \notin Attached
  PROVE  Announced(s)'
  <1>1. QueueOK(queue, Event) /\ task.ev \in queue.running BY DEF SubInv, QueueTyped
  <1>2. /\ Pending(queue) \ {task.ev} \subseteq Pending(queue')
        /\ failed => task.ev \in Pending(queue')
    BY <1>1, HandledPending
  <1> QED BY <1>2 DEF Announced, Owed, Attached, Sub, Prov

\* Moving on within an item.
LEMMA MoveAnnounced ==
  ASSUME SubInv, WorksAttached, task # None, task.step # "look", UNCHANGED <<queue, infoMap>>,
         podQueue \subseteq podQueue',
         \/ \E step \in {"serve", "stop"} : task' = [task EXCEPT !.step = step]
         \/ task.todo # <<>> /\ \E failed \in BOOLEAN : NextFamily(failed)
  PROVE  /\ WorksAttached' /\ Sub' = Sub /\ Owed(Sub)'
         /\ \A s : Announced(s) => Announced(s)'
  <1>1. task' # None /\ task'.ev = task.ev /\ task'.step # "look" BY MoveType
  <1> QED BY <1>1 DEF WorksAttached, Announced, Owed, Attached, Sub, Prov

\* A step that changes neither the configurations nor the gauges.
LEMMA GaugesKept ==
  ASSUME GaugeInv, SubInv', WorksAttached', UNCHANGED <<conf, leaseGauge, podTask>>,
         \A s \in PodSubnets : Announced(s) => Announced(s)'
  PROVE  GaugeInv'
  <1>1. podTask # None => podTask.sub \in PodSubnets BY DEF GaugeInv, SubInv, PodTyped, PodTask
  <1> QED BY <1>1 DEF GaugeInv, GaugesFollow, ReadFollows, Shown, Configured

\* A step that changes the configuration of the worker's own subnet.
LEMMA ConfigurationMoves ==
  ASSUME GaugeInv, SubInv', WorksAttached', UNCHANGED <<leaseGauge, podTask>>,
         NEW f \in Families, NEW m, conf' = [conf EXCEPT ![f] = m],
         \A s \in PodSubnets : s # Sub => Restrict(m, {s} \cap DOMAIN m) = Configured(s, f),
         Sub' = Sub, Owed(Sub)', \A s : Announced(s) => Announced(s)'
  PROVE  GaugeInv'
  <1>1. podTask # None => podTask.sub \in PodSubnets BY DEF GaugeInv, SubInv, PodTyped, PodTask
  <1>2. conf \in [Families -> MapOf(Subnets, Config)] BY DEF GaugeInv, SubInv, DhcpTyped
  <1>3. \A s \in PodSubnets, g \in Families :
          Announced(s)' \/ Configured(s, g)' = Configured(s, g)
    <2> SUFFICES ASSUME NEW s \in PodSubnets, NEW g \in Families, s # Sub
                 PROVE  Configured(s, g)' = Configured(s, g)
      BY DEF Announced
    <2> QED BY <1>2 DEF Configured
  <1>4. GaugesFollow' BY <1>3 DEF GaugeInv, GaugesFollow, Shown
  <1>5. podTask # None /\ podTask.read # None => Head(podTask.todo) \in Families
    BY DEF GaugeInv, SubInv, PodTyped, PodTask
  <1>6. ReadFollows' BY <1>1, <1>3, <1>5 DEF GaugeInv, ReadFollows
  <1> QED BY <1>4, <1>6 DEF GaugeInv

LEMMA InformerGauge ==
  ASSUME GaugeInv,
         \/ \E t \in Subnets : \E new \in Specs[t] \cup {None} : Edit(t, new)
         \/ Deliver \/ \E e \in queue.later : RetryTimer(e)
  PROVE  GaugeInv'
  <1>1. SubInv' BY EditStep, DeliverStep, RetryStep DEF GaugeInv
  <1>2. UNCHANGED <<task, infoMap, conf, leaseGauge, podTask>>
    BY DEF Edit, Deliver, RetryTimer, dhcp, pods, cache
  <1>3. WorksAttached' BY <1>2 DEF GaugeInv, WorksAttached, Attached, Prov
  <1>4. \A s \in PodSubnets : Announced(s) => Announced(s)' BY InformerAnnounced DEF GaugeInv
  <1> QED BY <1>1, <1>2, <1>3, <1>4, GaugesKept

LEMMA SkipGauge == ASSUME GaugeInv, Skip PROVE GaugeInv'
  <1>1. task = None /\ queue.order # <<>> /\ UNCHANGED <<task, infoMap, podQueue>>
    BY DEF Skip, cache, pods
  <1>2. SubInv /\ SubInv' BY SkipStep DEF GaugeInv
  <1> DEFINE q == Get(queue)
             failed == SyncFails(NextEvent)
  <1>3. QueueOK(q, Event) /\ NextEvent \in q.running /\ Pending(q) = Pending(queue)
    BY <1>1, <1>2, IdleType, GetPending DEF SubInv, QueueTyped
  <1>4. queue' = Handled(q, NextEvent, failed) /\ (NextEvent.op = "DELETE" => failed)
    BY DEF Skip, SyncSkips
  <1>5. failed \in BOOLEAN BY DEF SyncFails
  <1> HIDE DEF q, failed
  <1>6. /\ Pending(q) \ {NextEvent} \subseteq Pending(queue')
        /\ failed => NextEvent \in Pending(queue')
    BY <1>3, <1>4, <1>5, HandledPending
  <1>7. \A s : Announced(s) => Announced(s)'
    BY <1>1, <1>3, <1>4, <1>6 DEF Announced, Owed, Attached
  <1>8. WorksAttached' BY <1>1 DEF WorksAttached
  <1> QED BY <1>2, <1>7, <1>8, GaugesKept DEF Skip, dhcp, pods

LEMMA TakeGauge == ASSUME GaugeInv, Take PROVE GaugeInv'
  <1>1. task = None /\ queue.order # <<>> /\ UNCHANGED <<infoMap, podQueue>> /\ task'.step = "look"
    BY DEF Take, cache, pods
  <1>2. SubInv /\ SubInv' BY TakeStep DEF GaugeInv
  <1>3. Pending(queue') = Pending(queue)
    BY <1>1, <1>2, GetPending DEF SubInv, QueueTyped, Take
  <1>4. \A s : Announced(s) => Announced(s)' BY <1>1, <1>3 DEF Announced, Owed, Attached
  <1>5. WorksAttached' BY <1>1 DEF WorksAttached
  <1> QED BY <1>2, <1>4, <1>5, GaugesKept DEF Take, dhcp, pods

LEMMA LookGauge == ASSUME GaugeInv, Look PROVE GaugeInv'
  <1>1. task # None /\ task \in Task /\ task.step = "look" /\ UNCHANGED <<infoMap, podQueue>>
    BY DEF Look, TaskAt, GaugeInv, SubInv, TaskTyped, cache, pods
  <1>2. SubInv /\ SubInv' BY LookStep DEF GaugeInv
  <1>3. (\A s : Announced(s) => Announced(s)') /\ WorksAttached'
    <2>1. CASE Prov \in Attached
      <3> DEFINE net == GetNetworkStatus(Prov)
      <3>1. task' = [task EXCEPT !.net = net, !.step = "build"] /\ queue' = queue
        BY <2>1 DEF Look, Prov
      <3> HIDE DEF net
      <3>2. task'.ev = task.ev BY <1>1, <3>1 DEF Task
      <3> QED BY <1>1, <2>1, <3>1, <3>2
              DEF Announced, Owed, Attached, Sub, Prov, WorksAttached
    <2>2. CASE Prov \notin Attached
      <3>1. task' = None /\ queue' = Handled(queue, task.ev, FALSE) BY <2>2 DEF Look, Prov
      <3>2. \A s : Announced(s) => Announced(s)'
        BY <1>1, <1>2, <2>2, <3>1, FinishAnnounced
      <3> QED BY <3>1, <3>2 DEF WorksAttached
    <2> QED BY <2>1, <2>2
  <1> QED BY <1>2, <1>3, GaugesKept DEF Look, dhcp, pods

\* Storing or withdrawing the configuration of the worker's subnet.
LEMMA ConfGauge ==
  ASSUME GaugeInv, NEW f \in Families, Configure(f) \/ Withdraw(f)
  PROVE  GaugeInv'
  <1>1. task # None /\ task.step # "look" /\ task.todo # <<>>
    BY WorkingType DEF GaugeInv, Configure, Withdraw, Working
  <1>2. SubInv /\ SubInv' BY ConfigureStep, WithdrawStep DEF GaugeInv
  <1>3. /\ WorksAttached' /\ Sub' = Sub /\ Owed(Sub)'
        /\ \A s : Announced(s) => Announced(s)'
    BY <1>1, MoveAnnounced DEF GaugeInv, Configure, Withdraw, pods, cache
  <1> DEFINE put == Put(conf[f], Sub, Configuration(f))
             rest == Drop(conf[f], Sub)
  <1>4. conf' = [conf EXCEPT ![f] = put] \/ conf' = [conf EXCEPT ![f] = rest]
    BY DEF Configure, StoreConf, Withdraw
  <1>5. ASSUME NEW s \in PodSubnets, s # Sub
        PROVE  /\ Restrict(put, {s} \cap DOMAIN put) = Configured(s, f)
               /\ Restrict(rest, {s} \cap DOMAIN rest) = Configured(s, f)
    <2> DEFINE m == conf[f]
               v == Configuration(f)
    <2> HIDE DEF m, v
    <2>1. LET n == Put(m, Sub, v) IN Restrict(n, {s} \cap DOMAIN n) = Restrict(m, {s} \cap DOMAIN m)
      BY <1>5 DEF Put, Restrict
    <2>2. LET n == Drop(m, Sub) IN Restrict(n, {s} \cap DOMAIN n) = Restrict(m, {s} \cap DOMAIN m)
      BY <1>5 DEF Drop, Restrict
    <2> QED BY <2>1, <2>2 DEF Configured, m, v
  <1>6. UNCHANGED <<leaseGauge, podTask>> BY DEF Configure, Withdraw, pods
  <1> HIDE DEF put, rest
  <1> QED BY <1>2, <1>3, <1>4, <1>5, <1>6, ConfigurationMoves

LEMMA ServeGauge ==
  ASSUME GaugeInv, NEW f \in Families,
         Join(f) \/ Start(f) \/ StartFails(f) \/ Unbuildable(f) \/ Stop(f)
  PROVE  GaugeInv'
  <1>1. task # None /\ task.step # "look" /\ task.todo # <<>>
    BY WorkingType DEF GaugeInv, Join, Start, StartFails, Unbuildable, Stop, Working
  <1>2. SubInv /\ SubInv' BY ServeStep DEF GaugeInv
  <1>3. UNCHANGED <<queue, conf, pods, cache>> /\ \E failed \in BOOLEAN : NextFamily(failed)
    BY DEF Join, Start, StartFails, Unbuildable, Stop, dhcp
  <1>4. WorksAttached' /\ \A s : Announced(s) => Announced(s)'
    BY <1>1, <1>3, MoveAnnounced DEF GaugeInv, pods, cache
  <1> QED BY <1>2, <1>3, <1>4, GaugesKept DEF pods

LEMMA StopFailsGauge == ASSUME GaugeInv, NEW f \in Families, StopFails(f) PROVE GaugeInv'
  <1>1. task # None /\ task.step # "look" /\ task.todo # <<>>
    BY WorkingType DEF GaugeInv, StopFails, Working
  <1>2. SubInv /\ SubInv' BY StopFailsStep DEF GaugeInv
  <1>3. UNCHANGED <<conf, pods, cache>> BY DEF StopFails, dhcp
  <1>4. (\A s : Announced(s) => Announced(s)') /\ WorksAttached'
    <2>1. CASE task.ev.op = "DELETE"
      <3>1. task' = None /\ queue' = Handled(queue, task.ev, TRUE) BY <2>1 DEF StopFails
      <3>2. Prov \in Attached BY <1>1 DEF GaugeInv, WorksAttached
      <3>3. \A s : Announced(s) => Announced(s)'
        BY <1>1, <1>2, <1>3, <2>1, <3>1, <3>2, FinishAnnounced DEF pods, cache
      <3> QED BY <3>1, <3>3 DEF WorksAttached
    <2>2. CASE task.ev.op # "DELETE"
      BY <1>1, <1>3, <2>2, MoveAnnounced DEF GaugeInv, StopFails, pods, cache
    <2> QED BY <2>1, <2>2
  <1> QED BY <1>2, <1>3, <1>4, GaugesKept DEF pods

\* At the end of an item the subnet's pods are told, so nothing is owed to them.
LEMMA EndGauge == ASSUME GaugeInv, End PROVE GaugeInv'
  <1>1. task # None /\ task \in Task BY DEF End, TaskAt, GaugeInv, SubInv, TaskTyped
  <1>2. SubInv /\ SubInv' BY EndStep DEF GaugeInv
  <1>3. QueueOK(queue, Event) /\ task.ev \in queue.running /\ task.failed \in BOOLEAN
    BY <1>1, <1>2 DEF SubInv, QueueTyped, Task
  <1>4. Pending(queue) \ {task.ev} \subseteq Pending(queue') BY <1>3, HandledPending DEF End
  <1>5. \A s \in PodSubnets : Announced(s) => Announced(s)'
    BY <1>4 DEF End, Report, Announced, Owed, Attached, Sub, cache
  <1>6. WorksAttached' BY DEF End, WorksAttached
  <1> QED BY <1>2, <1>5, <1>6, GaugesKept DEF End

LEMMA WorkerGauge == GaugeInv /\ Worker => GaugeInv'
  BY SkipGauge, TakeGauge, LookGauge, ConfGauge, ServeGauge, StopFailsGauge, EndGauge
     DEF Worker, FamilyStep

LEMMA PodTakeGauge == ASSUME GaugeInv, NEW s \in PodSubnets, PodTake(s) PROVE GaugeInv'
  <1>1. SubInv /\ SubInv' BY PodTakeStep DEF GaugeInv
  <1>2. /\ podTask = None /\ podTask' # None
        /\ podTask'.sub = s /\ podTask'.todo = FamOrder /\ podTask'.read = None
    <2>1. podTask' \in PodTask /\ podTask'.read = None BY FamilyOrderAssumption DEF PodTake, PodTask
    <2> QED BY <1>1, <2>1, NoneAssumption DEF PodTake, SubInv, PodTyped
  <1>3. UNCHANGED <<task, queue, conf, leaseGauge, infoMap>> BY DEF PodTake, dhcp, cache
  <1>4. \A t \in PodSubnets : t # s => (Announced(t) => Announced(t)')
    BY <1>3 DEF PodTake, Announced, Owed, Attached, Sub
  <1>5. \A t, g : Shown(t, g)' = Shown(t, g) /\ Configured(t, g)' = Configured(t, g)
    BY <1>3 DEF Shown, Configured
  <1>6. GaugesFollow' BY <1>2, <1>4, <1>5 DEF GaugeInv, GaugesFollow, Families
  <1>7. ReadFollows' /\ WorksAttached'
    BY <1>2, <1>3 DEF GaugeInv, ReadFollows, WorksAttached, Attached, Prov
  <1> QED BY <1>1, <1>6, <1>7 DEF GaugeInv

LEMMA PodReadGauge == ASSUME GaugeInv, NEW f \in Families, PodRead(f) PROVE GaugeInv'
  <1> DEFINE read == Configured(podTask.sub, f)
  <1>1. SubInv /\ SubInv' /\ podTask' # None BY PodReadStep DEF GaugeInv
  <1>2. podTask # None /\ podTask \in PodTask /\ Head(podTask.todo) = f
    BY <1>1 DEF PodRead, SubInv, PodTyped
  <1>3. podTask' = [podTask EXCEPT !.read = read] BY DEF PodRead, Configured
  <1> HIDE DEF read
  <1>4. podTask'.sub = podTask.sub /\ podTask'.todo = podTask.todo /\ podTask'.read = read
    BY <1>2, <1>3 DEF PodTask
  <1>5. UNCHANGED <<task, queue, conf, leaseGauge, infoMap, podQueue>> BY DEF PodRead, dhcp, cache
  <1>6. /\ \A t : Announced(t) => Announced(t)'
        /\ \A t, g : Shown(t, g)' = Shown(t, g) /\ Configured(t, g)' = Configured(t, g)
    BY <1>5 DEF Announced, Owed, Attached, Sub, Shown, Configured
  <1>7. GaugesFollow' BY <1>1, <1>2, <1>4, <1>6 DEF GaugeInv, GaugesFollow
  <1>8. ReadFollows' BY <1>2, <1>4, <1>6 DEF ReadFollows, read
  <1>9. WorksAttached' BY <1>5 DEF GaugeInv, WorksAttached, Attached, Prov
  <1> QED BY <1>1, <1>7, <1>8, <1>9 DEF GaugeInv

\* What the gauge shows after a write is what the pod worker has read.
LEMMA WriteShows ==
  ASSUME SubInv, NEW f \in Families, PodWrite(f)
  PROVE  \A s \in PodSubnets, g \in Families :
           Shown(s, g)' = IF s = podTask.sub /\ g = f THEN podTask.read ELSE Shown(s, g)
  <1> DEFINE p == podTask.sub
             read == podTask.read
             old == leaseGauge[f]
             new == IF read = EmptyMap THEN Drop(old, p) ELSE Put(old, p, read[p])
  <1>1. podTask \in PodTask /\ read \in MapOf(PodSubnets, Config) /\ DOMAIN read \subseteq {p}
    BY DEF PodWrite, SubInv, PodTyped, PodTask
  <1>2. leaseGauge \in [Families -> MapOf(PodSubnets, Config)] BY DEF SubInv, PodTyped
  <1>3. leaseGauge' = [leaseGauge EXCEPT ![f] = new] BY DEF PodWrite
  <1>4. podTask.sub = p /\ podTask.read = read OBVIOUS
  <1>5. read = [x \in DOMAIN read |-> read[x]] BY <1>1, MapOfElim
  <1>6. Restrict(new, {p} \cap DOMAIN new) = read
    <2> HIDE DEF p, read, old
    <2>1. CASE read = EmptyMap BY <2>1 DEF Drop, Restrict, EmptyMap
    <2>2. CASE read # EmptyMap
      <3>1. DOMAIN read = {p} BY <1>1, <1>5, <2>2 DEF EmptyMap
      <3> QED BY <1>5, <2>2, <3>1 DEF Put, Restrict
    <2> QED BY <2>1, <2>2
  <1>7. \A s : s # p => Restrict(new, {s} \cap DOMAIN new) = Restrict(old, {s} \cap DOMAIN old)
    <2> HIDE DEF p, read, old
    <2> QED BY DEF Put, Drop, Restrict
  <1> HIDE DEF new, p, read
  <1>8. leaseGauge'[f] = new /\ \A g \in Families : g # f => leaseGauge'[g] = leaseGauge[g]
    BY <1>2, <1>3
  <1> QED BY <1>4, <1>6, <1>7, <1>8 DEF Shown, p, read

LEMMA PodWriteGauge == ASSUME GaugeInv, NEW f \in Families, PodWrite(f) PROVE GaugeInv'
  <1> DEFINE rest == Tail(podTask.todo)
  <1>1. SubInv /\ SubInv' /\ (Len(podTask.todo) # 1 => podTask' # None)
    BY PodWriteStep DEF GaugeInv
  <1>2. /\ podTask # None /\ podTask \in PodTask /\ podTask.read # None
        /\ podTask.todo \in Seq(Families) /\ podTask.todo # <<>> /\ Head(podTask.todo) = f
    BY <1>1 DEF PodWrite, SubInv, PodTyped, PodTask
  <1>3. UNCHANGED <<task, queue, conf, infoMap, podQueue>> BY DEF PodWrite, dhcp, cache
  <1>4. /\ \A t : Announced(t) => Announced(t)'
        /\ \A t, g : Configured(t, g)' = Configured(t, g)
    BY <1>3 DEF Announced, Owed, Attached, Sub, Configured
  <1>5. \A g \in ToSet(podTask.todo) : g # f =>
          Len(podTask.todo) # 1 /\ g \in ToSet(rest)
    <2> SUFFICES ASSUME NEW i \in DOMAIN podTask.todo, podTask.todo[i] # f
                 PROVE  Len(podTask.todo) # 1 /\ podTask.todo[i] \in ToSet(rest)
      BY DEF ToSet
    <2>1. i \in 2..Len(podTask.todo) BY <1>2
    <2>2. i - 1 \in DOMAIN rest /\ rest[i - 1] = podTask.todo[i] BY <1>2, <2>1
    <2> QED BY <2>1, <2>2 DEF ToSet
  <1>6. \/ podTask' = None
        \/ podTask'.sub = podTask.sub /\ podTask'.todo = rest /\ podTask'.read = None
    BY <1>2 DEF PodWrite, PodTask
  <1>7. Len(podTask.todo) # 1 =>
          podTask' # None /\ podTask'.sub = podTask.sub /\ podTask'.todo = rest
    <2> HIDE DEF rest
    <2> SUFFICES ASSUME Len(podTask.todo) # 1
                 PROVE  podTask'.sub = podTask.sub /\ podTask'.todo = rest
      BY <1>1
    <2>1. podTask' = [podTask EXCEPT !.todo = rest, !.read = None] BY DEF PodWrite, rest
    <2> QED BY <1>2, <2>1 DEF PodTask
  <1> HIDE DEF rest
  <1>8. GaugesFollow'
    <2> SUFFICES ASSUME NEW s \in PodSubnets, NEW g \in Families, ~Announced(s)'
                 PROVE  \/ Shown(s, g)' = Configured(s, g)'
                        \/ podTask' # None /\ podTask'.sub = s /\ g \in ToSet(podTask'.todo)
      BY DEF GaugesFollow
    <2>1. ~Announced(s) BY <1>4
    <2>2. CASE s = podTask.sub /\ g = f
      BY <1>1, <1>2, <1>4, <2>1, <2>2, WriteShows DEF GaugeInv, ReadFollows
    <2>3. CASE s # podTask.sub \/ g # f
      <3>1. Shown(s, g)' = Shown(s, g) BY <1>1, <2>3, WriteShows
      <3>2. \/ Shown(s, g) = Configured(s, g)
            \/ podTask.sub = s /\ g \in ToSet(podTask.todo)
        BY <2>1 DEF GaugeInv, GaugesFollow
      <3> QED BY <1>4, <1>5, <1>7, <2>3, <3>1, <3>2
    <2> QED BY <2>2, <2>3
  <1>9. ReadFollows' /\ WorksAttached'
    BY <1>3, <1>6 DEF GaugeInv, ReadFollows, WorksAttached, Attached, Prov
  <1> QED BY <1>1, <1>8, <1>9 DEF GaugeInv

LEMMA GaugeStep == GaugeInv /\ [Next]_vars => GaugeInv'
  <1>1. GaugeInv /\ UNCHANGED vars => GaugeInv'
    <2> SUFFICES ASSUME GaugeInv, UNCHANGED vars PROVE GaugeInv' OBVIOUS
    <2>1. SubInv' BY InvStep DEF GaugeInv
    <2>2. UNCHANGED <<task, queue, conf, leaseGauge, infoMap, podQueue, podTask>>
      BY DEF vars, dhcp, pods, cache
    <2> QED BY <2>1, <2>2 DEF GaugeInv, GaugesFollow, ReadFollows, WorksAttached, Announced, Owed,
                              Shown, Configured, Attached, Sub, Prov
  <1>2. GaugeInv /\ PodWorker => GaugeInv'
    BY PodTakeGauge, PodReadGauge, PodWriteGauge DEF PodWorker
  <1> QED BY <1>1, <1>2, InformerGauge, WorkerGauge DEF Next

LEMMA GaugeInit == Init => GaugeInv
  <1> SUFFICES ASSUME Init PROVE GaugeInv OBVIOUS
  <1>1. SubInv BY InvInit
  <1>2. \A s : \A f \in Families : Shown(s, f) = Configured(s, f) BY DEF Init, Shown, Configured
  <1> QED BY <1>1, <1>2 DEF Init, GaugeInv, GaugesFollow, ReadFollows, WorksAttached

LEMMA GaugeFresh == GaugeInv => LeaseGaugeFresh
  <1> SUFFICES ASSUME GaugeInv, NEW s \in PodSubnets, NEW f \in Families,
                      Settled(s), s \notin podQueue, podTask = None \/ podTask.sub # s
               PROVE  Shown(s, f) = Configured(s, f)
    BY DEF LeaseGaugeFresh, Shown, Configured
  <1>1. task # None => task.ev \in Pending(queue)
    BY DEF GaugeInv, SubInv, QueueTyped, Pending
  <1>2. ~Owed(s) BY <1>1 DEF Owed, Settled, Sub
  <1> QED BY <1>2 DEF GaugeInv, GaugesFollow, Announced

\* However edits, retries, failing servers and the pod worker's two steps
\* interleave, and whether or not edits wait for each other, the lease gauges show
\* a subnet's configuration once nothing about it or its pods is under way.
THEOREM GaugeTheorem == Spec => []LeaseGaugeFresh
  BY GaugeInit, GaugeStep, GaugeFresh, PTL DEF Spec
=============================================================================
