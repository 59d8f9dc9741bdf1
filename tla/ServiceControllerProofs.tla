---------------------- MODULE ServiceControllerProofs ----------------------
(***************************************************************************)
(* Theorems about ServiceController, the service and subnet controllers    *)
(* together, for every set of Services, annotations, subnets and           *)
(* providers: their types; that the network cache follows the Services;    *)
(* and that what is served follows the cache, so that subnets are served   *)
(* on the networks there are, and servers stop only when nobody is left.   *)
(***************************************************************************)
EXTENDS ServiceController, SubnetServedProofs

SvcListTyped ==
  /\ svcLister \in [Services -> SvcSpec \cup {None}]
  /\ svcNotes \in Seq(SvcNote)

SvcQueueTyped ==
  QueueOK(svcQueue, SvcEvent) /\ svcQueue.running = (IF svcTask = None THEN {} ELSE {svcTask.ev})

\* Only a DELETE removes a network, and while it works on a subnet it knows which.
SvcTaskTyped ==
  /\ svcTask \in StoreTask \cup RemoveTask \cup {None}
  /\ svcTask # None =>
       /\ svcTask.ev.op = "DELETE" <=> svcTask \in RemoveTask
       /\ svcTask.step \in {"withdraw", "stop"} => svcTask.sub \in Subnets

LockHeld == cacheHeld <=> svcTask # None /\ svcTask.ev.op = "DELETE"

SvcInv == SubInv /\ SvcListTyped /\ SvcQueueTyped /\ SvcTaskTyped /\ LockHeld

LEMMA SvcInvTypes == SvcInv => SvcTypeOK
  BY InvTypes DEF SvcInv, SvcListTyped, SvcQueueTyped, SvcTaskTyped, LockHeld, SvcTypeOK,
                  QueueOK, QueueOf, Pending

LEMMA SvcInvInit == SvcInit => SvcInv
  <1> SUFFICES ASSUME SvcInit PROVE SvcInv
    OBVIOUS
  <1>1. SubInv BY InvInit DEF SvcInit
  <1>2. SvcQueueTyped BY EmptyOK DEF SvcInit, SvcQueueTyped
  <1>3. SvcListTyped /\ SvcTaskTyped BY DEF SvcInit, SvcListTyped, SvcTaskTyped
  <1>4. LockHeld BY DEF SvcInit, Init, LockHeld
  <1> QED BY <1>1, <1>2, <1>3, <1>4 DEF SvcInv

-----------------------------------------------------------------------------
(***************************************************************************)
(* The subnet controller's steps leave the Services and the lock alone.    *)
(***************************************************************************)
LEMMA SubnetOnly ==
  ASSUME SvcInv, SubInv', UNCHANGED <<svcVars, cacheHeld>>
  PROVE  SvcInv'
  BY DEF SvcInv, SvcListTyped, SvcQueueTyped, SvcTaskTyped, LockHeld, svcVars

LEMMA WorkersKeepLock ==
  Deliver \/ Worker \/ PodWorker \/ (\E e \in queue.later : RetryTimer(e)) => UNCHANGED cacheHeld
  BY DEF Deliver, RetryTimer, Worker, FamilyStep, PodWorker, Skip, Take, Look, Unbuildable,
         Configure, Join, Start, StartFails, Withdraw, Stop, StopFails, End, PodTake, PodRead,
         PodWrite, cache

LEMMA SubnetControllerStep ==
  ASSUME SvcInv,
         \/ SubnetSteps
         \/ \E s \in Subnets : \E new \in Specs[s] \cup {None} : SubnetEdit(s, new)
  PROVE  SvcInv'
  <1>1. CASE SubnetSteps
    <2>1. SubInv' /\ UNCHANGED cacheHeld
      BY <1>1, DeliverStep, RetryStep, WorkerStep, PodWorkerStep, WorkersKeepLock
         DEF SubnetSteps, SvcInv
    <2> QED BY <1>1, <2>1, SubnetOnly DEF SubnetSteps
  <1>2. ASSUME NEW s \in Subnets, NEW new \in Specs[s] \cup {None}, SubnetEdit(s, new)
        PROVE  SvcInv'
    <2>1. SubInv' BY <1>2, EditStep DEF SubnetEdit, SvcInv
    <2> QED BY <1>2, <2>1, SubnetOnly DEF SubnetEdit, Edit, cache
  <1> QED BY <1>1, <1>2

-----------------------------------------------------------------------------
(***************************************************************************)
(* The informer, the event handler and the timers of Services.             *)
(***************************************************************************)
\* What the subnet controller keeps when only Services move.
LEMMA SvcOnly == SubInv /\ UNCHANGED subnetVars => SubInv' /\ UNCHANGED cacheHeld
  BY DEF SubInv, ListTyped, QueueTyped, TaskTyped, DhcpTyped, PodTyped, CacheTyped, subnetVars,
         dhcp, pods, cache

LEMMA SvcEditStep ==
  ASSUME SvcInv, NEW v \in Services, NEW new \in SvcSpecs[v], ServiceEdit(v, new)
  PROVE  SvcInv'
  <1> DEFINE note == [svc |-> v, old |-> svcLister[v], new |-> new]
  <1>1. new \in SvcSpec \cup {None} BY ServiceAssumption
  <1>2. note \in SvcNote BY <1>1 DEF SvcNote, SvcInv, SvcListTyped
  <1>3. svcNotes' = Append(svcNotes, note) BY DEF ServiceEdit, SvcEdit
  <1> HIDE DEF note
  <1>4. svcNotes' \in Seq(SvcNote) BY <1>2, <1>3 DEF SvcInv, SvcListTyped
  <1>5. SvcListTyped' BY <1>1, <1>4 DEF ServiceEdit, SvcEdit, SvcInv, SvcListTyped
  <1>6. SubInv' /\ UNCHANGED cacheHeld BY SvcOnly DEF ServiceEdit, SvcEdit, SvcInv
  <1> QED BY <1>5, <1>6 DEF ServiceEdit, SvcEdit, SvcInv, SvcQueueTyped, SvcTaskTyped, LockHeld

\* What the event handler queues are events.
LEMMA SvcEventsType == ASSUME NEW n \in SvcNote PROVE SvcEventsOf(n) \in Seq(SvcEvent)
  <1>1. \A op \in {"ADD", "UPDATE", "DELETE"}, w \in Written :
          [svc |-> n.svc, op |-> op, w |-> w] \in SvcEvent
    BY DEF SvcNote, SvcEvent
  <1>2. \A op \in {"ADD", "UPDATE", "DELETE"}, w \in Written :
          <<[svc |-> n.svc, op |-> op, w |-> w]>> \in Seq(SvcEvent)
    BY <1>1
  <1> DEFINE before == IF n.old = None THEN None ELSE n.old.w
             after == IF n.new = None THEN None ELSE n.new.w
  <1>3. before \in Written \cup {None} /\ after \in Written \cup {None} BY DEF SvcNote, SvcSpec
  <1> QED BY <1>2, <1>3 DEF SvcEventsOf

LEMMA SvcDeliverStep == ASSUME SvcInv, SvcDeliver PROVE SvcInv'
  <1> DEFINE n == Head(svcNotes)
             rest == Tail(svcNotes)
  <1>1. n \in SvcNote /\ rest \in Seq(SvcNote) BY DEF SvcDeliver, SvcInv, SvcListTyped
  <1>2. svcQueue' = AddEach(svcQueue, SvcEventsOf(n)) /\ svcNotes' = rest BY DEF SvcDeliver
  <1> HIDE DEF n, rest
  <1>3. QueueOK(svcQueue', SvcEvent) /\ svcQueue'.running = svcQueue.running
    BY <1>1, <1>2, SvcEventsType, AddEachOK DEF SvcInv, SvcQueueTyped
  <1>4. SubInv' /\ UNCHANGED cacheHeld BY SvcOnly DEF SvcDeliver, SvcInv
  <1> QED BY <1>1, <1>2, <1>3, <1>4
          DEF SvcDeliver, SvcInv, SvcListTyped, SvcQueueTyped, SvcTaskTyped, LockHeld

LEMMA SvcRetryStep == ASSUME SvcInv, NEW e \in svcQueue.later, SvcRetryTimer(e) PROVE SvcInv'
  <1>1. e \in SvcEvent /\ QueueOK(svcQueue, SvcEvent)
    BY DEF SvcInv, SvcQueueTyped, QueueOK, QueueOf
  <1>2. QueueOK(svcQueue', SvcEvent) /\ svcQueue'.running = svcQueue.running
    BY <1>1, ExpireOK DEF SvcRetryTimer
  <1>3. SubInv' /\ UNCHANGED cacheHeld BY SvcOnly DEF SvcRetryTimer, SvcInv
  <1> QED BY <1>2, <1>3
          DEF SvcRetryTimer, SvcInv, SvcListTyped, SvcQueueTyped, SvcTaskTyped, LockHeld

-----------------------------------------------------------------------------
(***************************************************************************)
(* The service worker.                                                     *)
(***************************************************************************)
\* The worker may take the first item when it is idle, and holds no lock then.
LEMMA SvcIdleType ==
  ASSUME SvcInv, SvcIdle
  PROVE  /\ svcTask = None /\ ~cacheHeld /\ NextSvcEvent \in SvcEvent
         /\ QueueOK(svcQueue, SvcEvent) /\ svcQueue.running = {} /\ svcQueue.order # <<>>
         /\ QueueOK(Get(svcQueue), SvcEvent) /\ Get(svcQueue).running = {NextSvcEvent}
  <1>1. svcTask = None /\ ~cacheHeld /\ svcQueue.order # <<>>
    BY DEF SvcIdle, SvcInv, LockHeld
  <1>2. QueueOK(svcQueue, SvcEvent) /\ svcQueue.running = {} BY <1>1 DEF SvcInv, SvcQueueTyped
  <1> QED BY <1>1, <1>2, GetOK DEF NextSvcEvent

LEMMA SvcFinishType ==
  ASSUME SvcInv, svcTask # None, NEW failed \in BOOLEAN, SvcFinish(failed)
  PROVE  SvcQueueTyped' /\ SvcTaskTyped'
  <1>1. svcTask.ev \in SvcEvent BY DEF SvcInv, SvcTaskTyped, StoreTask, RemoveTask
  <1>2. QueueOK(svcQueue, SvcEvent) /\ svcQueue.running = {svcTask.ev}
    BY DEF SvcInv, SvcQueueTyped
  <1>3. QueueOK(svcQueue', SvcEvent) /\ svcQueue'.running = svcQueue.running \ {svcTask.ev}
    BY <1>1, <1>2, HandledOK DEF SvcFinish
  <1>4. svcQueue'.running = {} /\ svcTask' = None BY <1>2, <1>3 DEF SvcFinish
  <1> QED BY <1>3, <1>4 DEF SvcQueueTyped, SvcTaskTyped

\* At a step of storing or of removing a network the task is of that kind.
LEMMA SvcAtType ==
  ASSUME SvcInv
  PROVE  /\ SvcAt("list") \/ SvcAt("notify") => svcTask \in StoreTask
         /\ SvcAt("pick") \/ SvcAt("withdraw") \/ SvcAt("stop") => svcTask \in RemoveTask
  BY DEF SvcAt, SvcInv, SvcTaskTyped, StoreTask, RemoveTask

\* Going on with the same item.
LEMMA SvcMove ==
  ASSUME SvcInv, svcTask # None, svcTask'.ev = svcTask.ev, UNCHANGED svcQueue,
         \/ svcTask \in StoreTask /\ svcTask' \in StoreTask
         \/ /\ svcTask \in RemoveTask /\ svcTask' \in RemoveTask
            /\ svcTask'.step \in {"withdraw", "stop"} => svcTask'.sub \in Subnets
  PROVE  SvcQueueTyped' /\ SvcTaskTyped' /\ svcTask' # None
  <1>1. svcTask' # None BY SvcNoneAssumption
  <1>2. SvcQueueTyped' BY <1>1 DEF SvcInv, SvcQueueTyped
  <1>3. \A t \in StoreTask : t \notin RemoveTask /\ t.step \notin {"withdraw", "stop"}
    BY DEF StoreTask, RemoveTask
  <1>4. SvcTaskTyped' BY <1>1, <1>3 DEF SvcInv, SvcTaskTyped
  <1> QED BY <1>1, <1>2, <1>4

LEMMA SvcSkipStep == ASSUME SvcInv, SvcSkip PROVE SvcInv'
  <1>1. SvcIdle BY DEF SvcSkip
  <1> DEFINE e == NextSvcEvent
             again == e.op # "DELETE" /\ Eligible(svcLister[e.svc]) /\ Contested(svcLister[e.svc])
  <1>2. again \in BOOLEAN /\ svcQueue' = Handled(Get(svcQueue), Head(svcQueue.order), again)
    BY DEF SvcSkip, NextSvcEvent
  <1> HIDE DEF again
  <1>3. QueueOK(svcQueue', SvcEvent) /\ svcQueue'.running = {}
    BY <1>1, <1>2, SvcIdleType, GetHandledOK
  <1>4. SubInv' /\ UNCHANGED cacheHeld BY SvcOnly DEF SvcSkip, SvcInv
  <1> QED BY <1>1, <1>3, <1>4, SvcIdleType
          DEF SvcSkip, SvcInv, SvcListTyped, SvcQueueTyped, SvcTaskTyped, LockHeld

\* A change of the mapped networks, or of the lock, disturbs nothing else there is.
LEMMA CacheOnly ==
  ASSUME SubInv, CacheTyped', UNCHANGED <<lister, notes, queue, task, dhcp, pods>>
  PROVE  SubInv'
  BY DEF SubInv, ListTyped, QueueTyped, TaskTyped, DhcpTyped, PodTyped, dhcp, pods

LEMMA SvcStoreStep == ASSUME SvcInv, SvcStore PROVE SvcInv'
  <1> DEFINE e == NextSvcEvent
             spec == svcLister[e.svc]
             t == StoringTask(e, Provider(spec))
  <1>1. SvcIdle /\ e.op # "DELETE" /\ Usable(spec) BY DEF SvcStore
  <1>2. e \in SvcEvent /\ spec \in SvcSpec
    <2>1. e \in SvcEvent BY <1>1, SvcIdleType
    <2>2. spec \in SvcSpec \cup {None} BY <2>1 DEF SvcEvent, SvcInv, SvcListTyped
    <2> QED BY <1>1, <2>1, <2>2 DEF Usable, Eligible
  <1>3. Provider(spec) \in Providers \ DOMAIN OrgMap /\ spec.ips \in Network
    <2>1. spec.w \in Written /\ spec # None /\ Qualified[spec.w] # None
      BY <1>1, <1>2 DEF Usable, Eligible, SvcSpec
    <2>2. Provider(spec) = Qualified[spec.w] BY <1>1 DEF Provider, Usable, Eligible
    <2>3. Provider(spec) \in Providers BY <2>1, <2>2, ServiceAssumption
    <2> QED BY <1>1, <1>2, <2>3 DEF Usable, SvcSpec
  <1>4. infoMap' = Put(infoMap, Provider(spec), spec.ips) /\ svcTask' = t
        /\ svcQueue' = Get(svcQueue)
    BY DEF SvcStore, SetNetworkStatus
  <1>5. t \in StoreTask /\ t.ev = e /\ t.step = "list" BY <1>2, <1>3 DEF StoringTask, StoreTask
  <1> HIDE DEF e, spec, t
  <1>6. CacheTyped' BY <1>3, <1>4, PutType DEF SvcInv, SubInv, CacheTyped
  <1>7. SubInv' BY <1>6, CacheOnly DEF SvcStore, SetNetworkStatus, SvcInv
  <1>8. svcTask' # None BY <1>4, <1>5, SvcNoneAssumption
  <1>9. SvcQueueTyped'
    BY <1>1, <1>4, <1>5, <1>8, SvcIdleType DEF SvcQueueTyped, e
  <1>10. SvcTaskTyped'
    <2>1. t \notin RemoveTask BY <1>5 DEF RemoveTask
    <2> QED BY <1>1, <1>4, <1>5, <1>8, <2>1 DEF SvcTaskTyped
  <1>11. LockHeld' BY <1>1, <1>4, <1>5, SvcIdleType DEF SvcStore, LockHeld
  <1> QED BY <1>7, <1>9, <1>10, <1>11 DEF SvcStore, SetNetworkStatus, SvcInv, SvcListTyped

LEMMA ProviderSubnets == \A p : GetSubnetsByDHCPProvider(p) \subseteq Subnets
  BY DEF GetSubnetsByDHCPProvider

LEMMA SvcListStep == ASSUME SvcInv, SvcList PROVE SvcInv'
  <1>1. svcTask # None /\ svcTask \in StoreTask BY SvcAtType DEF SvcList, SvcAt
  <1>2. svcTask' \in StoreTask /\ svcTask'.ev = svcTask.ev
    BY <1>1, ProviderSubnets DEF SvcList, StoreTask
  <1>3. SvcQueueTyped' /\ SvcTaskTyped' /\ svcTask' # None BY <1>1, <1>2, SvcMove DEF SvcList
  <1>4. SubInv' /\ UNCHANGED cacheHeld BY SvcOnly DEF SvcList, SvcInv
  <1> QED BY <1>1, <1>2, <1>3, <1>4 DEF SvcList, SvcInv, SvcListTyped, LockHeld

LEMMA SvcNotifyStep == ASSUME SvcInv, NEW s \in Subnets, SvcNotify(s) PROVE SvcInv'
  <1> DEFINE e == [sub |-> s, op |-> "UPDATE", prov |-> svcTask.prov]
  <1>1. svcTask # None /\ svcTask \in StoreTask BY SvcAtType DEF SvcNotify, SvcAt
  <1>2. e \in Event BY <1>1 DEF StoreTask, Event
  <1>3. queue' = Add(queue, e) BY DEF SvcNotify
  <1>4. svcTask' \in StoreTask /\ svcTask'.ev = svcTask.ev BY <1>1 DEF SvcNotify, StoreTask
  <1> HIDE DEF e
  <1>5. QueueOK(queue', Event) /\ queue'.running = queue.running
    BY <1>2, <1>3, AddOK DEF SvcInv, SubInv, QueueTyped
  <1>6. SubInv' /\ UNCHANGED cacheHeld
    BY <1>5 DEF SvcNotify, SvcInv, SubInv, ListTyped, QueueTyped, TaskTyped, DhcpTyped, PodTyped,
                CacheTyped, dhcp, pods, cache
  <1>7. SvcQueueTyped' /\ SvcTaskTyped' /\ svcTask' # None BY <1>1, <1>4, SvcMove DEF SvcNotify
  <1> QED BY <1>1, <1>4, <1>6, <1>7 DEF SvcNotify, SvcInv, SvcListTyped, LockHeld

LEMMA SvcNotifiedStep == ASSUME SvcInv, SvcNotified PROVE SvcInv'
  <1>1. svcTask # None /\ svcTask \in StoreTask BY SvcAtType DEF SvcNotified, SvcAt
  <1>2. SvcQueueTyped' /\ SvcTaskTyped' BY <1>1, SvcFinishType DEF SvcNotified
  <1>3. svcTask \notin RemoveTask BY <1>1 DEF StoreTask, RemoveTask
  <1>4. ~cacheHeld BY <1>1, <1>3 DEF SvcInv, LockHeld, SvcTaskTyped
  <1>5. SubInv' /\ UNCHANGED cacheHeld BY SvcOnly DEF SvcNotified, SvcInv
  <1> QED BY <1>2, <1>4, <1>5
          DEF SvcNotified, SvcFinish, SvcInv, SvcListTyped, LockHeld

-----------------------------------------------------------------------------
(***************************************************************************)
(* The service worker removes a network.                                   *)
(***************************************************************************)
LEMMA SvcDeleteStep == ASSUME SvcInv, SvcDelete PROVE SvcInv'
  <1> DEFINE e == NextSvcEvent
             t == [ev |-> e, prov |-> Qualified[e.w], step |-> "pick",
                   todo |-> GetSubnetsByDHCPProvider(e.w), sub |-> None, fams |-> <<>>]
  <1>1. SvcIdle /\ e.op = "DELETE" /\ Qualified[e.w] \in DOMAIN infoMap BY DEF SvcDelete
  <1>2. e \in SvcEvent BY <1>1, SvcIdleType
  <1>3. Qualified[e.w] \in Providers BY <1>1, MapOfElim DEF SvcInv, SubInv, CacheTyped
  <1>4. t \in RemoveTask /\ t.ev = e /\ t.step = "pick"
    BY <1>2, <1>3, ProviderSubnets DEF RemoveTask
  <1>5. svcTask' = t /\ svcQueue' = Get(svcQueue) /\ cacheHeld' BY DEF SvcDelete
  <1> HIDE DEF e, t
  <1>6. svcTask' # None BY <1>4, <1>5, SvcNoneAssumption
  <1>7. SvcQueueTyped' BY <1>1, <1>4, <1>5, <1>6, SvcIdleType DEF SvcQueueTyped, e
  <1>8. SvcTaskTyped' BY <1>1, <1>4, <1>5 DEF SvcTaskTyped
  <1>9. LockHeld' BY <1>1, <1>4, <1>5, <1>6 DEF LockHeld
  <1>10. SubInv' BY CacheOnly DEF SvcDelete, SvcInv, SubInv, CacheTyped
  <1> QED BY <1>7, <1>8, <1>9, <1>10 DEF SvcDelete, SvcInv, SvcListTyped

\* What the worker has while it removes a network, and that it holds the lock.
LEMMA RemovingType ==
  ASSUME SvcInv, NEW step \in {"pick", "withdraw", "stop"}, SvcAt(step)
  PROVE  /\ svcTask # None /\ svcTask \in RemoveTask /\ svcTask.step = step /\ cacheHeld
         /\ svcTask.prov \in Providers
         /\ step # "pick" => svcTask.sub \in Subnets
  BY SvcAtType DEF SvcAt, SvcInv, SvcTaskTyped, LockHeld, RemoveTask

\* Going on with the removal.
LEMMA RemoveMove ==
  ASSUME SvcInv, svcTask \in RemoveTask, svcTask # None, svcTask' \in RemoveTask,
         svcTask'.ev = svcTask.ev, svcTask'.step \in {"withdraw", "stop"} => svcTask'.sub \in Subnets,
         UNCHANGED <<svcLister, svcNotes, svcQueue, cacheHeld>>, SubInv'
  PROVE  SvcInv'
  <1>1. SvcQueueTyped' /\ SvcTaskTyped' /\ svcTask' # None BY SvcMove
  <1> QED BY <1>1 DEF SvcInv, SvcListTyped, LockHeld

LEMMA SvcPickStep == ASSUME SvcInv, NEW s \in Subnets, SvcPick(s) PROVE SvcInv'
  <1>1. svcTask # None /\ svcTask \in RemoveTask BY RemovingType DEF SvcPick
  <1>2. svcTask' \in RemoveTask /\ svcTask'.ev = svcTask.ev /\ svcTask'.sub = s
    BY <1>1, FamilyOrderAssumption DEF SvcPick, RemoveTask
  <1>3. SubInv' /\ UNCHANGED cacheHeld BY SvcOnly DEF SvcPick, SvcInv
  <1> QED BY <1>1, <1>2, <1>3, RemoveMove DEF SvcPick

\* Moving on to the next step of a family or to the next family.
LEMMA FamilyMove ==
  ASSUME SvcInv, NEW f, NEW step \in {"withdraw", "stop"}, SvcWorking(f, step),
         SvcNextFamily \/ svcTask' = [svcTask EXCEPT !.step = "stop"]
  PROVE  svcTask' \in RemoveTask /\ svcTask'.ev = svcTask.ev /\ svcTask'.sub \in Subnets
  <1> DEFINE rest == Tail(svcTask.fams)
  <1>1. svcTask \in RemoveTask /\ svcTask.sub \in Subnets /\ svcTask.fams # <<>>
    BY RemovingType DEF SvcWorking
  <1>2. rest \in Seq(Families) BY <1>1 DEF RemoveTask
  <1>3. \/ svcTask' = [svcTask EXCEPT !.step = "withdraw", !.fams = rest]
        \/ svcTask' = [svcTask EXCEPT !.step = "stop"]
    BY DEF SvcNextFamily
  <1> HIDE DEF rest
  <1> QED BY <1>1, <1>2, <1>3 DEF RemoveTask

\* A change of what is configured and served.
LEMMA DhcpOnly ==
  ASSUME SubInv, DhcpTyped', UNCHANGED <<lister, notes, queue, task, pods, cache>>
  PROVE  SubInv'
  BY DEF SubInv, ListTyped, QueueTyped, TaskTyped, PodTyped, CacheTyped, pods, cache

LEMMA SvcWithdrawStep == ASSUME SvcInv, NEW f \in Families, SvcWithdraw(f) PROVE SvcInv'
  <1>1. SvcWorking(f, "withdraw") /\ SvcAt("withdraw") BY DEF SvcWithdraw, SvcWorking
  <1>2. svcTask \in RemoveTask /\ svcTask # None BY <1>1, RemovingType
  <1>3. svcTask' \in RemoveTask /\ svcTask'.ev = svcTask.ev /\ svcTask'.sub \in Subnets
    BY <1>1, FamilyMove DEF SvcWithdraw
  <1>4. DhcpTyped' BY WithdrawType DEF SvcWithdraw, SvcInv, SubInv
  <1>5. SubInv' BY <1>4, DhcpOnly DEF SvcWithdraw, SvcInv
  <1> QED BY <1>2, <1>3, <1>5, RemoveMove DEF SvcWithdraw, cache

LEMMA SvcStopStep == ASSUME SvcInv, NEW f \in Families, SvcStop(f) PROVE SvcInv'
  <1>1. SvcWorking(f, "stop") /\ SvcAt("stop") BY DEF SvcStop, SvcWorking
  <1>2. svcTask \in RemoveTask /\ svcTask # None BY <1>1, RemovingType
  <1>3. svcTask' \in RemoveTask /\ svcTask'.ev = svcTask.ev /\ svcTask'.sub \in Subnets
    BY <1>1, FamilyMove DEF SvcStop
  <1>4. DhcpTyped' BY StopType DEF SvcStop, SvcInv, SubInv
  <1>5. SubInv' BY <1>4, DhcpOnly DEF SvcStop, SvcInv
  <1> QED BY <1>2, <1>3, <1>5, RemoveMove DEF SvcStop, cache

LEMMA SvcReportStep == ASSUME SvcInv, SvcReport PROVE SvcInv'
  <1>1. /\ svcTask \in RemoveTask /\ svcTask # None /\ svcTask.sub \in Subnets
        /\ svcTask.prov \in Providers
    BY RemovingType DEF SvcReport
  <1>2. svcTask' \in RemoveTask /\ svcTask'.ev = svcTask.ev /\ svcTask'.step = "pick"
    BY <1>1 DEF SvcReport, RemoveTask
  <1>3. DhcpTyped' /\ PodTyped' BY <1>1, ReportType DEF SvcReport, SvcInv, SubInv
  <1>4. SubInv' BY <1>3 DEF SvcReport, SvcInv, SubInv, ListTyped, QueueTyped, TaskTyped, CacheTyped,
                            cache
  <1> QED BY <1>1, <1>2, <1>4, RemoveMove DEF SvcReport, cache

\* The removal is over, done or not, and the lock is given back.
LEMMA SvcRemoveStep ==
  ASSUME SvcInv, SvcRemove \/ \E f \in Families : SvcStopFails(f)
  PROVE  SvcInv'
  <1>1. svcTask # None /\ ~cacheHeld' /\ \E failed \in BOOLEAN : SvcFinish(failed)
    BY RemovingType DEF SvcRemove, SvcStopFails, SvcWorking
  <1>2. SvcQueueTyped' /\ SvcTaskTyped' /\ svcTask' = None
    BY <1>1, SvcFinishType DEF SvcFinish
  <1>3. CacheTyped'
    BY DropType DEF SvcRemove, SvcStopFails, SvcInv, SubInv, CacheTyped
  <1>4. SubInv' BY <1>3, CacheOnly DEF SvcRemove, SvcStopFails, SvcInv
  <1> QED BY <1>1, <1>2, <1>4 DEF SvcRemove, SvcStopFails, SvcInv, SvcListTyped, LockHeld

-----------------------------------------------------------------------------
LEMMA SvcInvStep == SvcInv /\ [SystemNext]_allVars => SvcInv'
  <1> SUFFICES ASSUME SvcInv, [SystemNext]_allVars PROVE SvcInv'
    OBVIOUS
  <1>1. CASE SvcWorker
    BY <1>1, SvcSkipStep, SvcStoreStep, SvcListStep, SvcNotifyStep, SvcNotifiedStep, SvcDeleteStep,
       SvcPickStep, SvcWithdrawStep, SvcStopStep, SvcReportStep, SvcRemoveStep DEF SvcWorker
  <1>2. CASE UNCHANGED allVars
    <2>1. SubInv' /\ UNCHANGED cacheHeld BY <1>2, SvcOnly DEF allVars, SvcInv
    <2> QED BY <1>2, <2>1, SubnetOnly DEF allVars
  <1> QED BY <1>1, <1>2, SubnetControllerStep, SvcEditStep, SvcDeliverStep, SvcRetryStep
          DEF SystemNext

\* For any Services and subnets the two controllers' state has its types, and the
\* network cache's lock is held exactly while a network is being removed: no path
\* through HandlerDelete, one that fails included, keeps it or gives it back early.
THEOREM ServiceTypes == SystemSpec => []SvcTypeOK
  BY SvcInvInit, SvcInvStep, SvcInvTypes, PTL DEF SystemSpec

-----------------------------------------------------------------------------
(***************************************************************************)
(* The networks follow the Services.                                       *)
(***************************************************************************)
\* A provider is annotated in one form, and a Service may give its annotation up
\* and take it again but not change it.
OneForm ==
  \A v, u \in Services : \A x \in SvcSpecs[v], y \in SvcSpecs[u] :
    Provider(x) = Provider(y) /\ Provider(x) # None => x.w = y.w

Unannotated(spec) == spec = None \/ spec.w = None

KeepsAnnotation ==
  \A v \in Services : \A x, y \in SvcSpecs[v] :
    ~Unannotated(x) /\ ~Unannotated(y) => x.w = y.w

\* A change that is not delivered ends in what the informer stores.
SvcNotesInv ==
  /\ \A v \in Services : svcLister[v] \in SvcSpecs[v] \cup {None}
  /\ \A n \in ToSet(svcNotes) :
       n.new = svcLister[n.svc] /\ {n.old, n.new} \subseteq SvcSpecs[n.svc] \cup {None}

\* Whose annotation is to be deleted has none, and while a network is being removed
\* no Service asks for it.
GoneInv ==
  /\ \A e \in Pending(svcQueue) : e.op = "DELETE" => Unannotated(svcLister[e.svc])
  /\ \A p : p # None /\ Removing(p) => Holders(p) = {}

\* What a Service asks for, the other Services aside.
AsksFor(spec) == Eligible(spec) /\ Provider(spec) \notin DOMAIN OrgMap /\ spec.ips # EmptyMap
Mapped(p, ips) == p \in DOMAIN infoMap /\ infoMap[p] = ips
Stored(v) == AsksFor(svcLister[v]) => Mapped(Provider(svcLister[v]), svcLister[v].ips)

StoredInv ==
  /\ \A v \in Services : SvcSettled(v) => Stored(v)
  /\ svcTask # None =>
       /\ svcTask.ev.op = "DELETE" => svcTask.prov = Qualified[svcTask.ev.w]
       /\ svcTask.ev.op # "DELETE" => Stored(svcTask.ev.svc)

\* A network has a Service that asks for it, or is being removed.
BackedInv == \A p \in DOMAIN infoMap : p # None /\ (Holders(p) # {} \/ Removing(p))

FollowInv == SvcInv /\ SvcNotesInv /\ GoneInv /\ StoredInv /\ BackedInv

\* Being settled and being removed, in terms of the set of changes.
LEMMA SvcSets ==
  /\ \A v : SvcSettled(v) <=> /\ \A n \in ToSet(svcNotes) : n.svc # v
                              /\ \A e \in Pending(svcQueue) : e.svc # v
  /\ \A p : Removing(p) <=>
       \/ \E e \in Pending(svcQueue) : e.op = "DELETE" /\ Qualified[e.w] = p
       \/ \E n \in ToSet(svcNotes) : p = Provider(n.old) /\ p # Provider(n.new)
  BY DEF SvcSettled, Removing, ToSet

LEMMA SvcSetsNext ==
  /\ \A v : SvcSettled(v)' <=> /\ \A n \in ToSet(svcNotes') : n.svc # v
                               /\ \A e \in Pending(svcQueue') : e.svc # v
  /\ \A p : Removing(p)' <=>
       \/ \E e \in Pending(svcQueue') : e.op = "DELETE" /\ Qualified[e.w] = p
       \/ \E n \in ToSet(svcNotes') : p = Provider(n.old) /\ p # Provider(n.new)
  BY DEF SvcSettled, Removing, ToSet

LEMMA FollowInit == ASSUME MappedMap = EmptyMap, SvcInit PROVE FollowInv
  <1>1. SvcInv BY SvcInvInit
  <1>2. ToSet(svcNotes) = {} /\ Pending(svcQueue) = {}
    BY DEF SvcInit, ToSet, Pending, EmptyQueue
  <1>3. DOMAIN infoMap = {} BY DEF SvcInit, Init, EmptyMap
  <1>4. SvcNotesInv BY <1>2 DEF SvcInit, SvcNotesInv
  <1>5. GoneInv BY <1>2, SvcSets DEF GoneInv
  <1>6. StoredInv BY DEF SvcInit, StoredInv, Stored, AsksFor, Eligible
  <1> QED BY <1>1, <1>3, <1>4, <1>5, <1>6 DEF FollowInv, BackedInv

-----------------------------------------------------------------------------
\* A step that leaves the Services, their items and the networks alone.
LEMMA FollowSame ==
  ASSUME FollowInv, SvcInv', UNCHANGED <<svcLister, svcNotes, infoMap>>,
         Pending(svcQueue') = Pending(svcQueue),
         svcTask' # None =>
           \/ svcTask # None /\ svcTask'.ev = svcTask.ev /\ svcTask'.prov = svcTask.prov
           \/ svcTask'.ev.op = "DELETE" /\ svcTask'.prov = Qualified[svcTask'.ev.w]
  PROVE  FollowInv'
  <1>1. SvcNotesInv' BY DEF FollowInv, SvcNotesInv
  <1>2. /\ \A v : SvcSettled(v)' <=> SvcSettled(v)
        /\ \A p : Removing(p)' <=> Removing(p)
        /\ \A p : Holders(p)' = Holders(p)
        /\ \A v : Stored(v)' <=> Stored(v)
    BY SvcSets, SvcSetsNext DEF Holders, Stored, Mapped
  <1>3. GoneInv' BY <1>2 DEF FollowInv, GoneInv
  <1>4. StoredInv' BY <1>2 DEF FollowInv, StoredInv, Stored, Mapped
  <1>5. BackedInv' BY <1>2 DEF FollowInv, BackedInv
  <1> QED BY <1>1, <1>3, <1>4, <1>5 DEF FollowInv

LEMMA WorkersKeepNetworks ==
  Deliver \/ Worker \/ PodWorker \/ (\E e \in queue.later : RetryTimer(e)) => UNCHANGED infoMap
  BY DEF Deliver, RetryTimer, Worker, FamilyStep, PodWorker, Skip, Take, Look, Unbuildable,
         Configure, Join, Start, StartFails, Withdraw, Stop, StopFails, End, PodTake, PodRead,
         PodWrite, cache

LEMMA FollowSubnets ==
  ASSUME FollowInv,
         \/ SubnetSteps
         \/ \E s \in Subnets : \E new \in Specs[s] \cup {None} : SubnetEdit(s, new)
  PROVE  FollowInv'
  <1>1. SvcInv' BY SubnetControllerStep DEF FollowInv
  <1>2. UNCHANGED <<svcVars, infoMap>>
    BY WorkersKeepNetworks DEF SubnetSteps, SubnetEdit, Edit, cache
  <1> QED BY <1>1, <1>2, FollowSame DEF svcVars

\* The steps of the service worker between the first and the last.
LEMMA FollowMiddle ==
  ASSUME FollowInv, SvcInv',
         \/ SvcList \/ SvcReport
         \/ \E s \in Subnets : SvcNotify(s) \/ SvcPick(s)
         \/ \E f \in Families : SvcWithdraw(f) \/ SvcStop(f)
  PROVE  FollowInv'
  <1>1. svcTask # None /\ svcTask \in StoreTask \cup RemoveTask
    BY SvcAtType
       DEF SvcList, SvcReport, SvcNotify, SvcPick, SvcWithdraw, SvcStop, SvcWorking, SvcAt, FollowInv
  <1>2. UNCHANGED <<svcLister, svcNotes, svcQueue, infoMap>>
    BY DEF SvcList, SvcReport, SvcNotify, SvcPick, SvcWithdraw, SvcStop, subnetVars, cache
  <1>3. svcTask'.ev = svcTask.ev /\ svcTask'.prov = svcTask.prov
    BY <1>1 DEF SvcList, SvcReport, SvcNotify, SvcPick, SvcWithdraw, SvcStop, SvcNextFamily,
                StoreTask, RemoveTask
  <1> QED BY <1>1, <1>2, <1>3, FollowSame

-----------------------------------------------------------------------------
(***************************************************************************)
(* The edits of Services and their delivery.                               *)
(***************************************************************************)
\* A Service's edit puts its provider, if it gives one up, among those being removed.
LEMMA ServiceEditFacts ==
  ASSUME FollowInv, NEW v \in Services, NEW new \in SvcSpecs[v], ServiceEdit(v, new),
         NEW n, n = [svc |-> v, old |-> svcLister[v], new |-> new]
  PROVE  /\ n.svc = v /\ n.old = svcLister[v] /\ n.new = new
         /\ ToSet(svcNotes') = ToSet(svcNotes) \cup {n}
         /\ svcLister' = [svcLister EXCEPT ![v] = new]
         /\ UNCHANGED <<subnetVars, svcQueue, svcTask>>
         /\ \A p : Removing(p)' <=> Removing(p) \/ (p = Provider(svcLister[v]) /\ p # Provider(new))
  <1>1. n.svc = v /\ n.old = svcLister[v] /\ n.new = new OBVIOUS
  <1>2. ToSet(svcNotes') = ToSet(svcNotes) \cup {n}
    <2>1. svcNotes \in Seq(SvcNote) /\ svcLister[v] \in SvcSpec \cup {None}
      BY DEF FollowInv, SvcInv, SvcListTyped
    <2>2. n \in SvcNote BY <2>1, ServiceAssumption DEF SvcNote
    <2>3. svcNotes' = Append(svcNotes, n) BY DEF ServiceEdit, SvcEdit
    <2>4. svcNotes' = svcNotes \o <<n>> BY <2>1, <2>2, <2>3
    <2> QED BY <2>1, <2>2, <2>4, NoteSet
  <1>3. svcLister' = [svcLister EXCEPT ![v] = new] /\ UNCHANGED <<subnetVars, svcQueue, svcTask>>
    BY DEF ServiceEdit, SvcEdit
  <1>4. \A p : Removing(p)' <=> Removing(p) \/ (p = Provider(svcLister[v]) /\ p # Provider(new))
    BY <1>1, <1>2, <1>3, SvcSets, SvcSetsNext
  <1> QED BY <1>1, <1>2, <1>3, <1>4

LEMMA FollowEdit ==
  ASSUME FollowInv, NEW v \in Services, NEW new \in SvcSpecs[v], ServiceEdit(v, new)
  PROVE  FollowInv'
  <1> PICK n : n = [svc |-> v, old |-> svcLister[v], new |-> new] OBVIOUS
  <1>1. n.svc = v /\ n.old = svcLister[v] /\ n.new = new OBVIOUS
  <1>2. ToSet(svcNotes') = ToSet(svcNotes) \cup {n} BY ServiceEditFacts
  <1>3. /\ svcLister' = [svcLister EXCEPT ![v] = new] /\ svcLister \in [Services -> SvcSpec \cup {None}]
        /\ UNCHANGED <<svcQueue, svcTask, infoMap>>
    BY ServiceEditFacts DEF subnetVars, cache, FollowInv, SvcInv, SvcListTyped
  <1>4. svcLister'[v] = new /\ \A u \in Services \ {v} : svcLister'[u] = svcLister[u] BY <1>3
  <1>5. /\ \A m \in ToSet(svcNotes) : m.svc # v
        /\ \A e \in Pending(svcQueue) : e.svc # v
    BY SvcSets DEF ServiceEdit
  <1>6. /\ Provider(svcLister[v]) \notin {None, Provider(new)} => Holders(Provider(svcLister[v])) = {v}
        /\ Provider(new) # None => ~Removing(Provider(new))
    BY DEF ServiceEdit, GivesUp
  <1>7. SvcInv' BY SvcEditStep DEF FollowInv
  <1>8. SvcNotesInv'
    <2>1. svcLister[v] \in SvcSpecs[v] \cup {None} BY DEF FollowInv, SvcNotesInv
    <2>2. \A m \in ToSet(svcNotes) : m.svc \in Services
      <3>1. \A m \in ToSet(svcNotes) : m \in SvcNote BY DEF FollowInv, SvcInv, SvcListTyped, ToSet
      <3> QED BY <3>1 DEF SvcNote
    <2>3. ASSUME NEW u \in Services PROVE svcLister'[u] \in SvcSpecs[u] \cup {None}
      BY <1>4 DEF FollowInv, SvcNotesInv
    <2>4. ASSUME NEW m \in ToSet(svcNotes)
          PROVE  m.new = svcLister'[m.svc] /\ {m.old, m.new} \subseteq SvcSpecs[m.svc] \cup {None}
      BY <1>4, <1>5, <2>2 DEF FollowInv, SvcNotesInv
    <2>5. n.new = svcLister'[n.svc] /\ {n.old, n.new} \subseteq SvcSpecs[n.svc] \cup {None}
      BY <1>1, <1>4, <2>1
    <2> QED BY <1>2, <2>3, <2>4, <2>5 DEF SvcNotesInv
  <1>9. \A p : Removing(p)' <=> Removing(p) \/ (p = Provider(svcLister[v]) /\ p # Provider(new))
    BY ServiceEditFacts
  <1>10. \A p : Holders(p)' = {u \in Services \ {v} : u \in Holders(p)}
                                \cup (IF Provider(new) = p THEN {v} ELSE {})
    BY <1>4 DEF Holders
  <1>11. GoneInv'
    <2>1. \A e \in Pending(svcQueue) : e.svc \in Services
      BY DEF FollowInv, SvcInv, SvcQueueTyped, QueueOK, QueueOf, Pending, SvcEvent
    <2>2. \A e \in Pending(svcQueue) : e.op = "DELETE" => Unannotated(svcLister'[e.svc])
      BY <1>4, <1>5, <2>1 DEF FollowInv, GoneInv
    <2>3. ASSUME NEW p, p # None, Removing(p)' PROVE Holders(p)' = {}
      <3>1. CASE Removing(p)
        <4>1. Holders(p) = {} /\ Provider(new) # p BY <1>6, <2>3, <3>1 DEF FollowInv, GoneInv
        <4> QED BY <1>10, <4>1
      <3>2. CASE p = Provider(svcLister[v]) /\ p # Provider(new)
        <4>1. Holders(p) = {v} BY <1>6, <2>3, <3>2
        <4> QED BY <1>10, <3>2, <4>1
      <3> QED BY <1>9, <2>3, <3>1, <3>2
    <2> QED BY <1>3, <2>2, <2>3 DEF GoneInv
  <1>12. StoredInv'
    <2>1. ASSUME NEW u \in Services, SvcSettled(u)' PROVE SvcSettled(u) /\ u # v
      BY <1>1, <1>2, <1>3, <2>1, SvcSets, SvcSetsNext
    <2>2. \A u \in Services \ {v} : Stored(u)' <=> Stored(u) BY <1>3, <1>4 DEF Stored, Mapped
    <2>3. svcTask # None => svcTask.ev.svc \in Services \ {v}
      <3>1. ASSUME svcTask # None PROVE svcTask.ev \in Pending(svcQueue) /\ svcTask.ev \in SvcEvent
        BY <3>1 DEF FollowInv, SvcInv, SvcQueueTyped, QueueOK, QueueOf, Pending
      <3> QED BY <1>5, <3>1 DEF SvcEvent
    <2>4. svcTask # None /\ svcTask.ev.op # "DELETE" => Stored(svcTask.ev.svc)'
      <3> HAVE svcTask # None /\ svcTask.ev.op # "DELETE"
      <3>1. PICK u \in Services \ {v} : u = svcTask.ev.svc BY <2>3
      <3>2. Stored(u)' BY <2>2, <3>1 DEF FollowInv, StoredInv
      <3> QED BY <1>3, <3>1, <3>2 DEF Stored
    <2> QED BY <1>3, <2>1, <2>2, <2>4 DEF FollowInv, StoredInv
  <1>13. BackedInv'
    <2> SUFFICES ASSUME NEW p \in DOMAIN infoMap PROVE p # None /\ (Holders(p)' # {} \/ Removing(p)')
      BY <1>3 DEF BackedInv
    <2>1. p # None /\ (Holders(p) # {} \/ Removing(p)) BY DEF FollowInv, BackedInv
    <2>2. ASSUME NEW u \in Holders(p) PROVE Holders(p)' # {} \/ Removing(p)'
      <3>1. u \in Services /\ Provider(svcLister[u]) = p BY <2>2 DEF Holders
      <3> QED BY <1>9, <1>10, <2>2, <3>1
    <2> QED BY <1>9, <2>1, <2>2
  <1> QED BY <1>7, <1>8, <1>11, <1>12, <1>13 DEF FollowInv

\* The events of a known change: the annotation's end, or what is asked for now.
LEMMA SvcEventsSet ==
  ASSUME FollowInv, KeepsAnnotation, NEW n \in ToSet(svcNotes)
  PROVE  /\ SvcEventsOf(n) \in Seq(SvcEvent) /\ Len(SvcEventsOf(n)) <= 2
         /\ \A e \in ToSet(SvcEventsOf(n)) :
              /\ e.svc = n.svc
              /\ e.op = "DELETE" => Unannotated(n.new) /\ ~Unannotated(n.old) /\ e.w = n.old.w
         /\ ~Unannotated(n.new) => ToSet(SvcEventsOf(n)) # {}
         /\ Unannotated(n.new) /\ ~Unannotated(n.old) =>
              \E e \in ToSet(SvcEventsOf(n)) : e.op = "DELETE" /\ e.w = n.old.w
         /\ ~Unannotated(n.new) /\ ~Unannotated(n.old) => n.old.w = n.new.w
  <1>1. n \in SvcNote BY DEF FollowInv, SvcInv, SvcListTyped, ToSet
  <1>2. n.svc \in Services /\ {n.old, n.new} \subseteq SvcSpecs[n.svc] \cup {None}
    BY <1>1 DEF FollowInv, SvcNotesInv, SvcNote
  <1>3. ~Unannotated(n.new) /\ ~Unannotated(n.old) => n.old.w = n.new.w
    BY <1>2 DEF KeepsAnnotation, Unannotated
  <1>4. SvcEventsOf(n) \in Seq(SvcEvent) BY <1>1, SvcEventsType
  <1>5. \A e : ToSet(<<e>>) = {e} /\ Len(<<e>>) <= 2 BY DEF ToSet
  <1>6. ToSet(<<>>) = {} /\ Len(<<>>) <= 2 BY DEF ToSet
  <1>7. CASE Unannotated(n.new) /\ Unannotated(n.old)
    <2>1. SvcEventsOf(n) = <<>> BY <1>7 DEF SvcEventsOf, Unannotated
    <2> QED BY <1>4, <1>6, <1>7, <2>1
  <1>8. CASE Unannotated(n.new) /\ ~Unannotated(n.old)
    <2> DEFINE e == [svc |-> n.svc, op |-> "DELETE", w |-> n.old.w]
    <2>1. SvcEventsOf(n) = <<e>> /\ e.svc = n.svc /\ e.op = "DELETE" /\ e.w = n.old.w
      BY <1>8 DEF SvcEventsOf, Unannotated
    <2> HIDE DEF e
    <2> QED BY <1>4, <1>5, <1>8, <2>1
  <1>9. CASE ~Unannotated(n.new)
    <2>1. PICK op \in {"ADD", "UPDATE"} : SvcEventsOf(n) = <<[svc |-> n.svc, op |-> op, w |-> n.new.w]>>
      BY <1>3, <1>9 DEF SvcEventsOf, Unannotated
    <2> DEFINE e == [svc |-> n.svc, op |-> op, w |-> n.new.w]
    <2>2. SvcEventsOf(n) = <<e>> /\ e.svc = n.svc /\ e.op # "DELETE" BY <2>1
    <2> HIDE DEF e
    <2> QED BY <1>3, <1>4, <1>5, <1>9, <2>2
  <1> QED BY <1>7, <1>8, <1>9

\* Delivering a change: what was to be told of it is queued, and a network is being
\* removed if it was before.
LEMMA DeliverFacts ==
  ASSUME FollowInv, KeepsAnnotation, SvcDeliver, NEW n, n = Head(svcNotes)
  PROVE  LET new == ToSet(SvcEventsOf(n)) IN
         /\ n \in ToSet(svcNotes) /\ ToSet(svcNotes) = {n} \cup ToSet(svcNotes')
         /\ UNCHANGED <<svcLister, svcTask, infoMap>>
         /\ \A e \in new :
              /\ e.svc = n.svc
              /\ e.op = "DELETE" => Unannotated(n.new) /\ ~Unannotated(n.old) /\ e.w = n.old.w
         /\ ~Unannotated(n.new) => new # {}
         /\ Pending(svcQueue') = Pending(svcQueue) \cup new
         /\ \A p : p # None => (Removing(p)' <=> Removing(p))
  <1> DEFINE new == ToSet(SvcEventsOf(n))
  <1>1. n \in ToSet(svcNotes) /\ ToSet(svcNotes) = {n} \cup ToSet(svcNotes')
    BY TailSet DEF SvcDeliver, FollowInv, SvcInv, SvcListTyped
  <1>2. svcQueue' = AddEach(svcQueue, SvcEventsOf(n)) /\ UNCHANGED <<svcLister, svcTask, infoMap>>
    BY DEF SvcDeliver, subnetVars, cache
  <1>3. /\ SvcEventsOf(n) \in Seq(SvcEvent) /\ Len(SvcEventsOf(n)) <= 2
        /\ \A e \in new :
             /\ e.svc = n.svc
             /\ e.op = "DELETE" => Unannotated(n.new) /\ ~Unannotated(n.old) /\ e.w = n.old.w
        /\ ~Unannotated(n.new) => new # {}
        /\ Unannotated(n.new) /\ ~Unannotated(n.old) =>
             \E e \in new : e.op = "DELETE" /\ e.w = n.old.w
        /\ ~Unannotated(n.new) /\ ~Unannotated(n.old) => n.old.w = n.new.w
    BY <1>1, SvcEventsSet
  <1>4. Pending(svcQueue') = Pending(svcQueue) \cup new
    BY <1>2, <1>3, AddEachSets DEF FollowInv, SvcInv, SvcQueueTyped, Pending
  <1> HIDE DEF new
  <1>5. \A p : p # None /\ p = Provider(n.old) /\ p # Provider(n.new) =>
          /\ Unannotated(n.new) /\ ~Unannotated(n.old) /\ Qualified[n.old.w] = p
    BY <1>3 DEF Provider, Unannotated
  <1>6. \A p : p # None /\ Unannotated(n.new) /\ ~Unannotated(n.old) /\ Qualified[n.old.w] = p =>
               p = Provider(n.old) /\ p # Provider(n.new)
    BY DEF Provider, Unannotated
  <1>7. ASSUME NEW p, p # None, Removing(p)' PROVE Removing(p)
    <2>1. CASE \E e \in Pending(svcQueue') : e.op = "DELETE" /\ Qualified[e.w] = p
      BY <1>1, <1>3, <1>4, <1>6, <1>7, <2>1, SvcSets
    <2>2. CASE \E m \in ToSet(svcNotes') : p = Provider(m.old) /\ p # Provider(m.new)
      BY <1>1, <2>2, SvcSets
    <2> QED BY <1>7, <2>1, <2>2, SvcSetsNext
  <1>8. ASSUME NEW p, p # None, Removing(p) PROVE Removing(p)'
    <2>1. CASE \E e \in Pending(svcQueue) : e.op = "DELETE" /\ Qualified[e.w] = p
      BY <1>4, <2>1, SvcSetsNext
    <2>2. CASE \E m \in ToSet(svcNotes') : p = Provider(m.old) /\ p # Provider(m.new)
      BY <2>2, SvcSetsNext
    <2>3. CASE p = Provider(n.old) /\ p # Provider(n.new)
      BY <1>3, <1>4, <1>5, <1>8, <2>3, SvcSetsNext
    <2> QED BY <1>1, <1>8, <2>1, <2>2, <2>3, SvcSets
  <1> QED BY <1>1, <1>2, <1>3, <1>4, <1>7, <1>8 DEF new

LEMMA FollowDeliver == ASSUME FollowInv, KeepsAnnotation, SvcDeliver PROVE FollowInv'
  <1> PICK n : n = Head(svcNotes) OBVIOUS
  <1> DEFINE new == ToSet(SvcEventsOf(n))
  <1>1. n \in ToSet(svcNotes) /\ ToSet(svcNotes) = {n} \cup ToSet(svcNotes') BY DeliverFacts
  <1>2. n.new = svcLister[n.svc] BY <1>1 DEF FollowInv, SvcNotesInv
  <1>3. UNCHANGED <<svcLister, svcTask, infoMap>> BY DeliverFacts
  <1>4. /\ \A e \in new :
             /\ e.svc = n.svc
             /\ e.op = "DELETE" => Unannotated(n.new) /\ ~Unannotated(n.old) /\ e.w = n.old.w
        /\ ~Unannotated(n.new) => new # {}
    BY DeliverFacts
  <1>5. Pending(svcQueue') = Pending(svcQueue) \cup new BY DeliverFacts
  <1> HIDE DEF new
  <1>6. SvcInv' BY SvcDeliverStep DEF FollowInv
  <1>7. SvcNotesInv' BY <1>1, <1>3 DEF FollowInv, SvcNotesInv
  <1>9. \A p : p # None => (Removing(p)' <=> Removing(p)) BY DeliverFacts
  <1>10. \A p : Holders(p)' = Holders(p) BY <1>3 DEF Holders
  <1>11. GoneInv'
    <2>1. \A e \in new : e.op = "DELETE" => Unannotated(n.new) /\ e.svc = n.svc BY <1>4
    <2>2. \A e \in Pending(svcQueue') : e.op = "DELETE" => Unannotated(svcLister'[e.svc])
      BY <1>2, <1>3, <1>5, <2>1 DEF FollowInv, GoneInv
    <2> QED BY <1>9, <1>10, <2>2 DEF FollowInv, GoneInv
  <1>12. StoredInv'
    <2>1. \A v : Stored(v)' <=> Stored(v) BY <1>3 DEF Stored, Mapped
    <2>2. ASSUME NEW v \in Services, SvcSettled(v)' PROVE Stored(v)
      <3>1. CASE v # n.svc
        <4>1. SvcSettled(v) BY <1>1, <1>5, <2>2, <3>1, SvcSets, SvcSetsNext
        <4> QED BY <4>1 DEF FollowInv, StoredInv
      <3>2. CASE v = n.svc
        <4>1. \A e \in new : e.svc # v BY <1>5, <2>2, SvcSetsNext
        <4>2. Unannotated(n.new) BY <1>4, <3>2, <4>1
        <4> QED BY <1>2, <3>2, <4>2 DEF Stored, AsksFor, Eligible, Unannotated
      <3> QED BY <3>1, <3>2
    <2>3. svcTask # None /\ svcTask.ev.op # "DELETE" => Stored(svcTask.ev.svc)
      BY DEF FollowInv, StoredInv
    <2> QED BY <1>3, <2>1, <2>2, <2>3 DEF FollowInv, StoredInv, Stored, Mapped
  <1>13. BackedInv' BY <1>3, <1>9, <1>10 DEF FollowInv, BackedInv
  <1> QED BY <1>6, <1>7, <1>11, <1>12, <1>13 DEF FollowInv

LEMMA FollowRetry == ASSUME FollowInv, NEW e \in svcQueue.later, SvcRetryTimer(e) PROVE FollowInv'
  <1>1. SvcInv' BY SvcRetryStep DEF FollowInv
  <1>2. Pending(svcQueue') = Pending(svcQueue)
    BY ExpirePending DEF SvcRetryTimer, FollowInv, SvcInv, SvcQueueTyped
  <1> QED BY <1>1, <1>2, FollowSame DEF SvcRetryTimer, subnetVars, cache

-----------------------------------------------------------------------------
(***************************************************************************)
(* The service worker takes an item and finishes it.                       *)
(***************************************************************************)
\* The first item is pending, and when it is handled the others still are.
LEMMA FirstPending ==
  ASSUME SvcInv, SvcIdle
  PROVE  /\ NextSvcEvent \in Pending(svcQueue) /\ Pending(Get(svcQueue)) = Pending(svcQueue)
         /\ \A failed \in BOOLEAN :
              LET r == Handled(Get(svcQueue), NextSvcEvent, failed) IN
                /\ Pending(svcQueue) \ {NextSvcEvent} \subseteq Pending(r)
                /\ Pending(r) \subseteq Pending(svcQueue)
                /\ failed => NextSvcEvent \in Pending(r)
  <1>1. /\ QueueOK(svcQueue, SvcEvent) /\ svcQueue.order # <<>>
        /\ QueueOK(Get(svcQueue), SvcEvent) /\ Get(svcQueue).running = {NextSvcEvent}
    BY SvcIdleType
  <1>2. Pending(Get(svcQueue)) = Pending(svcQueue) BY <1>1, GetPending
  <1>3. NextSvcEvent \in Pending(svcQueue) BY <1>1, <1>2 DEF Pending
  <1>4. \A failed \in BOOLEAN :
          LET r == Handled(Get(svcQueue), NextSvcEvent, failed) IN
            /\ Pending(Get(svcQueue)) \ {NextSvcEvent} \subseteq Pending(r)
            /\ Pending(r) \subseteq Pending(Get(svcQueue))
            /\ failed => NextSvcEvent \in Pending(r)
    BY <1>1, HandledPending
  <1> QED BY <1>2, <1>3, <1>4

\* An item leaves the queue whose Service has what it asks for, and whose network, if
\* it is a deletion, is gone.  Networks go only with such an item.
LEMMA FollowLeaves ==
  ASSUME FollowInv, SvcInv', UNCHANGED <<svcLister, svcNotes>>, svcTask' = None,
         NEW e \in Pending(svcQueue), Pending(svcQueue) \ {e} \subseteq Pending(svcQueue'),
         Pending(svcQueue') \subseteq Pending(svcQueue),
         \/ UNCHANGED infoMap
         \/ e.op = "DELETE" /\ infoMap' = Drop(infoMap, Qualified[e.w]),
         e \in Pending(svcQueue') \/ (e.op # "DELETE" => Stored(e.svc)),
         e \in Pending(svcQueue') \/ (e.op = "DELETE" => Qualified[e.w] \notin DOMAIN infoMap')
  PROVE  FollowInv'
  <1>1. SvcNotesInv' BY DEF FollowInv, SvcNotesInv
  <1>2. \A p : Holders(p)' = Holders(p) BY DEF Holders
  <1>3. \A p : Removing(p)' => Removing(p) BY SvcSets, SvcSetsNext
  <1>4. GoneInv' BY <1>2, <1>3 DEF FollowInv, GoneInv
  <1>5. /\ DOMAIN infoMap' \subseteq DOMAIN infoMap
        /\ \A p \in DOMAIN infoMap' : infoMap'[p] = infoMap[p]
        /\ \A p \in DOMAIN infoMap \ DOMAIN infoMap' : e.op = "DELETE" /\ p = Qualified[e.w]
    BY DEF Drop, Restrict
  <1>6. StoredInv'
    <2>1. ASSUME NEW v \in Services, SvcSettled(v)' PROVE Stored(v)'
      <3>1. Stored(v)
        <4>1. CASE v # e.svc
          <5>1. SvcSettled(v) BY <2>1, <4>1, SvcSets, SvcSetsNext
          <5> QED BY <5>1 DEF FollowInv, StoredInv
        <4>2. CASE v = e.svc
          <5>1. e \notin Pending(svcQueue') BY <2>1, <4>2, SvcSetsNext
          <5>2. CASE e.op = "DELETE"
            BY <4>2, <5>2 DEF FollowInv, GoneInv, Stored, AsksFor, Eligible, Unannotated
          <5>3. CASE e.op # "DELETE" BY <4>2, <5>1, <5>3
          <5> QED BY <5>2, <5>3
        <4> QED BY <4>1, <4>2
      <3>2. ASSUME AsksFor(svcLister[v]) PROVE Provider(svcLister[v]) \in DOMAIN infoMap'
        <4> DEFINE p == Provider(svcLister[v])
        <4>1. p \in DOMAIN infoMap /\ p # None
          BY <3>1, <3>2 DEF Stored, Mapped, AsksFor, Eligible, Provider
        <4>2. v \in Holders(p) BY DEF Holders
        <4>3. ~Removing(p) BY <4>1, <4>2 DEF FollowInv, GoneInv
        <4>4. ~(e.op = "DELETE" /\ Qualified[e.w] = p) BY <4>3, SvcSets
        <4> QED BY <1>5, <4>1, <4>4
      <3> QED BY <1>5, <3>1, <3>2 DEF Stored, Mapped
    <2> QED BY <2>1 DEF StoredInv
  <1>7. BackedInv'
    <2> SUFFICES ASSUME NEW p \in DOMAIN infoMap'
                 PROVE  p # None /\ (Holders(p)' # {} \/ Removing(p)')
      BY DEF BackedInv
    <2>1. p # None /\ (Holders(p) # {} \/ Removing(p)) BY <1>5 DEF FollowInv, BackedInv
    <2>2. ASSUME Removing(p) PROVE Removing(p)'
      <3>1. CASE \E d \in Pending(svcQueue) : d.op = "DELETE" /\ Qualified[d.w] = p
        <4>1. PICK d \in Pending(svcQueue) : d.op = "DELETE" /\ Qualified[d.w] = p BY <3>1
        <4>2. d \in Pending(svcQueue') BY <4>1
        <4> QED BY <4>1, <4>2, SvcSetsNext
      <3>2. CASE \E n \in ToSet(svcNotes) : p = Provider(n.old) /\ p # Provider(n.new)
        BY <3>2, SvcSetsNext
      <3> QED BY <2>2, <3>1, <3>2, SvcSets
    <2> QED BY <1>2, <2>1, <2>2
  <1> QED BY <1>1, <1>4, <1>6, <1>7 DEF FollowInv

LEMMA FollowSkip == ASSUME FollowInv, SvcSkip PROVE FollowInv'
  <1> DEFINE e == NextSvcEvent
             spec == svcLister[e.svc]
             again == e.op # "DELETE" /\ Eligible(spec) /\ Contested(spec)
  <1>1. SvcInv /\ SvcIdle /\ svcTask' = None /\ UNCHANGED <<svcLister, svcNotes, infoMap>>
    BY DEF SvcSkip, SvcIdle, subnetVars, cache, FollowInv
  <1>2. SvcInv' BY SvcSkipStep DEF FollowInv
  <1>3. svcQueue' = Handled(Get(svcQueue), e, again) /\ again \in BOOLEAN BY DEF SvcSkip
  <1>4. /\ e.op = "DELETE" => Qualified[e.w] \notin DOMAIN infoMap
        /\ e.op # "DELETE" => ~Usable(spec)
    BY DEF SvcSkip
  <1>5. e.op # "DELETE" /\ ~again => Stored(e.svc) BY <1>4 DEF Stored, AsksFor, Usable
  <1> HIDE DEF e, spec, again
  <1>6. /\ e \in Pending(svcQueue) /\ Pending(svcQueue) \ {e} \subseteq Pending(svcQueue')
        /\ Pending(svcQueue') \subseteq Pending(svcQueue) /\ (again => e \in Pending(svcQueue'))
    BY <1>1, <1>3, FirstPending DEF e
  <1> QED BY <1>1, <1>2, <1>4, <1>5, <1>6, FollowLeaves

\* Two Services with one annotation are contested.
LEMMA ContestedPair ==
  ASSUME IsFiniteSet(Services), NEW v \in Services, NEW u \in Services, v # u,
         svcLister[v] # None, svcLister[u] # None, svcLister[v].w = svcLister[u].w
  PROVE  Contested(svcLister[v])
  <1> DEFINE C == {x \in Services : svcLister[x] # None /\ svcLister[x].w = svcLister[v].w}
  <1>1. {v, u} \subseteq C /\ C \subseteq Services OBVIOUS
  <1>2. IsFiniteSet(C) BY <1>1, FS_Subset
  <1>3. Cardinality({v}) = 1 /\ Cardinality({v} \cup {u}) = Cardinality({v}) + 1 /\ IsFiniteSet({v})
    BY FS_Singleton, FS_AddElement
  <1>4. {v} \cup {u} \subseteq C BY <1>1
  <1>5. Cardinality({v} \cup {u}) <= Cardinality(C) /\ Cardinality(C) \in Nat
    BY <1>2, <1>4, FS_Subset, FS_CardinalityType
  <1> HIDE DEF C
  <1>6. Cardinality(C) > 1 BY <1>3, <1>5
  <1> QED BY <1>6 DEF Contested, C

LEMMA FollowStore ==
  ASSUME FollowInv, OneForm, IsFiniteSet(Services), SvcStore
  PROVE  FollowInv'
  <1> DEFINE e == NextSvcEvent
             spec == svcLister[e.svc]
             p == Provider(spec)
  <1>1. SvcInv /\ SvcIdle /\ e.op # "DELETE" /\ Usable(spec) BY DEF SvcStore, FollowInv
  <1>2. /\ infoMap' = Put(infoMap, p, spec.ips) /\ svcQueue' = Get(svcQueue)
        /\ UNCHANGED <<svcLister, svcNotes>>
        /\ svcTask' # None => svcTask'.ev = e
    BY DEF SvcStore, SetNetworkStatus, StoringTask
  <1>3. p # None /\ spec # None BY <1>1 DEF Usable, Eligible, Provider
  <1>4. SvcInv' BY SvcStoreStep DEF FollowInv
  <1>5. e \in Pending(svcQueue) /\ Pending(svcQueue') = Pending(svcQueue) /\ e.svc \in Services
    BY <1>1, <1>2, FirstPending, SvcIdleType DEF SvcEvent
  <1>6. ~Contested(spec) BY <1>1 DEF Usable
  <1>7. spec = svcLister[e.svc] /\ p = Provider(spec) OBVIOUS
  <1>8. DOMAIN infoMap' = DOMAIN infoMap \cup {p} /\ infoMap'[p] = spec.ips
        /\ \A q \in DOMAIN infoMap \ {p} : infoMap'[q] = infoMap[q]
    BY <1>2 DEF Put
  <1> HIDE DEF e, spec, p
  <1>9. SvcNotesInv' BY <1>2 DEF FollowInv, SvcNotesInv
  <1>10. /\ \A q : Holders(q)' = Holders(q)
         /\ \A q : Removing(q)' <=> Removing(q)
         /\ \A v : SvcSettled(v)' <=> SvcSettled(v)
    BY <1>2, <1>5, SvcSets, SvcSetsNext DEF Holders
  <1>11. GoneInv' BY <1>2, <1>5, <1>10 DEF FollowInv, GoneInv
  <1>12. \A v \in Services \ {e.svc} : Provider(svcLister[v]) # p
    <2> SUFFICES ASSUME NEW v \in Services \ {e.svc}, Provider(svcLister[v]) = p PROVE FALSE
      OBVIOUS
    <2>1. svcLister[v] # None BY <1>3 DEF Provider
    <2>2. svcLister[v] \in SvcSpecs[v] /\ spec \in SvcSpecs[e.svc]
      BY <1>3, <1>5, <1>7, <2>1 DEF FollowInv, SvcNotesInv
    <2>3. svcLister[v].w = spec.w BY <1>3, <1>5, <1>7, <2>2 DEF OneForm
    <2>4. Contested(svcLister[e.svc]) BY <1>3, <1>5, <1>7, <2>1, <2>3, ContestedPair
    <2> QED BY <1>6, <1>7, <2>4
  <1>13. PICK d : d = e OBVIOUS
  <1>14. StoredInv'
    <2>1. ASSUME NEW v \in Services, SvcSettled(v)' PROVE Stored(v)'
      <3>1. SvcSettled(v) BY <1>10, <2>1
      <3>2. v # e.svc BY <1>5, <3>1, SvcSets
      <3>3. Stored(v) BY <3>1 DEF FollowInv, StoredInv
      <3> QED BY <1>2, <1>8, <1>12, <3>2, <3>3 DEF Stored, Mapped
    <2>2. Stored(d.svc)' BY <1>2, <1>7, <1>8, <1>13 DEF Stored, Mapped
    <2>3. svcTask' # None => svcTask'.ev = d /\ d.op # "DELETE" BY <1>1, <1>2, <1>13
    <2> QED BY <2>1, <2>2, <2>3 DEF StoredInv, Stored
  <1>15. BackedInv'
    <2>1. e.svc \in Holders(p) BY <1>5, <1>7 DEF Holders
    <2> QED BY <1>3, <1>8, <1>10, <2>1 DEF FollowInv, BackedInv
  <1> QED BY <1>4, <1>9, <1>11, <1>14, <1>15 DEF FollowInv

LEMMA FollowDelete == ASSUME FollowInv, SvcDelete PROVE FollowInv'
  <1>1. SvcInv' BY SvcDeleteStep DEF FollowInv
  <1>2. Pending(svcQueue') = Pending(svcQueue)
    BY FirstPending DEF SvcDelete, FollowInv
  <1>3. svcTask'.ev.op = "DELETE" /\ svcTask'.prov = Qualified[svcTask'.ev.w] BY DEF SvcDelete
  <1> QED BY <1>1, <1>2, <1>3, FollowSame DEF SvcDelete

\* The worker's item is pending, and when it is handled the others still are.
LEMMA TaskPending ==
  ASSUME SvcInv, svcTask # None, NEW failed \in BOOLEAN, SvcFinish(failed)
  PROVE  /\ svcTask.ev \in Pending(svcQueue)
         /\ Pending(svcQueue) \ {svcTask.ev} \subseteq Pending(svcQueue')
         /\ Pending(svcQueue') \subseteq Pending(svcQueue)
         /\ failed => svcTask.ev \in Pending(svcQueue')
  <1>1. QueueOK(svcQueue, SvcEvent) /\ svcTask.ev \in svcQueue.running
    BY DEF SvcInv, SvcQueueTyped
  <1> QED BY <1>1, HandledPending DEF SvcFinish, Pending

LEMMA FollowNotified == ASSUME FollowInv, SvcNotified PROVE FollowInv'
  <1> DEFINE e == svcTask.ev
  <1>1. SvcInv /\ svcTask # None /\ svcTask \in StoreTask
    BY SvcAtType DEF SvcNotified, SvcAt, FollowInv
  <1>2. SvcFinish(FALSE) /\ UNCHANGED <<svcLister, svcNotes, infoMap>> /\ svcTask' = None
    BY DEF SvcNotified, SvcFinish, subnetVars, cache
  <1>3. SvcInv' BY SvcNotifiedStep DEF FollowInv
  <1>4. /\ e \in Pending(svcQueue) /\ Pending(svcQueue) \ {e} \subseteq Pending(svcQueue')
        /\ Pending(svcQueue') \subseteq Pending(svcQueue)
    BY <1>1, <1>2, TaskPending
  <1>5. svcTask \notin RemoveTask BY <1>1 DEF StoreTask, RemoveTask
  <1>6. e.op # "DELETE" /\ Stored(e.svc)
    BY <1>1, <1>5 DEF FollowInv, StoredInv, SvcInv, SvcTaskTyped
  <1> HIDE DEF e
  <1> QED BY <1>2, <1>3, <1>4, <1>6, FollowLeaves

LEMMA FollowRemove ==
  ASSUME FollowInv, SvcRemove \/ \E f \in Families : SvcStopFails(f)
  PROVE  FollowInv'
  <1> DEFINE e == svcTask.ev
  <1>1. SvcInv /\ svcTask # None /\ svcTask \in RemoveTask
    BY SvcAtType DEF SvcRemove, SvcStopFails, SvcWorking, SvcAt, FollowInv
  <1>2. SvcInv' BY SvcRemoveStep DEF FollowInv
  <1>3. e.op = "DELETE" /\ svcTask.prov = Qualified[e.w]
    BY <1>1 DEF FollowInv, StoredInv, SvcInv, SvcTaskTyped
  <1>4. CASE SvcRemove
    <2>1. /\ SvcFinish(FALSE) /\ UNCHANGED <<svcLister, svcNotes>> /\ svcTask' = None
          /\ infoMap' = Drop(infoMap, svcTask.prov)
      BY <1>4 DEF SvcRemove, SvcFinish
    <2>2. infoMap' = Drop(infoMap, Qualified[e.w]) BY <1>3, <2>1
    <2>3. /\ e \in Pending(svcQueue) /\ Pending(svcQueue) \ {e} \subseteq Pending(svcQueue')
          /\ Pending(svcQueue') \subseteq Pending(svcQueue)
      BY <1>1, <2>1, TaskPending
    <2>4. Qualified[e.w] \notin DOMAIN infoMap' BY <2>2 DEF Drop, Restrict
    <2> HIDE DEF e
    <2> QED BY <1>2, <1>3, <2>1, <2>2, <2>3, <2>4, FollowLeaves
  <1>5. CASE \E f \in Families : SvcStopFails(f)
    <2>1. SvcFinish(TRUE) /\ UNCHANGED <<svcLister, svcNotes, infoMap>> /\ svcTask' = None
      BY <1>5 DEF SvcStopFails, SvcFinish
    <2>2. /\ e \in Pending(svcQueue) /\ Pending(svcQueue) \ {e} \subseteq Pending(svcQueue')
          /\ Pending(svcQueue') \subseteq Pending(svcQueue) /\ e \in Pending(svcQueue')
      BY <1>1, <2>1, TaskPending
    <2> HIDE DEF e
    <2> QED BY <1>2, <2>1, <2>2, FollowLeaves
  <1> QED BY <1>4, <1>5

LEMMA FollowStep ==
  ASSUME OneForm, KeepsAnnotation, IsFiniteSet(Services), FollowInv, [SystemNext]_allVars
  PROVE  FollowInv'
  <1>1. SvcInv' BY SvcInvStep DEF FollowInv
  <1>2. CASE SvcWorker
    <2>1. CASE SvcSkip \/ SvcStore \/ SvcDelete \/ SvcNotified
      BY <2>1, FollowSkip, FollowStore, FollowDelete, FollowNotified
    <2>2. CASE SvcRemove \/ \E f \in Families : SvcStopFails(f) BY <2>2, FollowRemove
    <2>3. CASE \/ SvcList \/ SvcReport
               \/ \E s \in Subnets : SvcNotify(s) \/ SvcPick(s)
               \/ \E f \in Families : SvcWithdraw(f) \/ SvcStop(f)
      BY <1>1, <2>3, FollowMiddle
    <2> QED BY <1>2, <2>1, <2>2, <2>3 DEF SvcWorker
  <1>3. CASE UNCHANGED allVars
    BY <1>1, <1>3, FollowSame DEF allVars, subnetVars, svcVars, cache
  <1> QED BY <1>2, <1>3, FollowSubnets, FollowEdit, FollowDeliver, FollowRetry DEF SystemNext

LEMMA FollowNetworks == FollowInv => NetworksFollow
  <1> SUFFICES ASSUME FollowInv PROVE NetworksFollow
    OBVIOUS
  <1>1. ASSUME NEW v \in Services, SvcSettled(v), Usable(svcLister[v]) PROVE Stored(v)
    BY <1>1 DEF FollowInv, StoredInv
  <1>2. \A v \in Services : Usable(svcLister[v]) => AsksFor(svcLister[v]) BY DEF Usable, AsksFor
  <1>3. ASSUME Calm, NEW p \in DOMAIN infoMap PROVE Holders(p) # {}
    <2>1. \A e \in Pending(svcQueue) : e.svc \in Services
      BY DEF FollowInv, SvcInv, SvcQueueTyped, QueueOK, QueueOf, Pending, SvcEvent
    <2>2. \A n \in ToSet(svcNotes) : n.svc \in Services
      <3>1. \A n \in ToSet(svcNotes) : n \in SvcNote BY DEF FollowInv, SvcInv, SvcListTyped, ToSet
      <3> QED BY <3>1 DEF SvcNote
    <2>3. ~Removing(p) BY <1>3, <2>1, <2>2, SvcSets DEF Calm
    <2> QED BY <1>3, <2>3 DEF FollowInv, BackedInv
  <1> QED BY <1>1, <1>2, <1>3 DEF NetworksFollow, Stored, Mapped

\* A Service that is settled and usable has its network with its addresses, and every
\* network belongs to a Service that asks for it, however HandlerDelete fails and is
\* tried again, other Services contend and the two workers interleave.  A provider is
\* annotated in one form and a Service does not change the one it asks for: the code
\* confuses two forms of a provider, and does not follow a change.
THEOREM NetworksFollowTheorem ==
  ASSUME OneForm, KeepsAnnotation, IsFiniteSet(Services), MappedMap = EmptyMap
  PROVE  SystemSpec => []NetworksFollow
  <1>1. SvcInit => FollowInv BY FollowInit
  <1>2. FollowInv /\ [SystemNext]_allVars => FollowInv' BY FollowStep
  <1> QED BY <1>1, <1>2, FollowNetworks, PTL DEF SystemSpec

-----------------------------------------------------------------------------
(***************************************************************************)
(* What is served follows the networks, too: the vocabulary.               *)
(***************************************************************************)
\* Services are not annotated with providers of OVN itself.
Foreign == \A w \in Written : Qualified[w] \notin Own

\* An annotation stands for the provider of its own name, or for none.
InFull == \A v \in Services : \A x \in SvcSpecs[v] : ~Unannotated(x) => Qualified[x.w] \in {None, x.w}

\* The lister has the subnet under the provider, whether DHCP is on or off, or not
\* under another.
Home(s, p) == lister[s] # None /\ lister[s].prov = p
Fits(s, p) == lister[s] = None \/ lister[s].prov = p

\* No event about the subnet under the provider is due or at hand.
Clear(s, p) == ~Coming(s, p) /\ ~Going(s, p) /\ ~Busy(s, p)

\* The service worker has stored a network and is about to tell the subnet.
Telling(s, p) ==
  /\ svcTask # None /\ svcTask.ev.op # "DELETE" /\ svcTask.prov = p
  /\ svcTask.step = "list" \/ s \in svcTask.todo

Awaits(s, p) == Coming(s, p) \/ Telling(s, p)

Leaving(p) == p \in DOMAIN infoMap /\ Removing(p)

\* The subnet uses the provider for the family, or its turn comes when that is decided.
Wants(s, p, f) ==
  /\ Has(s, p)
  /\ Coming(s, p) \/ (f \in lister[s].fams /\ (Telling(s, p) \/ f \in DOMAIN GetNetworkStatus(p)))

Served(s, p, f) ==
  /\ s \in DOMAIN conf[f]
  /\ conf[f][s] = [prov |-> p, rev |-> lister[s].rev, addr |-> GetNetworkStatus(p)[f]]
  /\ Nic[p] \in up[f]

\* The subnet is to be served by now, unless the subnet worker is at it.
Needs(s, p, f) ==
  /\ Has(s, p) /\ p \in Attached \ Own /\ ~Leaving(p) /\ ~Awaits(s, p)
  /\ f \in lister[s].fams \cap DOMAIN GetNetworkStatus(p)

(***************************************************************************)
(* The parts of the invariant.                                             *)
(***************************************************************************)
\* A DELETE is of an annotation that stands for the provider of its name.
AnnotInv == \A e \in Pending(svcQueue) : e.op = "DELETE" => Qualified[e.w] \in {None, e.w}

\* The service worker tells subnets of a network that its Service still asks for.
TellInv ==
  svcTask # None /\ svcTask.ev.op # "DELETE" =>
    /\ svcTask.prov # None /\ svcTask.prov \notin Own
    /\ Provider(svcLister[svcTask.ev.svc]) = svcTask.prov
    /\ svcTask.step = "list" => svcTask.todo = {}
    /\ \A s \in svcTask.todo : Fits(s, svcTask.prov)

\* A subnet is brought up under its own provider and taken down under another.
FitInv ==
  \A s \in Subnets, p \in Providers :
    /\ Coming(s, p) \/ Going(s, p) \/ Busy(s, p) => p \notin Own
    /\ Coming(s, p) => Fits(s, p)
    /\ Going(s, p) \/ Doing(Item(s, "DELETE", p)) => ~Has(s, p)

\* Subnets are at rest under a provider whose network is being removed.
RestInv ==
  \A p \in Providers : p # None /\ Removing(p) => \A s \in Subnets : Clear(s, p)

\* What the subnet worker has read is current, or its subnet comes up for another turn.
ReadInv ==
  \A s \in Subnets, p \in Providers : Busy(s, p) =>
    /\ task.ev.op # "DELETE" => Has(s, p) /\ (task.spec = lister[s] \/ Coming(s, p))
    /\ task.ev.op = "DELETE" => ~task.failed
    /\ task.step # "look" =>
         p \in Attached /\ (task.ev.op # "DELETE" => task.net = GetNetworkStatus(p) \/ Awaits(s, p))

\* Before it starts a server the subnet is configured; before it stops one nobody
\* needs it, unless a subnet that does has its turn later.
ReadyInv ==
  \A s \in Subnets, p \in Providers, f \in Families : Busy(s, p) =>
    /\ Working(f, "serve") =>
         /\ Needed(f) /\ f \in DOMAIN task.net
         /\ s \in DOMAIN conf[f] /\ conf[f][s] = Configuration(f)
    /\ Working(f, "stop") =>
         /\ ~Needed(f) /\ s \notin DOMAIN conf[f]
         /\ \A t \in Subnets \ {s} : Has(t, p) /\ f \in lister[t].fams => Coming(t, p)

\* A configuration is one the subnet asks for, or about to be taken away.
BelongInv ==
  \A f \in Families, s \in Subnets, p \in Providers :
    s \in DOMAIN conf[f] /\ conf[f][s].prov = p =>
      /\ p \in Attached \ Own
      /\ Going(s, p) \/ Ending(s, p, f) \/ Wants(s, p, f) \/ (Has(s, p) /\ Bringing(s, f))

\* The service worker takes down every subnet of the network that it removes, and
\* stops a server that no other subnet of the network uses.
WithdrawInv ==
  svcTask # None /\ svcTask.ev.op = "DELETE" =>
    LET p == svcTask.prov IN
    /\ p = Qualified[svcTask.ev.w] /\ p \in DOMAIN infoMap
    /\ \A s \in svcTask.todo : Home(s, p)
    /\ svcTask.step # "pick" => Home(svcTask.sub, p)
    /\ \A f \in Families : \A s \in DOMAIN conf[f] : conf[f][s].prov = p =>
         \/ s \in svcTask.todo
         \/ svcTask.step # "pick" /\ s = svcTask.sub /\ f \in ToSet(svcTask.fams)
    /\ svcTask.step = "stop" =>
         /\ svcTask.fams # <<>>
         /\ LET f == Head(svcTask.fams) IN
              /\ svcTask.sub \notin DOMAIN conf[f]
              /\ \A t \in Subnets \ {svcTask.sub} : ~(Has(t, p) /\ f \in lister[t].fams)

MetInv ==
  \A s \in Subnets, p \in Providers, f \in Families :
    Needs(s, p, f) => Bringing(s, f) \/ Served(s, p, f)

\* The same for the subnet gauge, which the end of an item sets.
NameInv ==
  \A s \in Subnets, p \in Providers, f \in Families :
    Needs(s, p, f) => Busy(s, p) \/ (s \in DOMAIN subnetGauge /\ subnetGauge[s] = p)

WorkInv == FitInv /\ ReadInv /\ ReadyInv /\ BelongInv /\ MetInv /\ NameInv
NetInv == FollowInv /\ OrderedInv /\ AnnotInv /\ TellInv /\ RestInv /\ WithdrawInv /\ WorkInv

LEMMA NetParts == NetInv => FollowInv /\ SvcInv /\ SubInv
  BY DEF NetInv, FollowInv, SvcInv

LEMMA InFullOneForm == InFull => OneForm
  <1> SUFFICES ASSUME InFull, NEW v \in Services, NEW u \in Services, NEW x \in SvcSpecs[v],
                      NEW y \in SvcSpecs[u], Provider(x) = Provider(y), Provider(x) # None
               PROVE  x.w = y.w
    BY DEF OneForm
  <1>1. /\ ~Unannotated(x) /\ Provider(x) = Qualified[x.w]
        /\ ~Unannotated(y) /\ Provider(y) = Qualified[y.w]
    BY DEF Provider, Unannotated
  <1> QED BY <1>1 DEF InFull

\* While a network is being removed nothing is under way about its subnets.
LEMMA LeavingClear ==
  ASSUME NetInv, NEW p \in Providers, NEW s \in Subnets, Leaving(p) PROVE Clear(s, p)
  <1>1. p # None BY DEF NetInv, FollowInv, BackedInv, Leaving
  <1> QED BY <1>1 DEF NetInv, RestInv, Leaving

\* Steps of the subnet controller leave alone what the service worker does.
LEMMA SvcStill ==
  ASSUME UNCHANGED <<svcVars, infoMap>>
  PROVE  /\ \A s, p : Telling(s, p)' <=> Telling(s, p)
         /\ \A p : Leaving(p)' <=> Leaving(p)
         /\ \A p : Removing(p)' <=> Removing(p)
  <1>1. UNCHANGED <<svcTask, svcQueue, svcNotes>> BY DEF svcVars
  <1>2. \A p : Removing(p)' <=> Removing(p) BY <1>1 DEF Removing
  <1> QED BY <1>1, <1>2 DEF Telling, Leaving
-----------------------------------------------------------------------------
(***************************************************************************)
(* What the other goroutines do while the subnet worker is at a step.      *)
(***************************************************************************)
LEMMA BesideWork ==
  ASSUME NetInv, SubInv', UNCHANGED <<lister, task>>,
         \A s \in Subnets, p \in Providers :
           /\ Going(s, p)' <=> Going(s, p)
           /\ Coming(s, p)' => Coming(s, p) \/ (p \notin Own /\ Fits(s, p))
           /\ Has(s, p) /\ Coming(s, p) => Coming(s, p)'
           /\ Has(s, p) /\ Telling(s, p) => Awaits(s, p)',
         \A p \in Providers : (p \in Attached)' =>
           \/ p \in Attached /\ GetNetworkStatus(p)' = GetNetworkStatus(p)
           \/ \A s \in Subnets : Telling(s, p)',
         \A p \in Providers : Leaving(p) =>
           \/ Leaving(p)'
           \/ (p \notin Attached)' /\ \A f \in Families : \A s \in DOMAIN conf'[f] : conf'[f][s].prov # p,
         \A p \in Providers : p \in Attached => (p \in Attached)' \/ Leaving(p),
         \A f \in Families : \A s \in DOMAIN conf'[f] : s \in DOMAIN conf[f] /\ conf'[f][s] = conf[f][s],
         \A s \in Subnets : (\A p \in Providers : ~(Home(s, p) /\ Leaving(p))) =>
           /\ \A f \in Families : s \in DOMAIN conf[f] => s \in DOMAIN conf'[f]
           /\ s \in DOMAIN subnetGauge => s \in DOMAIN subnetGauge' /\ subnetGauge'[s] = subnetGauge[s],
         \A f \in Families : \A p \in Attached \ Own :
           ~Leaving(p) /\ Nic[p] \in up[f] => Nic[p] \in up'[f]
  PROVE  WorkInv'
  <1>1. /\ \A s, p : /\ Has(s, p)' <=> Has(s, p)
                     /\ Busy(s, p)' <=> Busy(s, p)
        /\ \A e : Doing(e)' <=> Doing(e)
        /\ \A s, f : Bringing(s, f)' <=> Bringing(s, f)
        /\ \A s, p, f : Ending(s, p, f)' <=> Ending(s, p, f)
        /\ \A f, step : Working(f, step)' <=> Working(f, step)
        /\ \A f : (Needed(f)' <=> Needed(f)) /\ Configuration(f)' = Configuration(f)
    BY DEF Has, Busy, Doing, Bringing, Ending, Handling, Working, TaskAt, Needed, Configuration, Sub, Prov
  <1>2. \A s \in Subnets, p \in Providers : Has(s, p) /\ Awaits(s, p) => Awaits(s, p)'
    BY DEF Awaits
  <1>3. \A s \in Subnets, p \in Providers : Busy(s, p) => ~Leaving(p)
    BY LeavingClear DEF Clear
  <1>4. FitInv' BY <1>1 DEF NetInv, WorkInv, FitInv, Fits
  <1>5. ReadInv'
    <2> SUFFICES ASSUME NEW s \in Subnets, NEW p \in Providers, Busy(s, p)
                 PROVE  /\ task.ev.op # "DELETE" => Has(s, p)' /\ (task.spec = lister[s] \/ Coming(s, p)')
                        /\ task.ev.op = "DELETE" => ~task.failed
                        /\ task.step # "look" =>
                             /\ (p \in Attached)'
                             /\ task.ev.op # "DELETE" => task.net = GetNetworkStatus(p)' \/ Awaits(s, p)'
      BY <1>1 DEF ReadInv
    <2>1. /\ task.ev.op # "DELETE" => Has(s, p) /\ (task.spec = lister[s] \/ Coming(s, p))
          /\ task.ev.op = "DELETE" => ~task.failed
          /\ task.step # "look" =>
               p \in Attached /\ (task.ev.op # "DELETE" => task.net = GetNetworkStatus(p) \/ Awaits(s, p))
      BY DEF NetInv, WorkInv, ReadInv
    <2>2. ~Leaving(p) BY <1>3
    <2>3. task.step # "look" => (p \in Attached)' BY <2>1, <2>2
    <2>4. ASSUME task.step # "look", task.ev.op # "DELETE"
          PROVE  task.net = GetNetworkStatus(p)' \/ Awaits(s, p)'
      BY <1>2, <2>1, <2>3, <2>4 DEF Awaits
    <2> QED BY <1>1, <2>1, <2>3, <2>4
  <1>6. ReadyInv'
    <2> SUFFICES ASSUME NEW s \in Subnets, NEW p \in Providers, NEW f \in Families, Busy(s, p)
                 PROVE  /\ Working(f, "serve")' =>
                             /\ Needed(f)' /\ f \in DOMAIN task.net
                             /\ s \in DOMAIN conf'[f] /\ conf'[f][s] = Configuration(f)'
                        /\ Working(f, "stop")' =>
                             /\ ~Needed(f)' /\ s \notin DOMAIN conf'[f]
                             /\ \A t \in Subnets \ {s} : Has(t, p)' /\ f \in lister[t].fams => Coming(t, p)'
      BY <1>1 DEF ReadyInv
    <2>1. /\ Working(f, "serve") =>
               /\ Needed(f) /\ f \in DOMAIN task.net
               /\ s \in DOMAIN conf[f] /\ conf[f][s] = Configuration(f)
          /\ Working(f, "stop") =>
               /\ ~Needed(f) /\ s \notin DOMAIN conf[f]
               /\ \A t \in Subnets \ {s} : Has(t, p) /\ f \in lister[t].fams => Coming(t, p)
      BY DEF NetInv, WorkInv, ReadyInv
    <2>2. Working(f, "serve") => \A q \in Providers : ~(Home(s, q) /\ Leaving(q))
      <3>1. Needed(f) => Has(s, p) BY DEF NetInv, WorkInv, ReadInv, Needed
      <3>2. \A q : Has(s, p) /\ Home(s, q) => q = p BY DEF Has, Home
      <3> QED BY <1>3, <2>1, <3>1, <3>2
    <2>3. Working(f, "serve") /\ s \in DOMAIN conf[f] => s \in DOMAIN conf'[f] BY <2>2
    <2> QED BY <1>1, <2>1, <2>3
  <1>7. BelongInv'
    <2> SUFFICES ASSUME NEW f \in Families, NEW s \in Subnets, NEW p \in Providers,
                        s \in DOMAIN conf'[f], conf'[f][s].prov = p
                 PROVE  /\ (p \in Attached)' /\ p \notin Own
                        /\ \/ Going(s, p)' \/ Ending(s, p, f)' \/ Wants(s, p, f)'
                           \/ Has(s, p)' /\ Bringing(s, f)'
      BY DEF BelongInv
    <2>1. /\ p \in Attached \ Own
          /\ Going(s, p) \/ Ending(s, p, f) \/ Wants(s, p, f) \/ (Has(s, p) /\ Bringing(s, f))
      BY DEF NetInv, WorkInv, BelongInv
    <2>2. (p \in Attached)' BY <2>1 DEF Leaving, Attached
    <2>3. Wants(s, p, f) => Wants(s, p, f)'
      <3>1. Wants(s, p, f) /\ Telling(s, p) => Wants(s, p, f)' BY <1>1 DEF Wants, Awaits
      <3>2. Wants(s, p, f) /\ Coming(s, p) => Wants(s, p, f)' BY <1>1 DEF Wants
      <3>3. ASSUME Has(s, p), f \in lister[s].fams, f \in DOMAIN GetNetworkStatus(p)
            PROVE  Wants(s, p, f)'
        BY <1>1, <2>2, <3>3 DEF Wants
      <3> QED BY <3>1, <3>2, <3>3 DEF Wants
    <2> QED BY <1>1, <2>1, <2>2, <2>3
  <1>8. ASSUME NEW s \in Subnets, NEW p \in Providers, NEW f \in Families, Needs(s, p, f)'
        PROVE  /\ Needs(s, p, f) /\ GetNetworkStatus(p)' = GetNetworkStatus(p)
               /\ \A q \in Providers : ~(Home(s, q) /\ Leaving(q))
    <2>1. /\ Has(s, p) /\ (p \in Attached)' /\ p \notin Own /\ ~Leaving(p)' /\ ~Awaits(s, p)'
          /\ f \in lister[s].fams /\ f \in DOMAIN (GetNetworkStatus(p)')
      BY <1>1, <1>8 DEF Needs
    <2>2. p \in Attached /\ GetNetworkStatus(p)' = GetNetworkStatus(p) BY <2>1 DEF Awaits
    <2>3. ~Leaving(p) BY <2>1
    <2>4. ~Awaits(s, p) BY <1>2, <2>1
    <2>5. ASSUME NEW q \in Providers, Home(s, q) PROVE q = p BY <2>1, <2>5 DEF Has, Home
    <2> QED BY <2>1, <2>2, <2>3, <2>4, <2>5 DEF Needs
  <1>9. MetInv'
    <2> SUFFICES ASSUME NEW s \in Subnets, NEW p \in Providers, NEW f \in Families, Needs(s, p, f)'
                 PROVE  Bringing(s, f)' \/ Served(s, p, f)'
      BY DEF MetInv
    <2>1. Bringing(s, f) \/ Served(s, p, f) BY <1>8 DEF NetInv, WorkInv, MetInv
    <2>2. p \in Attached \ Own /\ ~Leaving(p) BY <1>8 DEF Needs
    <2>3. Served(s, p, f) => Served(s, p, f)' BY <1>8, <2>2 DEF Served
    <2> QED BY <1>1, <2>1, <2>3
  <1>10. NameInv'
    <2> SUFFICES ASSUME NEW s \in Subnets, NEW p \in Providers, NEW f \in Families, Needs(s, p, f)'
                 PROVE  Busy(s, p)' \/ (s \in DOMAIN subnetGauge' /\ subnetGauge'[s] = p)
      BY DEF NameInv
    <2>1. Busy(s, p) \/ (s \in DOMAIN subnetGauge /\ subnetGauge[s] = p)
      BY <1>8 DEF NetInv, WorkInv, NameInv
    <2> QED BY <1>1, <1>8, <2>1
  <1> QED BY <1>4, <1>5, <1>6, <1>7, <1>9, <1>10 DEF WorkInv

\* A step that leaves what is configured, served and mapped alone.
LEMMA BesideSame ==
  ASSUME NetInv, SubInv', UNCHANGED <<lister, task, infoMap, conf, up, subnetGauge>>,
         \A s \in Subnets, p \in Providers :
           /\ Going(s, p)' <=> Going(s, p)
           /\ Coming(s, p)' => Coming(s, p) \/ (p \notin Own /\ Fits(s, p))
           /\ Has(s, p) /\ Coming(s, p) => Coming(s, p)'
           /\ Has(s, p) /\ Telling(s, p) => Awaits(s, p)',
         \A p \in DOMAIN infoMap : Removing(p) => Removing(p)'
  PROVE  WorkInv'
  <1>1. /\ \A p : (p \in Attached)' <=> p \in Attached
        /\ \A p : GetNetworkStatus(p)' = GetNetworkStatus(p)
    BY NetworksKept
  <1>2. \A p : Leaving(p) => Leaving(p)' BY DEF Leaving
  <1> QED BY <1>1, <1>2, BesideWork

LEMMA InformerWork ==
  ASSUME NetInv, UNCHANGED svcVars,
         Deliver \/ (\E e \in queue.later : RetryTimer(e)) \/ PodWorker \/ Skip
  PROVE  WorkInv'
  <1>1. SubInv /\ SubInv' BY NetParts, DeliverStep, RetryStep, PodWorkerStep, SkipStep
  <1>2. UNCHANGED <<lister, task, infoMap, conf, up, subnetGauge>>
    BY DEF Deliver, RetryTimer, PodWorker, PodTake, PodRead, PodWrite, Skip, dhcp, cache
  <1>3. \A s \in Subnets, p \in Providers :
          /\ Going(s, p)' <=> Going(s, p)
          /\ Coming(s, p)' => Coming(s, p)
          /\ Has(s, p) /\ Coming(s, p) => Coming(s, p)'
    <2>1. CASE Skip BY <1>1, <2>1, SkipFacts
    <2>2. CASE Deliver \/ (\E e \in queue.later : RetryTimer(e)) \/ PodWorker
      <3>1. CASE Deliver \/ \E e \in queue.later : RetryTimer(e)
        BY <1>1, <3>1, InformerDue DEF Coming, Going
      <3>2. CASE PodWorker
        <4>1. UNCHANGED <<notes, queue>> BY <3>2 DEF PodWorker, PodTake, PodRead, PodWrite
        <4> QED BY <4>1 DEF Coming, Going, Due
      <3> QED BY <2>2, <3>1, <3>2
    <2> QED BY <2>1, <2>2
  <1>4. /\ \A s, p : Telling(s, p) => Telling(s, p)'
        /\ \A p : Removing(p) => Removing(p)'
    BY <1>2, SvcStill
  <1> QED BY <1>1, <1>2, <1>3, <1>4, BesideSame DEF Awaits

-----------------------------------------------------------------------------
(***************************************************************************)
(* The subnet worker takes an item and finishes it.                        *)
(***************************************************************************)
\* A step of the subnet worker that changes no configuration or server.
LEMMA WorkKept ==
  ASSUME NetInv, UNCHANGED <<lister, infoMap, svcVars>>,
         \A s \in Subnets, p \in Providers : Has(s, p) /\ p \in Attached /\ Coming(s, p) =>
           \/ Coming(s, p)'
           \/ Busy(s, p)' /\ \A f \in Families : Bringing(s, f)'
  PROVE  /\ UNCHANGED <<conf, up>>
            /\ (\A s \in Subnets, p \in Providers, f \in Families :
                  Needs(s, p, f) /\ Bringing(s, f) => Bringing(s, f)' \/ Coming(s, p)')
              => MetInv'
         /\ UNCHANGED subnetGauge
            /\ (\A s \in Subnets, p \in Providers, f \in Families :
                  Needs(s, p, f) /\ Busy(s, p) => Busy(s, p)' \/ Coming(s, p)')
              => NameInv'
  <1>1. /\ \A p : (p \in Attached)' <=> p \in Attached
        /\ \A p : GetNetworkStatus(p)' = GetNetworkStatus(p)
        /\ \A s, p : Telling(s, p)' <=> Telling(s, p)
        /\ \A p : Leaving(p)' <=> Leaving(p)
        /\ \A s, p : Has(s, p)' <=> Has(s, p)
    BY NetworksKept, SvcStill DEF Has
  <1>2. ASSUME NEW s \in Subnets, NEW p \in Providers, NEW f \in Families, Needs(s, p, f)'
        PROVE  ~Coming(s, p)' /\ (Needs(s, p, f) \/ (Busy(s, p)' /\ Bringing(s, f)'))
    <2>1. /\ Has(s, p) /\ p \in Attached \ Own /\ ~Leaving(p) /\ ~Telling(s, p) /\ ~Coming(s, p)'
          /\ f \in lister[s].fams \cap DOMAIN GetNetworkStatus(p)
      BY <1>1, <1>2 DEF Needs, Awaits
    <2> QED BY <2>1 DEF Needs, Awaits
  <1>3. ASSUME UNCHANGED <<conf, up>>,
               \A s \in Subnets, p \in Providers, f \in Families :
                 Needs(s, p, f) /\ Bringing(s, f) => Bringing(s, f)' \/ Coming(s, p)'
        PROVE  MetInv'
    <2>1. \A s, p, f : Served(s, p, f)' <=> Served(s, p, f) BY <1>1, <1>3 DEF Served
    <2> QED BY <1>2, <1>3, <2>1 DEF NetInv, WorkInv, MetInv
  <1>4. ASSUME UNCHANGED subnetGauge,
               \A s \in Subnets, p \in Providers, f \in Families :
                 Needs(s, p, f) /\ Busy(s, p) => Busy(s, p)' \/ Coming(s, p)'
        PROVE  NameInv'
    BY <1>2, <1>4 DEF NetInv, WorkInv, NameInv
  <1> QED BY <1>3, <1>4

\* Within a step of the subnet worker, what an entry's account keeps of it.
LEMMA WantsKept ==
  ASSUME UNCHANGED <<lister, infoMap, svcVars>>, NEW s, NEW p, NEW f, Wants(s, p, f),
         Coming(s, p) => Coming(s, p)'
  PROVE  Wants(s, p, f)'
  <1>1. Telling(s, p)' <=> Telling(s, p) BY SvcStill
  <1>2. GetNetworkStatus(p)' = GetNetworkStatus(p) BY NetworksKept
  <1> QED BY <1>1, <1>2 DEF Wants, Has

LEMMA TakeWork == ASSUME NetInv, UNCHANGED svcVars, Take PROVE WorkInv'
  <1>1. SubInv /\ NextEvent \in Event BY NetParts, TakeDue
  <1> PICK s \in Subnets, p \in Providers, op \in {"ADD", "UPDATE", "DELETE"} :
        NextEvent = Item(s, op, p)
    BY <1>1 DEF Event, Item
  <1>2. /\ task = None /\ UNCHANGED <<lister, notes, infoMap, conf, up>>
        /\ task' # None /\ task'.ev.sub = s /\ task'.ev.op = op /\ task'.ev.prov = p
        /\ task'.spec = (IF op = "DELETE" THEN None ELSE lister[s])
        /\ task'.step = "look" /\ task'.failed = FALSE
        /\ \A t, q : Busy(t, q)' <=> t = s /\ q = p
        /\ \A x : Doing(x)' => Due(x)
        /\ \A t, q : Has(t, q)' <=> Has(t, q)
        /\ op # "DELETE" => lister[s] # None /\ lister[s].on
        /\ Due(Item(s, op, p))
        /\ \A t, q : Coming(t, q)' => Coming(t, q)
        /\ \A t, q : Going(t, q)' => Going(t, q)
        /\ \A t, q : t # s \/ q # p => (Coming(t, q) => Coming(t, q)') /\ (Going(t, q) => Going(t, q)')
        /\ Coming(s, p) => Coming(s, p)' \/ op # "DELETE"
        /\ Going(s, p) => Going(s, p)' \/ op = "DELETE"
        /\ \A f \in Families :
             /\ op # "DELETE" => Bringing(s, f)'
             /\ op = "DELETE" => Ending(s, p, f)'
    BY <1>1, TakeFacts
  <1>3. UNCHANGED subnetGauge BY DEF Take, dhcp
  <1>4. \A t, q : ~Busy(t, q) /\ \A f : ~Bringing(t, f) /\ ~Ending(t, q, f)
    BY <1>2 DEF Busy, Bringing, Ending, Doing
  <1>5. p \notin Own /\ (op # "DELETE" => Has(s, p))
    <2>1. Coming(s, p) \/ Going(s, p) BY <1>2 DEF Coming, Going
    <2>2. p \notin Own BY <2>1 DEF NetInv, WorkInv, FitInv
    <2>3. op # "DELETE" => Coming(s, p) BY <1>2 DEF Coming
    <2>4. op # "DELETE" => Fits(s, p) BY <2>3 DEF NetInv, WorkInv, FitInv
    <2> QED BY <1>2, <2>2, <2>4 DEF Fits, Has
  <1>6. FitInv'
    <2>1. \A t, q : Doing(Item(t, "DELETE", q))' => Going(t, q) BY <1>2 DEF Going
    <2> QED BY <1>2, <1>5, <2>1 DEF NetInv, WorkInv, FitInv, Fits
  <1>7. ReadInv' BY <1>2, <1>5 DEF ReadInv
  <1>8. ReadyInv' BY <1>2 DEF ReadyInv, Working, TaskAt
  <1>9. BelongInv'
    <2> SUFFICES ASSUME NEW f \in Families, NEW t \in Subnets, NEW q \in Providers,
                        t \in DOMAIN conf[f], conf[f][t].prov = q
                 PROVE  /\ (q \in Attached)' /\ q \notin Own
                        /\ \/ Going(t, q)' \/ Ending(t, q, f)' \/ Wants(t, q, f)'
                           \/ Has(t, q)' /\ Bringing(t, f)'
      BY <1>2 DEF BelongInv
    <2>1. /\ q \in Attached \ Own
          /\ Going(t, q) \/ Wants(t, q, f)
      BY <1>4 DEF NetInv, WorkInv, BelongInv
    <2>2. (q \in Attached)' BY <1>2, <2>1, NetworksKept
    <2>3. Wants(t, q, f) => Wants(t, q, f)' \/ (Has(t, q)' /\ Bringing(t, f)')
      <3>1. CASE Coming(t, q) => Coming(t, q)' BY <1>2, <3>1, WantsKept
      <3>2. CASE t = s /\ q = p /\ op # "DELETE" BY <1>2, <1>5, <3>2
      <3> QED BY <1>2, <3>1, <3>2
    <2> QED BY <1>2, <2>1, <2>2, <2>3
  <1>10. \A t \in Subnets, q \in Providers : Coming(t, q) =>
           Coming(t, q)' \/ (Busy(t, q)' /\ \A f \in Families : Bringing(t, f)')
    BY <1>2
  <1>11. MetInv' /\ NameInv' BY <1>2, <1>3, <1>4, <1>10, WorkKept
  <1> QED BY <1>6, <1>7, <1>8, <1>9, <1>11 DEF WorkInv

\* What the subnet worker knows of the subnet it is at.
LEMMA AtSubnet ==
  ASSUME NetInv, task # None
  PROVE  /\ Sub \in Subnets /\ Prov \in Providers /\ Busy(Sub, Prov)
         /\ Prov \notin Own
         /\ task.ev.op = "DELETE" => ~Has(Sub, Prov) /\ ~task.failed
         /\ task.ev.op # "DELETE" =>
              Has(Sub, Prov) /\ (task.spec = lister[Sub] \/ Coming(Sub, Prov))
         /\ task.step # "look" => Prov \in Attached \ Own
         /\ task.step # "look" /\ task.ev.op # "DELETE" =>
              task.net = GetNetworkStatus(Prov) \/ Awaits(Sub, Prov)
  <1>1. /\ Sub \in Subnets /\ Prov \in Providers /\ Busy(Sub, Prov)
        /\ Doing(Item(Sub, task.ev.op, Prov))
    BY NetParts, TaskItem
  <1>2. Prov \notin Own /\ (task.ev.op = "DELETE" => ~Has(Sub, Prov))
    BY <1>1 DEF NetInv, WorkInv, FitInv
  <1> QED BY <1>1, <1>2 DEF NetInv, WorkInv, ReadInv

\* A subnet that needs the family and is at hand is at hand for that: before it is
\* taken off its former provider it does not need it.
LEMMA AtNeed ==
  ASSUME NetInv, task # None, NEW p \in Providers, NEW f \in Families, Needs(Sub, p, f)
  PROVE  /\ task.ev.op # "DELETE" /\ p = Prov /\ task.spec = lister[Sub] /\ f \in task.spec.fams
         /\ task.step # "look" => task.net = GetNetworkStatus(p)
  <1>1. Has(Sub, p) /\ p \notin Own /\ ~Awaits(Sub, p) /\ f \in lister[Sub].fams BY DEF Needs
  <1>2. /\ Sub \in Subnets /\ Prov \in Providers
        /\ task.ev.op # "DELETE" => Has(Sub, Prov) /\ (task.spec = lister[Sub] \/ Coming(Sub, Prov))
        /\ task.step # "look" /\ task.ev.op # "DELETE" =>
             task.net = GetNetworkStatus(Prov) \/ Awaits(Sub, Prov)
    BY AtSubnet
  <1>3. task.ev.op # "DELETE"
    <2> SUFFICES ASSUME task.ev.op = "DELETE" PROVE FALSE
      OBVIOUS
    <2>1. Doing(Item(Sub, "DELETE", Prov)) BY NetParts, TaskItem
    <2>2. Due(Item(Sub, "ADD", p)) BY <1>1, <1>2, <2>1 DEF NetInv, OrderedInv, MoveInv
    <2> QED BY <1>1, <2>2 DEF Awaits, Coming
  <1>4. p = Prov BY <1>1, <1>2, <1>3 DEF Has
  <1> QED BY <1>1, <1>2, <1>3, <1>4 DEF Awaits

LEMMA FinishWork ==
  ASSUME NetInv, task # None, NEW failed \in BOOLEAN,
         queue' = Handled(queue, task.ev, failed), task' = None,
         UNCHANGED <<lister, notes, infoMap, conf, up, svcVars>>,
         failed \/ Prov \notin Attached \/ \A f \in Families : ~Handling(f)
  PROVE  /\ FitInv' /\ ReadInv' /\ ReadyInv' /\ BelongInv' /\ MetInv'
         /\ UNCHANGED subnetGauge /\ (failed \/ Prov \notin Attached) => NameInv'
         /\ \A t, q : Coming(t, q) => Coming(t, q)'
  <1>1. SubInv BY NetParts
  <1> PICK s \in Subnets, p \in Providers, op \in {"ADD", "UPDATE", "DELETE"} :
        Sub = s /\ Prov = p /\ task.ev.op = op
    BY <1>1, TaskItem
  <1>2. /\ task.ev = Item(s, op, p) /\ Doing(Item(s, op, p)) /\ Busy(s, p)
        /\ \A t, q : Coming(t, q) => Coming(t, q)'
        /\ \A t, q : Going(t, q) => Going(t, q)'
        /\ failed /\ op # "DELETE" => Coming(s, p)'
        /\ failed /\ op = "DELETE" => Going(s, p)'
        /\ \A t, q : Has(t, q)' <=> Has(t, q)
        /\ \A e : ~Doing(e)'
        /\ \A e : Due(e)' => Due(e) \/ Doing(e)
        /\ \A t, f : Bringing(t, f) => t = s /\ op # "DELETE" /\ Handling(f)
        /\ \A t, q, f : Ending(t, q, f) => t = s /\ q = p /\ op = "DELETE" /\ Handling(f)
    BY <1>1, FinishFacts
  <1>3. \A t, q : ~Busy(t, q)' BY DEF Busy
  <1>4. op # "DELETE" => Has(s, p) BY AtSubnet
  <1>5. FitInv'
    <2>1. \A t, q : \A o : Doing(Item(t, o, q)) => Busy(t, q)
      <3>1. \A t, q, o : Item(t, o, q).sub = t /\ Item(t, o, q).prov = q BY DEF Item
      <3> QED BY <3>1 DEF Doing, Busy, Sub, Prov
    <2>2. \A t, q : /\ Coming(t, q)' => Coming(t, q) \/ Busy(t, q)
                    /\ Going(t, q)' => Going(t, q) \/ Doing(Item(t, "DELETE", q))
      BY <1>2, <2>1 DEF Coming, Going
    <2>3. \A t, q : Coming(t, q)' => Coming(t, q) \/ (t = s /\ q = p /\ Has(s, p))
      <3>1. \A t, o, q : Doing(Item(t, o, q)) => t = s /\ q = p /\ o = op
        BY <2>1 DEF Doing, Busy, Item
      <3>2. \A t, q : Doing(Item(t, "ADD", q)) \/ Doing(Item(t, "UPDATE", q)) =>
                       t = s /\ q = p /\ Has(s, p)
        BY <1>4, <3>1
      <3>3. \A t, q : Coming(t, q)' =>
              Coming(t, q) \/ Doing(Item(t, "ADD", q)) \/ Doing(Item(t, "UPDATE", q))
        BY <1>2 DEF Coming
      <3> QED BY <3>2, <3>3
    <2>4. \A t, q : Has(t, q) => Fits(t, q) BY DEF Has, Fits
    <2> QED BY <1>2, <1>3, <2>1, <2>2, <2>3, <2>4 DEF NetInv, WorkInv, FitInv, Fits
  <1>6. ReadInv' /\ ReadyInv' BY <1>3 DEF ReadInv, ReadyInv
  <1>7. \A f \in Families : p \in Attached /\ Handling(f) => failed OBVIOUS
  <1>8. BelongInv'
    <2> SUFFICES ASSUME NEW f \in Families, NEW t \in Subnets, NEW q \in Providers,
                        t \in DOMAIN conf[f], conf[f][t].prov = q
                 PROVE  /\ (q \in Attached)' /\ q \notin Own
                        /\ \/ Going(t, q)' \/ Ending(t, q, f)' \/ Wants(t, q, f)'
                           \/ Has(t, q)' /\ Bringing(t, f)'
      BY DEF BelongInv
    <2>1. /\ q \in Attached \ Own
          /\ Going(t, q) \/ Ending(t, q, f) \/ Wants(t, q, f) \/ (Has(t, q) /\ Bringing(t, f))
      BY DEF NetInv, WorkInv, BelongInv
    <2>2. (q \in Attached)' BY <2>1, NetworksKept
    <2>3. Wants(t, q, f) => Wants(t, q, f)' BY <1>2, WantsKept
    <2>4. Has(t, q) /\ Bringing(t, f) => Wants(t, q, f)'
      <3> SUFFICES ASSUME Has(t, q), Bringing(t, f) PROVE Has(t, q)' /\ Coming(t, q)'
        BY DEF Wants
      <3>1. t = s /\ op # "DELETE" /\ Handling(f) BY <1>2
      <3>2. q = p BY <1>4, <3>1 DEF Has
      <3> QED BY <1>2, <1>7, <2>1, <3>1, <3>2
    <2>5. Ending(t, q, f) => Going(t, q)' BY <1>2, <1>7, <2>1
    <2> QED BY <1>2, <2>1, <2>2, <2>3, <2>4, <2>5
  <1>9. \A t \in Subnets, q \in Providers, f \in Families : Needs(t, q, f) =>
          /\ q \in Attached
          /\ Bringing(t, f) => t = s /\ q = p /\ Handling(f)
          /\ t = s => op # "DELETE" /\ q = p
    BY <1>2, AtNeed DEF Needs
  <1>10. MetInv' BY <1>2, <1>7, <1>9, WorkKept
  <1>11. UNCHANGED subnetGauge /\ (failed \/ Prov \notin Attached) => NameInv'
    <2> HAVE UNCHANGED subnetGauge /\ (failed \/ Prov \notin Attached)
    <2>1. ASSUME NEW t \in Subnets, NEW q \in Providers, NEW f \in Families, Needs(t, q, f), Busy(t, q)
          PROVE  Coming(t, q)'
      <3>1. t = s BY <2>1 DEF Busy
      <3>2. op # "DELETE" /\ q = p /\ q \in Attached BY <1>9, <2>1, <3>1
      <3> QED BY <1>2, <3>1, <3>2
    <2> QED BY <1>2, <2>1, WorkKept
  <1> QED BY <1>2, <1>5, <1>6, <1>8, <1>10, <1>11

\* Needing to be served does not start within a step of the subnet worker.
LEMMA NeedsSame ==
  ASSUME UNCHANGED <<lister, infoMap, svcVars>>, NEW s, NEW p, NEW f, Needs(s, p, f)',
         Coming(s, p) => Coming(s, p)'
  PROVE  Needs(s, p, f)
  <1>1. /\ (p \in Attached)' <=> p \in Attached
        /\ GetNetworkStatus(p)' = GetNetworkStatus(p)
        /\ Telling(s, p)' <=> Telling(s, p)
        /\ Leaving(p)' <=> Leaving(p)
        /\ Has(s, p)' <=> Has(s, p)
    BY NetworksKept, SvcStill DEF Has
  <1> QED BY <1>1 DEF Needs, Awaits

LEMMA EndWork == ASSUME NetInv, UNCHANGED svcVars, End PROVE WorkInv'
  <1>1. SubInv /\ task # None /\ task \in Task /\ task.todo = <<>>
    BY NetParts DEF End, TaskAt, SubInv, TaskTyped
  <1> DEFINE failed == task.failed
  <1>2. failed \in BOOLEAN /\ queue' = Handled(queue, task.ev, failed) /\ task' = None
    BY <1>1 DEF Task, End
  <1>3. failed \/ \A f \in Families : ~Handling(f) BY <1>1 DEF Handling, ToSet
  <1>4. UNCHANGED <<lister, notes, infoMap, conf, up>> BY DEF End, cache
  <1> HIDE DEF failed
  <1>5. /\ FitInv' /\ ReadInv' /\ ReadyInv' /\ BelongInv' /\ MetInv'
        /\ \A t, q : Coming(t, q) => Coming(t, q)'
    BY <1>1, <1>2, <1>3, <1>4, FinishWork
  <1>6. subnetGauge' = IF task.ev.op = "DELETE" THEN Drop(subnetGauge, Sub) ELSE Put(subnetGauge, Sub, Prov)
    BY DEF End, Report
  <1>7. NameInv'
    <2> SUFFICES ASSUME NEW s \in Subnets, NEW p \in Providers, NEW f \in Families, Needs(s, p, f)'
                 PROVE  s \in DOMAIN subnetGauge' /\ subnetGauge'[s] = p
      BY DEF NameInv
    <2>1. Needs(s, p, f) BY <1>4, <1>5, NeedsSame
    <2>2. CASE s = Sub
      <3>1. task.ev.op # "DELETE" /\ p = Prov BY <1>1, <2>1, <2>2, AtNeed
      <3> QED BY <1>6, <2>2, <3>1 DEF Put
    <2>3. CASE s # Sub
      <3>1. s \in DOMAIN subnetGauge /\ subnetGauge[s] = p
        BY <2>1, <2>3 DEF NetInv, WorkInv, NameInv, Busy
      <3> QED BY <1>6, <2>3, <3>1 DEF Put, Drop, Restrict
    <2> QED BY <2>2, <2>3
  <1> QED BY <1>5, <1>7 DEF WorkInv

-----------------------------------------------------------------------------
(***************************************************************************)
(* The subnet worker's steps within an item.                               *)
(***************************************************************************)
LEMMA MoveWork ==
  ASSUME NetInv, task # None, task' # None,
         UNCHANGED <<lister, notes, queue, infoMap, svcVars>>,
         task'.ev = task.ev, task'.spec = task.spec,
         task.ev.op = "DELETE" => ~task'.failed,
         task'.step # "look" =>
           /\ Prov \in Attached
           /\ task.ev.op # "DELETE" => task'.net = GetNetworkStatus(Prov) \/ Awaits(Sub, Prov),
         \A f \in Families, s \in Subnets : s \in DOMAIN conf'[f] =>
           \/ /\ s \in DOMAIN conf[f] /\ conf'[f][s] = conf[f][s]
              /\ \/ s # Sub
                 \/ Handling(f) => Handling(f)'
                 \/ Wants(s, Prov, f)
           \/ /\ s = Sub /\ conf'[f][s].prov = Prov
              /\ Prov \in Attached /\ task.ev.op # "DELETE" /\ Handling(f)'
  PROVE  FitInv' /\ ReadInv' /\ BelongInv'
  <1> PICK s \in Subnets, p \in Providers, op \in {"ADD", "UPDATE", "DELETE"} :
        Sub = s /\ Prov = p /\ task.ev.op = op
    BY NetParts, TaskItem
  <1>1. /\ Busy(s, p) /\ \A t, q : Busy(t, q) => t = s /\ q = p
        /\ p \notin Own
        /\ op # "DELETE" => Has(s, p) /\ (task.spec = lister[s] \/ Coming(s, p))
    BY AtSubnet DEF Busy
  <1>2. /\ \A e : Due(e)' <=> Due(e)
        /\ \A e : Doing(e)' <=> Doing(e)
        /\ \A t, q : Busy(t, q)' <=> Busy(t, q)
        /\ \A t, q : Has(t, q)' <=> Has(t, q)
        /\ task'.ev.op = op
    BY MoveFacts
  <1>3. /\ \A t, q : Coming(t, q)' <=> Coming(t, q)
        /\ \A t, q : Going(t, q)' <=> Going(t, q)
    BY MoveFacts
  <1>4. /\ \A q : (q \in Attached)' <=> q \in Attached
        /\ GetNetworkStatus(p)' = GetNetworkStatus(p)
        /\ \A t, q : Telling(t, q)' <=> Telling(t, q)
    BY NetworksKept, SvcStill
  <1>5. FitInv' BY <1>2, <1>3 DEF NetInv, WorkInv, FitInv, Fits
  <1>6. ReadInv'
    <2> SUFFICES ASSUME NEW t \in Subnets, NEW q \in Providers, Busy(t, q)
                 PROVE  /\ op # "DELETE" => Has(t, q)' /\ (task'.spec = lister'[t] \/ Coming(t, q)')
                        /\ op = "DELETE" => ~task'.failed
                        /\ task'.step # "look" =>
                             /\ (q \in Attached)'
                             /\ op # "DELETE" => task'.net = GetNetworkStatus(q)' \/ Awaits(t, q)'
      BY <1>2 DEF ReadInv
    <2>1. t = s /\ q = p BY <1>1
    <2>2. Awaits(s, p)' <=> Awaits(s, p) BY <1>3, <1>4 DEF Awaits
    <2> QED BY <1>1, <1>2, <1>3, <1>4, <2>1, <2>2
  <1>7. \A t, q, f : Wants(t, q, f) => Wants(t, q, f)' BY <1>3, WantsKept
  <1>8. BelongInv'
    <2> SUFFICES ASSUME NEW f \in Families, NEW t \in Subnets, NEW q \in Providers,
                        t \in DOMAIN conf'[f], conf'[f][t].prov = q
                 PROVE  /\ q \in Attached \ Own
                        /\ \/ Going(t, q)' \/ Ending(t, q, f)' \/ Wants(t, q, f)'
                           \/ Has(t, q)' /\ Bringing(t, f)'
      BY <1>4 DEF BelongInv
    <2>1. op # "DELETE" /\ Handling(f)' => Has(s, p)' /\ Bringing(s, f)'
      BY <1>1, <1>2 DEF Bringing, Sub
    <2>2. CASE t = s /\ conf'[f][t].prov = p /\ p \in Attached /\ op # "DELETE" /\ Handling(f)'
      BY <1>1, <2>1, <2>2
    <2>3. CASE /\ t \in DOMAIN conf[f] /\ conf'[f][t] = conf[f][t]
               /\ t # s \/ (Handling(f) => Handling(f)') \/ Wants(t, p, f)
      <3>1. /\ q \in Attached \ Own
            /\ Going(t, q) \/ Ending(t, q, f) \/ Wants(t, q, f) \/ (Has(t, q) /\ Bringing(t, f))
        BY <2>3 DEF NetInv, WorkInv, BelongInv
      <3>2. CASE Going(t, q) \/ Wants(t, q, f) BY <1>3, <1>7, <3>1, <3>2
      <3>3. CASE Has(t, q) /\ Bringing(t, f)
        <4>1. t = s /\ op # "DELETE" /\ Handling(f) BY <3>3 DEF Bringing
        <4>2. q = p BY <1>1, <3>3, <4>1 DEF Has
        <4> QED BY <1>7, <2>1, <2>3, <3>1, <4>1, <4>2
      <3>4. CASE Ending(t, q, f)
        <4>1. task.ev = Item(t, "DELETE", q) /\ f \in ToSet(task.todo) BY <3>4 DEF Ending, Doing
        <4>2. t = s /\ q = p /\ op = "DELETE" BY <4>1 DEF Item, Sub, Prov
        <4>3. ~Has(t, q) BY <3>4, <4>2 DEF Ending, NetInv, WorkInv, FitInv
        <4>4. Handling(f) => Handling(f)' BY <2>3, <4>2, <4>3 DEF Wants
        <4>5. f \in ToSet(task'.todo) BY <4>1, <4>2, <4>4 DEF Handling
        <4>6. Ending(t, q, f)' BY <1>2, <3>4, <4>5 DEF Ending
        <4> QED BY <3>1, <4>6
      <3> QED BY <3>1, <3>2, <3>3, <3>4
    <2> QED BY <2>2, <2>3
  <1> QED BY <1>5, <1>6, <1>8

\* A step within an item concerns one family.
LEMMA WithinWork ==
  ASSUME NetInv, task # None, task' # None, task'.ev = task.ev,
         UNCHANGED <<lister, notes, queue, infoMap, subnetGauge, svcVars>>, NEW f \in Families,
         \A g \in Families : g # f =>
           /\ conf'[g] = conf[g] /\ up'[g] = up[g]
           /\ Handling(g) => Handling(g)',
         \A s \in Subnets, p \in Providers :
           Needs(s, p, f) /\ (Bringing(s, f) \/ Served(s, p, f)) =>
             (s = Sub /\ task.ev.op # "DELETE" /\ Handling(f)') \/ Served(s, p, f)'
  PROVE  MetInv' /\ NameInv'
  <1>1. /\ \A t, q : Busy(t, q)' <=> Busy(t, q)
        /\ \A t, q : Coming(t, q)' <=> Coming(t, q)
    BY MoveFacts
  <1>2. \A s, p, g : Needs(s, p, g)' => Needs(s, p, g) BY <1>1, NeedsSame
  <1>3. NameInv' BY <1>1, <1>2 DEF NetInv, WorkInv, NameInv
  <1>4. \A t : t = Sub /\ task.ev.op # "DELETE" => \A g : Handling(g)' => Bringing(t, g)'
    BY DEF Bringing, Sub
  <1>5. MetInv'
    <2> SUFFICES ASSUME NEW s \in Subnets, NEW p \in Providers, NEW g \in Families, Needs(s, p, g)
                 PROVE  Bringing(s, g)' \/ Served(s, p, g)'
      BY <1>2 DEF MetInv
    <2>1. Bringing(s, g) \/ Served(s, p, g) BY DEF NetInv, WorkInv, MetInv
    <2>2. CASE g = f BY <1>4, <2>1, <2>2
    <2>3. CASE g # f
      <3>1. Bringing(s, g) => Bringing(s, g)' BY <1>4, <2>3 DEF Bringing
      <3>2. GetNetworkStatus(p)' = GetNetworkStatus(p) BY NetworksKept
      <3>3. Served(s, p, g) => Served(s, p, g)' BY <2>3, <3>2 DEF Served
      <3> QED BY <2>1, <3>1, <3>3
    <2> QED BY <2>2, <2>3
  <1> QED BY <1>3, <1>5

LEMMA LookWork == ASSUME NetInv, UNCHANGED svcVars, Look PROVE WorkInv'
  <1>1. SubInv /\ task # None BY NetParts DEF Look, TaskAt
  <1>2. UNCHANGED <<lister, notes, infoMap, conf, up, subnetGauge>> BY DEF Look, dhcp, cache
  <1>3. CASE task.ev.prov \notin Attached
    <2>1. task' = None /\ queue' = Handled(queue, task.ev, FALSE) BY <1>3 DEF Look
    <2> QED BY <1>1, <1>2, <1>3, <2>1, FinishWork DEF Prov, WorkInv
  <1>4. CASE task.ev.prov \in Attached
    <2>1. /\ queue' = queue /\ task' # None /\ task'.ev = task.ev /\ task'.spec = task.spec
          /\ task'.net = GetNetworkStatus(Prov) /\ task'.failed = task.failed /\ task'.step = "build"
          /\ \A f : Handling(f)' <=> Handling(f)
      BY <1>1, <1>4, LookMoves DEF Prov
    <2>2. task.ev.op = "DELETE" => ~task'.failed BY <1>1, <2>1, AtSubnet
    <2>3. Prov \in Attached BY <1>4 DEF Prov
    <2>4. FitInv' /\ ReadInv' /\ BelongInv' BY <1>1, <1>2, <2>1, <2>2, <2>3, MoveWork
    <2>5. ReadyInv' BY <2>1 DEF ReadyInv, Working, TaskAt
    <2>6. /\ \A t, q : Busy(t, q)' <=> Busy(t, q)
          /\ \A t, q : Coming(t, q)' <=> Coming(t, q)
      BY <1>1, <1>2, <2>1, MoveFacts
    <2>7. \A t, f : Bringing(t, f)' <=> Bringing(t, f) BY <1>1, <2>1 DEF Bringing, Sub
    <2>8. MetInv' /\ NameInv' BY <1>2, <2>6, <2>7, WorkKept
    <2> QED BY <2>4, <2>5, <2>8 DEF WorkInv
  <1> QED BY <1>3, <1>4

LEMMA ConfigureWork ==
  ASSUME NetInv, UNCHANGED svcVars, NEW f \in Families, Configure(f)
  PROVE  WorkInv'
  <1>1. SubInv /\ Working(f, "build") /\ Needed(f) /\ f \in DOMAIN task.net BY NetParts DEF Configure
  <1>2. UNCHANGED <<lister, notes, queue, infoMap, up, subnetGauge>> BY DEF Configure, cache
  <1>3. /\ task # None /\ Sub \in Subnets /\ Prov \in Attached \ Own
        /\ task.ev.op # "DELETE"
        /\ task.net = GetNetworkStatus(Prov) \/ Awaits(Sub, Prov)
    <2>1. task # None /\ task.step # "look" /\ task.ev.op # "DELETE"
      BY <1>1, WorkingType DEF Needed
    <2> QED BY <2>1, AtSubnet
  <1>4. /\ task' # None /\ task'.ev = task.ev /\ task'.spec = task.spec /\ task'.net = task.net
        /\ task'.step = "serve" /\ task'.failed = task.failed
        /\ \A g : Handling(g)' <=> Handling(g)
        /\ \A g, other : Working(g, other)' => g = f /\ other = "serve"
    <2>1. task' = [task EXCEPT !.step = "serve"] BY DEF Configure
    <2> QED BY <1>1, <1>2, <2>1, FamilyStays
  <1>5. Handling(f)
    <2>1. task.todo \in Seq(Families) /\ task.todo # <<>> /\ Head(task.todo) = f
      BY <1>1, <1>3 DEF Working, SubInv, TaskTyped, Task
    <2> QED BY <2>1, TailSet DEF Handling
  <1>6. /\ \A g \in Families : g # f => conf'[g] = conf[g]
        /\ DOMAIN conf'[f] = DOMAIN conf[f] \cup {Sub}
        /\ \A s \in DOMAIN conf[f] : s # Sub => conf'[f][s] = conf[f][s]
        /\ conf'[f][Sub] = Configuration(f)
    BY <1>1, ConfStored
  <1>7. Configuration(f).prov = Prov BY DEF Configuration
  <1>8. FitInv' /\ ReadInv' /\ BelongInv'
    BY <1>2, <1>3, <1>4, <1>5, <1>6, <1>7, MoveWork
  <1>9. ReadyInv'
    <2>1. Sub' = Sub /\ (Needed(f)' <=> Needed(f)) /\ Configuration(f)' = Configuration(f)
      BY <1>4 DEF Sub, Prov, Needed, Configuration
    <2>2. \A s, p : Busy(s, p)' => s = Sub BY <1>4 DEF Busy, Sub
    <2> QED BY <1>1, <1>4, <1>6, <2>1, <2>2 DEF ReadyInv
  <1>10. ASSUME NEW s \in Subnets, NEW p \in Providers, Needs(s, p, f), Bringing(s, f) \/ Served(s, p, f)
         PROVE  (s = Sub /\ task.ev.op # "DELETE" /\ Handling(f)') \/ Served(s, p, f)'
    <2>1. CASE s = Sub BY <1>3, <1>4, <1>5, <2>1
    <2>2. CASE s # Sub
      <3>1. Served(s, p, f) BY <1>10, <2>2 DEF Bringing
      <3>2. GetNetworkStatus(p)' = GetNetworkStatus(p) BY <1>2, NetworksKept
      <3> QED BY <1>2, <1>6, <2>2, <3>1, <3>2 DEF Served
    <2> QED BY <2>1, <2>2
  <1>11. MetInv' /\ NameInv' BY <1>2, <1>3, <1>4, <1>6, <1>10, WithinWork
  <1> QED BY <1>8, <1>9, <1>11 DEF WorkInv

LEMMA WithdrawWork ==
  ASSUME NetInv, UNCHANGED svcVars, NEW f \in Families, Withdraw(f)
  PROVE  WorkInv'
  <1>1. SubInv /\ Working(f, "build") /\ ~Needed(f) BY NetParts DEF Withdraw
  <1>2. UNCHANGED <<lister, notes, queue, infoMap, up, subnetGauge>> BY DEF Withdraw, cache
  <1>3. /\ task # None /\ Prov \in Attached
        /\ task.ev.op = "DELETE" => ~task.failed
        /\ task.ev.op # "DELETE" => task.net = GetNetworkStatus(Prov) \/ Awaits(Sub, Prov)
    <2>1. task # None /\ task.step # "look" BY <1>1, WorkingType
    <2> QED BY <2>1, AtSubnet
  <1>4. /\ \A g \in Families : g # f => conf'[g] = conf[g]
        /\ DOMAIN conf'[f] = DOMAIN conf[f] \ {Sub}
        /\ \A s \in DOMAIN conf'[f] : conf'[f][s] = conf[f][s]
    BY <1>1, ConfDropped
  <1>5. /\ task' # None /\ task'.ev = task.ev /\ task'.spec = task.spec /\ task'.net = task.net
        /\ task'.failed = task.failed
        /\ \A g : g # f => (Handling(g)' <=> Handling(g))
        /\ ReadyInv'
    <2>1. CASE OtherUsers(Sub, Prov, f)
      <3>1. NextFamily(FALSE) BY <2>1 DEF Withdraw
      <3>2. /\ task' # None /\ task'.ev = task.ev /\ task'.spec = task.spec /\ task'.net = task.net
            /\ task'.failed = (task.failed \/ FALSE)
            /\ \A g : g # f => (Handling(g)' <=> Handling(g) \/ FALSE)
            /\ \A g : ~Working(g, "serve")' /\ ~Working(g, "stop")'
        BY <1>1, <1>2, <3>1, FamilyDone
      <3>3. task.failed \in BOOLEAN BY <1>1, <1>3 DEF SubInv, TaskTyped, Task
      <3> QED BY <3>2, <3>3 DEF ReadyInv
    <2>2. CASE ~OtherUsers(Sub, Prov, f)
      <3>1. task' = [task EXCEPT !.step = "stop"] BY <2>2 DEF Withdraw
      <3>2. /\ task' # None /\ task'.ev = task.ev /\ task'.spec = task.spec /\ task'.net = task.net
            /\ task'.step = "stop" /\ task'.failed = task.failed
            /\ \A g : Handling(g)' <=> Handling(g)
            /\ \A g, other : Working(g, other)' => g = f /\ other = "stop"
        BY <1>1, <1>2, <3>1, FamilyStays
      <3>3. ReadyInv'
        <4>1. Needed(f)' <=> Needed(f) BY <3>2 DEF Needed
        <4>2. \A s, p : Busy(s, p)' => s = Sub /\ p = Prov BY <3>2 DEF Busy, Sub, Prov
        <4>3. \A t \in Subnets \ {Sub} : ~(Has(t, Prov) /\ f \in lister[t].fams)
          BY <2>2 DEF OtherUsers, Has
        <4>4. \A t, p : Has(t, p)' <=> Has(t, p) BY <1>2 DEF Has
        <4> QED BY <1>1, <1>2, <1>4, <3>2, <4>1, <4>2, <4>3, <4>4 DEF ReadyInv
      <3> QED BY <3>2, <3>3
    <2> QED BY <2>1, <2>2
  <1>6. FitInv' /\ ReadInv' /\ BelongInv' BY <1>2, <1>3, <1>4, <1>5, MoveWork
  <1>7. ASSUME NEW s \in Subnets, NEW p \in Providers, Needs(s, p, f), Bringing(s, f) \/ Served(s, p, f)
        PROVE  Served(s, p, f)'
    <2>1. s # Sub BY <1>1, <1>3, <1>7, AtNeed DEF Needed
    <2>2. Served(s, p, f) BY <1>7, <2>1 DEF Bringing
    <2>3. GetNetworkStatus(p)' = GetNetworkStatus(p) BY <1>2, NetworksKept
    <2> QED BY <1>2, <1>4, <2>1, <2>2, <2>3 DEF Served
  <1>8. MetInv' /\ NameInv' BY <1>2, <1>3, <1>4, <1>5, <1>7, WithinWork
  <1> QED BY <1>5, <1>6, <1>8 DEF WorkInv

LEMMA ServerWork ==
  ASSUME NetInv, UNCHANGED svcVars, NEW f \in Families,
         Join(f) \/ Start(f) \/ StartFails(f) \/ Unbuildable(f)
  PROVE  WorkInv'
  <1>1. SubInv BY NetParts
  <1>2. UNCHANGED <<lister, notes, queue, infoMap, conf, subnetGauge>>
    BY DEF Join, Start, StartFails, Unbuildable, dhcp, cache
  <1>3. PICK step \in {"build", "serve", "stop"} : Working(f, step)
    BY DEF Join, Start, StartFails, Unbuildable
  <1>4. PICK failed \in BOOLEAN : NextFamily(failed) /\ (~failed => Join(f) \/ Start(f))
    <2>1. CASE StartFails(f) \/ Unbuildable(f) BY <2>1 DEF StartFails, Unbuildable
    <2>2. CASE ~(StartFails(f) \/ Unbuildable(f)) BY <2>2 DEF Join, Start
    <2> QED BY <2>1, <2>2
  <1>5. task # None /\ task.step # "look" BY <1>1, <1>3, WorkingType
  <1>6. /\ Needed(f)
        /\ Working(f, "serve") =>
             f \in DOMAIN task.net /\ Sub \in DOMAIN conf[f] /\ conf[f][Sub] = Configuration(f)
    <2>1. CASE Unbuildable(f) BY <2>1 DEF Unbuildable, Working, TaskAt
    <2>2. CASE Working(f, "serve")
      BY <1>1, <1>5, <2>2, TaskItem DEF NetInv, WorkInv, ReadyInv
    <2> QED BY <2>1, <2>2 DEF Join, Start, StartFails
  <1>7. /\ Sub \in Subnets /\ Prov \in Attached \ Own /\ task.ev.op # "DELETE"
        /\ Has(Sub, Prov) /\ (task.spec = lister[Sub] \/ Coming(Sub, Prov))
        /\ task.net = GetNetworkStatus(Prov) \/ Awaits(Sub, Prov)
    BY <1>5, <1>6, AtSubnet DEF Needed
  <1>8. Working(f, "serve") => Wants(Sub, Prov, f) BY <1>6, <1>7 DEF Needed, Wants, Awaits
  <1>9. /\ task' # None /\ task'.ev = task.ev /\ task'.spec = task.spec /\ task'.net = task.net
        /\ \A g : g # f => (Handling(g)' <=> Handling(g) \/ failed)
        /\ failed => \A g : Handling(g)'
        /\ \A g : ~Working(g, "serve")' /\ ~Working(g, "stop")'
    BY <1>1, <1>2, <1>3, <1>4, FamilyDone
  <1>10. ~failed => Working(f, "serve") BY <1>4 DEF Join, Start
  <1>11. FitInv' /\ ReadInv' /\ BelongInv' BY <1>2, <1>5, <1>7, <1>8, <1>9, <1>10, MoveWork
  <1>12. ReadyInv' BY <1>9 DEF ReadyInv
  <1>13. /\ \A g \in Families : up[g] \subseteq up'[g]
         /\ \A g \in Families : g # f => up'[g] = up[g]
         /\ Join(f) \/ Start(f) => Nic[Prov] \in up'[f]
    <2>1. CASE Start(f) BY <1>1, <2>1 DEF Start, SubInv, DhcpTyped
    <2>2. CASE Join(f) BY <2>2 DEF Join
    <2>3. CASE ~(Join(f) \/ Start(f)) BY <2>3 DEF StartFails, Unbuildable, dhcp
    <2> QED BY <2>1, <2>2, <2>3
  <1>14. ASSUME NEW s \in Subnets, NEW p \in Providers, Needs(s, p, f), Bringing(s, f) \/ Served(s, p, f)
         PROVE  (s = Sub /\ task.ev.op # "DELETE" /\ Handling(f)') \/ Served(s, p, f)'
    <2>1. GetNetworkStatus(p)' = GetNetworkStatus(p) BY <1>2, NetworksKept
    <2>2. CASE Served(s, p, f) BY <1>2, <1>13, <2>1, <2>2 DEF Served
    <2>3. CASE Bringing(s, f) /\ failed BY <1>9, <2>3 DEF Bringing
    <2>4. CASE Bringing(s, f) /\ ~failed
      <3>1. s = Sub BY <2>4 DEF Bringing
      <3>2. p = Prov /\ task.spec = lister[s] /\ task.net = GetNetworkStatus(p)
        BY <1>5, <1>14, <3>1, AtNeed
      <3> QED BY <1>2, <1>4, <1>6, <1>10, <1>13, <2>1, <2>4, <3>1, <3>2 DEF Served, Configuration
    <2> QED BY <1>14, <2>2, <2>3, <2>4
  <1>15. MetInv' /\ NameInv' BY <1>2, <1>5, <1>9, <1>13, <1>14, WithinWork
  <1> QED BY <1>11, <1>12, <1>15 DEF WorkInv

LEMMA StopWork ==
  ASSUME NetInv, OwnInterfaces, IsFiniteSet(Providers), UNCHANGED svcVars,
         NEW f \in Families, Stop(f) \/ StopFails(f)
  PROVE  WorkInv'
  <1>1. SubInv /\ Working(f, "stop") BY NetParts DEF Stop, StopFails
  <1>2. UNCHANGED <<lister, notes, infoMap, conf, subnetGauge>> BY DEF Stop, StopFails, dhcp, cache
  <1>3. /\ task # None /\ task.step # "look" /\ Sub \in Subnets /\ Prov \in Attached \ Own
        /\ Busy(Sub, Prov) /\ Prov \in Providers
        /\ task.ev.op = "DELETE" => ~task.failed
        /\ task.ev.op # "DELETE" => task.net = GetNetworkStatus(Prov) \/ Awaits(Sub, Prov)
    <2>1. task # None /\ task.step # "look" BY <1>1, WorkingType
    <2> QED BY <2>1, AtSubnet
  <1>4. CASE StopFails(f) /\ task.ev.op = "DELETE"
    <2>1. task' = None /\ queue' = Handled(queue, task.ev, TRUE) /\ UNCHANGED up
      BY <1>4 DEF StopFails, dhcp
    <2> QED BY <1>2, <1>3, <2>1, FinishWork DEF WorkInv
  <1>5. CASE Stop(f) \/ (StopFails(f) /\ task.ev.op # "DELETE")
    <2>1. UNCHANGED queue BY <1>5 DEF Stop, StopFails
    <2>2. PICK failed \in BOOLEAN : NextFamily(failed) /\ (failed => task.ev.op # "DELETE")
      <3>1. CASE Stop(f) BY <3>1 DEF Stop
      <3>2. CASE StopFails(f) /\ task.ev.op # "DELETE" BY <3>2 DEF StopFails
      <3> QED BY <1>5, <3>1, <3>2
    <2>3. /\ task' # None /\ task'.ev = task.ev /\ task'.spec = task.spec /\ task'.net = task.net
          /\ task'.failed = (task.failed \/ failed)
          /\ \A g : g # f => (Handling(g)' <=> Handling(g) \/ failed)
          /\ \A g : ~Working(g, "serve")' /\ ~Working(g, "stop")'
      BY <1>1, <2>1, <2>2, FamilyDone
    <2>4. /\ ~Needed(f) /\ Sub \notin DOMAIN conf[f]
          /\ \A t \in Subnets \ {Sub} : Has(t, Prov) /\ f \in lister[t].fams => Coming(t, Prov)
      BY <1>1, <1>3 DEF NetInv, WorkInv, ReadyInv
    <2>5. /\ \A g \in Families : g # f => up'[g] = up[g]
          /\ \A nic \in up[f] : nic # Nic[Prov] \/ interfaceBusy(nic) => nic \in up'[f]
      <3>1. CASE Stop(f) BY <1>1, <3>1 DEF Stop, StopServer, SubInv, DhcpTyped
      <3>2. CASE StopFails(f) BY <3>2 DEF StopFails, dhcp
      <3> QED BY <1>5, <3>1, <3>2
    <2>6. FitInv' /\ ReadInv' /\ BelongInv' BY <1>2, <1>3, <2>1, <2>2, <2>3, <2>4, MoveWork
    <2>7. ReadyInv' BY <2>3 DEF ReadyInv
    <2>8. ASSUME NEW s \in Subnets, NEW p \in Providers, Needs(s, p, f), Bringing(s, f) \/ Served(s, p, f)
          PROVE  Served(s, p, f)'
      <3>1. Has(s, p) /\ f \in lister[s].fams /\ p \in Attached \ Own /\ ~Coming(s, p)
        BY <2>8 DEF Needs, Awaits
      <3>2. s # Sub BY <1>3, <2>4, <2>8, AtNeed DEF Needed
      <3>3. Served(s, p, f) BY <2>8, <3>2 DEF Bringing
      <3>4. p # Prov BY <2>4, <3>1, <3>2
      <3>5. Nic[p] # Nic[Prov] \/ interfaceBusy(Nic[p]) BY <1>1, <1>3, <3>1, <3>4, AloneOnInterface
      <3>6. GetNetworkStatus(p)' = GetNetworkStatus(p) BY <1>2, NetworksKept
      <3> QED BY <1>2, <2>5, <3>3, <3>5, <3>6 DEF Served
    <2>9. MetInv' /\ NameInv' BY <1>2, <1>3, <2>1, <2>3, <2>5, <2>8, WithinWork
    <2> QED BY <2>6, <2>7, <2>9 DEF WorkInv
  <1> QED BY <1>4, <1>5

LEMMA WorkerWork ==
  ASSUME NetInv, OwnInterfaces, IsFiniteSet(Providers), SubnetSteps
  PROVE  WorkInv'
  <1>1. UNCHANGED svcVars BY DEF SubnetSteps
  <1>2. CASE Worker
    BY <1>1, <1>2, InformerWork, TakeWork, LookWork, ConfigureWork, ServerWork, WithdrawWork, StopWork,
       EndWork
       DEF Worker, FamilyStep
  <1> QED BY <1>1, <1>2, InformerWork DEF SubnetSteps
-----------------------------------------------------------------------------
(***************************************************************************)
(* The edits of subnets.                                                   *)
(***************************************************************************)
\* What an edit raises is about the provider the subnet had or the one it has now.
LEMMA RaisedProviders ==
  ASSUME NEW s \in Subnets, NEW n \in Note, n.old # n.new, n.sub = s
  PROVE  \A t, op, p : Item(t, op, p) \in Raised(n) =>
           t = s /\ p \notin Own /\ \E x \in {n.old, n.new} \ {None} : x.prov = p
  <1> SUFFICES ASSUME NEW t, NEW op, NEW p, Item(t, op, p) \in Raised(n)
               PROVE  t = s /\ p \notin Own /\ \E x \in {n.old, n.new} \ {None} : x.prov = p
    OBVIOUS
  <1>1. t = s /\ p \notin Own BY RaisedFits
  <1>2. \/ n.old # None /\ Item(t, op, p) = Item(s, "DELETE", n.old.prov)
        \/ n.new # None /\ \E o : Item(t, op, p) = Item(s, o, n.new.prov)
    BY RaisedSet
  <1>3. \A u, o, q : Item(u, o, q).prov = q BY DEF Item
  <1>4. \/ n.old # None /\ p = n.old.prov
        \/ n.new # None /\ p = n.new.prov
    BY <1>2, <1>3
  <1> QED BY <1>1, <1>4

\* What an edit of a subnet changes.
LEMMA SubnetEditFacts ==
  ASSUME NetInv, EditsWait, NEW s \in Subnets, NEW new \in Specs[s] \cup {None}, SubnetEdit(s, new)
  PROVE  /\ UNCHANGED <<task, conf, up, subnetGauge, infoMap, svcVars>>
         /\ lister' = [lister EXCEPT ![s] = new]
         /\ \A t \in Subnets : lister'[t] = IF t = s THEN new ELSE lister[t]
         /\ \A t \in Subnets, p \in Providers :
              /\ Coming(t, p) => Coming(t, p)'
              /\ Going(t, p) => Going(t, p)'
              /\ t # s => /\ Has(t, p)' <=> Has(t, p)
                          /\ Coming(t, p)' <=> Coming(t, p)
                          /\ Going(t, p)' <=> Going(t, p)
              /\ Coming(t, p)' \/ Going(t, p)' => Coming(t, p) \/ Going(t, p) \/ (t = s /\ p \notin Own)
              /\ Coming(t, p)' => Coming(t, p) \/ Home(t, p)'
              /\ Removing(p) => /\ Coming(t, p)' <=> Coming(t, p)
                                /\ Going(t, p)' <=> Going(t, p)
         /\ \A p \in Providers \ Own :
              /\ Has(s, p)' => Coming(s, p)'
              /\ Has(s, p) /\ ~Has(s, p)' => Going(s, p)'
              /\ Going(s, p)' /\ ~Going(s, p) => ~Has(s, p)'
         /\ \/ \A p : ~Coming(s, p) /\ ~Going(s, p) /\ ~Busy(s, p) /\ ~Doing(Item(s, "DELETE", p))
            \/ /\ lister[s] # None /\ new # None /\ lister[s].prov = new.prov
               /\ \A p : Has(s, p)' <=> Has(s, p)
         /\ ~ToldOfAnother(s, new)
         /\ \A x \in {lister[s], new} \ {None} : ~Removing(x.prov)
  <1> DEFINE n == [sub |-> s, old |-> lister[s], new |-> new]
  <1>1. /\ Edit(s, new) /\ SubInv /\ ~ToldOfAnother(s, new)
        /\ \A x \in {lister[s], new} \ {None} : ~Removing(x.prov)
    BY NetParts DEF SubnetEdit
  <1>2. lister' = [lister EXCEPT ![s] = new] BY <1>1 DEF Edit
  <1>3. UNCHANGED <<task, conf, up, subnetGauge, infoMap, svcVars>>
    BY <1>1 DEF Edit, SubnetEdit, dhcp, cache
  <1>4. /\ n \in Note /\ n.old # n.new
        /\ \A e : Due(e)' <=> Due(e) \/ e \in Raised(n)
        /\ \A t \in Subnets : lister'[t] = IF t = s THEN new ELSE lister[t]
        /\ \A t \in Subnets : \A p : t # s => (Has(t, p)' <=> Has(t, p))
        /\ \A p : Has(s, p)' <=> new # None /\ new.on /\ new.prov = p
        /\ \/ /\ \A op, p : ~Due(Item(s, op, p)) /\ ~Doing(Item(s, op, p))
              /\ \A p : ~Busy(s, p)
           \/ /\ lister[s] # None /\ new # None /\ lister[s].on /\ new.on
              /\ lister[s].prov = new.prov
    BY <1>1, EditFacts
  <1>6. n.sub = s /\ n.old = lister[s] /\ n.new = new OBVIOUS
  <1> HIDE DEF n
  <1>5. \A t, op, p : Item(t, op, p) \in Raised(n) => t = s /\ p \notin Own /\ ~Removing(p)
    BY <1>1, <1>4, <1>6, RaisedProviders
  <1>7. \A t, p : Item(t, "ADD", p) \in Raised(n) \/ Item(t, "UPDATE", p) \in Raised(n) =>
          t = s /\ Home(s, p)'
    BY <1>4, <1>5, <1>6, RaisedFits DEF Home
  <1>8. \A t \in Subnets, p \in Providers :
              /\ Coming(t, p) => Coming(t, p)'
              /\ Going(t, p) => Going(t, p)'
              /\ t # s => /\ Coming(t, p)' <=> Coming(t, p)
                          /\ Going(t, p)' <=> Going(t, p)
              /\ Coming(t, p)' \/ Going(t, p)' => Coming(t, p) \/ Going(t, p) \/ (t = s /\ p \notin Own)
              /\ Coming(t, p)' => Coming(t, p) \/ Home(t, p)'
              /\ Removing(p) => /\ Coming(t, p)' <=> Coming(t, p)
                                /\ Going(t, p)' <=> Going(t, p)
    BY <1>4, <1>5, <1>7 DEF Coming, Going
  <1>9. ASSUME NEW p \in Providers \ Own
        PROVE  /\ Has(s, p)' => Coming(s, p)'
               /\ Has(s, p) /\ ~Has(s, p)' => Going(s, p)'
               /\ Going(s, p)' /\ ~Going(s, p) => ~Has(s, p)'
    <2>1. Has(s, p)' => Coming(s, p)' BY <1>4, <1>6, RaisedFits DEF Coming
    <2>2. Has(s, p) /\ ~Has(s, p)' => Going(s, p)' BY <1>4, <1>6, RaisedFits DEF Going, Has
    <2>3. Going(s, p)' /\ ~Going(s, p) => ~Has(s, p)' BY <1>4, <1>6, RaisedFits DEF Going
    <2> QED BY <2>1, <2>2, <2>3
  <1>10. \/ \A p : ~Coming(s, p) /\ ~Going(s, p) /\ ~Busy(s, p) /\ ~Doing(Item(s, "DELETE", p))
         \/ /\ lister[s] # None /\ new # None /\ lister[s].prov = new.prov
            /\ \A p : Has(s, p)' <=> Has(s, p)
    BY <1>4 DEF Coming, Going, Has
  <1> QED BY <1>1, <1>2, <1>3, <1>4, <1>8, <1>9, <1>10

LEMMA EditWork ==
  ASSUME NetInv, EditsWait, NEW s \in Subnets, NEW new \in Specs[s] \cup {None},
         SubnetEdit(s, new)
  PROVE  WorkInv'
  <1>1. /\ UNCHANGED <<task, conf, up, subnetGauge, infoMap, svcVars>>
        /\ \A t \in Subnets : lister'[t] = IF t = s THEN new ELSE lister[t]
        /\ \A t \in Subnets, p \in Providers :
             /\ Coming(t, p) => Coming(t, p)'
             /\ Going(t, p) => Going(t, p)'
             /\ t # s => /\ Has(t, p)' <=> Has(t, p)
                         /\ Coming(t, p)' <=> Coming(t, p)
                         /\ Going(t, p)' <=> Going(t, p)
             /\ Coming(t, p)' \/ Going(t, p)' => Coming(t, p) \/ Going(t, p) \/ (t = s /\ p \notin Own)
             /\ Coming(t, p)' => Coming(t, p) \/ Home(t, p)'
             /\ Removing(p) => /\ Coming(t, p)' <=> Coming(t, p)
                               /\ Going(t, p)' <=> Going(t, p)
        /\ \A p \in Providers \ Own :
             /\ Has(s, p)' => Coming(s, p)'
             /\ Has(s, p) /\ ~Has(s, p)' => Going(s, p)'
             /\ Going(s, p)' /\ ~Going(s, p) => ~Has(s, p)'
        /\ \/ \A p : ~Coming(s, p) /\ ~Going(s, p) /\ ~Busy(s, p) /\ ~Doing(Item(s, "DELETE", p))
           \/ /\ lister[s] # None /\ new # None /\ lister[s].prov = new.prov
              /\ \A p : Has(s, p)' <=> Has(s, p)
    BY SubnetEditFacts
  <1>2. /\ \A t, p : Busy(t, p)' <=> Busy(t, p)
        /\ \A e : Doing(e)' <=> Doing(e)
        /\ \A t, f : Bringing(t, f)' <=> Bringing(t, f)
        /\ \A t, p, f : Ending(t, p, f)' <=> Ending(t, p, f)
        /\ \A f, step : Working(f, step)' <=> Working(f, step)
        /\ \A f : (Needed(f)' <=> Needed(f)) /\ Configuration(f)' = Configuration(f)
    BY <1>1 DEF Busy, Doing, Bringing, Ending, Handling, Working, TaskAt, Needed, Configuration, Sub, Prov
  <1>3. /\ \A p : (p \in Attached)' <=> p \in Attached
        /\ \A p : GetNetworkStatus(p)' = GetNetworkStatus(p)
        /\ \A t, p : Telling(t, p)' <=> Telling(t, p)
        /\ \A p : Leaving(p)' <=> Leaving(p)
    BY <1>1, NetworksKept, SvcStill
  <1>4. FitInv'
    <2> SUFFICES ASSUME NEW t \in Subnets, NEW p \in Providers
                 PROVE  /\ Coming(t, p)' \/ Going(t, p)' \/ Busy(t, p) => p \notin Own
                        /\ Coming(t, p)' => Fits(t, p)'
                        /\ Going(t, p)' \/ Doing(Item(t, "DELETE", p)) => ~Has(t, p)'
      BY <1>2 DEF FitInv
    <2>1. /\ Coming(t, p) \/ Going(t, p) \/ Busy(t, p) => p \notin Own
          /\ Coming(t, p) => Fits(t, p)
          /\ Going(t, p) \/ Doing(Item(t, "DELETE", p)) => ~Has(t, p)
      BY DEF NetInv, WorkInv, FitInv
    <2>2. Coming(t, p)' \/ Going(t, p)' \/ Busy(t, p) => p \notin Own BY <1>1, <2>1
    <2>3. Coming(t, p)' => Fits(t, p)'
      <3>1. Home(t, p)' => Fits(t, p)' BY DEF Home, Fits
      <3>2. Coming(t, p) => Fits(t, p)' BY <1>1, <2>1 DEF Fits
      <3> QED BY <1>1, <3>1, <3>2
    <2>4. CASE t # s BY <1>1, <2>1, <2>2, <2>4, <2>3
    <2>5. CASE t = s
      <3>1. Going(s, p)' /\ ~Going(s, p) => ~Has(s, p)' BY <1>1, <2>2, <2>5
      <3>2. Going(s, p) \/ Doing(Item(s, "DELETE", p)) => ~Has(s, p)' BY <1>1, <2>1, <2>5
      <3> QED BY <2>2, <2>5, <2>3, <3>1, <3>2
    <2> QED BY <2>4, <2>5
  <1>5. ReadInv'
    <2> SUFFICES ASSUME NEW t \in Subnets, NEW p \in Providers, Busy(t, p)
                 PROVE  /\ task.ev.op # "DELETE" => Has(t, p)' /\ (task.spec = lister'[t] \/ Coming(t, p)')
                        /\ task.ev.op = "DELETE" => ~task.failed
                        /\ task.step # "look" =>
                             /\ p \in Attached
                             /\ task.ev.op # "DELETE" => task.net = GetNetworkStatus(p) \/ Awaits(t, p)'
      BY <1>1, <1>2, <1>3 DEF ReadInv
    <2>1. /\ task.ev.op # "DELETE" => Has(t, p) /\ (task.spec = lister[t] \/ Coming(t, p))
          /\ task.ev.op = "DELETE" => ~task.failed
          /\ task.step # "look" =>
               p \in Attached /\ (task.ev.op # "DELETE" => task.net = GetNetworkStatus(p) \/ Awaits(t, p))
      BY DEF NetInv, WorkInv, ReadInv
    <2>2. Awaits(t, p) => Awaits(t, p)' BY <1>1, <1>3 DEF Awaits
    <2>3. p \notin Own BY DEF NetInv, WorkInv, FitInv
    <2>4. task.ev.op # "DELETE" => Has(t, p)' /\ (task.spec = lister'[t] \/ Coming(t, p)')
      <3>1. CASE t = s BY <1>1, <2>1, <2>3, <3>1
      <3>2. CASE t # s BY <1>1, <2>1, <3>2
      <3> QED BY <3>1, <3>2
    <2> QED BY <2>1, <2>2, <2>4
  <1>6. ReadyInv'
    <2> SUFFICES ASSUME NEW t \in Subnets, NEW p \in Providers, NEW f \in Families, Busy(t, p)
                 PROVE  /\ Working(f, "serve") =>
                             /\ Needed(f) /\ f \in DOMAIN task.net
                             /\ t \in DOMAIN conf[f] /\ conf[f][t] = Configuration(f)
                        /\ Working(f, "stop") =>
                             /\ ~Needed(f) /\ t \notin DOMAIN conf[f]
                             /\ \A u \in Subnets \ {t} : Has(u, p)' /\ f \in lister'[u].fams => Coming(u, p)'
      BY <1>1, <1>2 DEF ReadyInv
    <2>1. /\ Working(f, "serve") =>
               /\ Needed(f) /\ f \in DOMAIN task.net
               /\ t \in DOMAIN conf[f] /\ conf[f][t] = Configuration(f)
          /\ Working(f, "stop") =>
               /\ ~Needed(f) /\ t \notin DOMAIN conf[f]
               /\ \A u \in Subnets \ {t} : Has(u, p) /\ f \in lister[u].fams => Coming(u, p)
      BY DEF NetInv, WorkInv, ReadyInv
    <2>2. p \notin Own BY DEF NetInv, WorkInv, FitInv
    <2> QED BY <1>1, <2>1, <2>2
  <1>7. BelongInv'
    <2> SUFFICES ASSUME NEW f \in Families, NEW t \in Subnets, NEW p \in Providers,
                        t \in DOMAIN conf[f], conf[f][t].prov = p
                 PROVE  /\ p \in Attached \ Own
                        /\ \/ Going(t, p)' \/ Ending(t, p, f) \/ Wants(t, p, f)'
                           \/ Has(t, p)' /\ Bringing(t, f)
      BY <1>1, <1>2, <1>3 DEF BelongInv
    <2>1. /\ p \in Attached \ Own
          /\ Going(t, p) \/ Ending(t, p, f) \/ Wants(t, p, f) \/ (Has(t, p) /\ Bringing(t, f))
      BY DEF NetInv, WorkInv, BelongInv
    <2>2. CASE t = s
      <3>1. Has(s, p)' => Wants(s, p, f)' BY <1>1, <2>1 DEF Wants
      <3> QED BY <1>1, <2>1, <2>2, <3>1 DEF Wants
    <2>3. CASE t # s
      <3>1. Wants(t, p, f) => Wants(t, p, f)' BY <1>1, <1>3, <2>3 DEF Wants
      <3> QED BY <1>1, <2>1, <2>3, <3>1
    <2> QED BY <2>2, <2>3
  <1>8. ASSUME NEW t \in Subnets, NEW p \in Providers, NEW f \in Families, Needs(t, p, f)'
        PROVE  t # s /\ Needs(t, p, f)
    <2>1. /\ Has(t, p)' /\ p \in Attached \ Own /\ ~Leaving(p) /\ ~Telling(t, p) /\ ~Coming(t, p)'
          /\ f \in lister'[t].fams \cap DOMAIN GetNetworkStatus(p)
      BY <1>3, <1>8 DEF Needs, Awaits
    <2>2. t # s BY <1>1, <2>1
    <2> QED BY <1>1, <2>1, <2>2 DEF Needs, Awaits
  <1>9. MetInv'
    <2> SUFFICES ASSUME NEW t \in Subnets, NEW p \in Providers, NEW f \in Families, Needs(t, p, f)'
                 PROVE  Bringing(t, f) \/ Served(t, p, f)'
      BY <1>2 DEF MetInv
    <2>1. t # s /\ (Bringing(t, f) \/ Served(t, p, f)) BY <1>8 DEF NetInv, WorkInv, MetInv
    <2> QED BY <1>1, <1>3, <2>1 DEF Served
  <1>10. NameInv'
    BY <1>1, <1>2, <1>8 DEF NetInv, WorkInv, NameInv
  <1> QED BY <1>4, <1>5, <1>6, <1>7, <1>9, <1>10 DEF WorkInv
-----------------------------------------------------------------------------
(***************************************************************************)
(* The Services and their worker beside the subnet worker.                 *)
(***************************************************************************)
\* A step that changes nothing of the subnet controller.
LEMMA BesideQuiet ==
  ASSUME NetInv, UNCHANGED subnetVars,
         \A s \in Subnets, p \in Providers : Has(s, p) /\ Telling(s, p) => Telling(s, p)',
         \A p \in DOMAIN infoMap : Removing(p) => Removing(p)'
  PROVE  WorkInv'
  <1>1. SubInv' BY NetParts, SvcOnly
  <1>2. UNCHANGED <<lister, notes, queue, task, infoMap, conf, up, subnetGauge>>
    BY DEF subnetVars, dhcp, cache
  <1>3. \A s, p : (Coming(s, p)' <=> Coming(s, p)) /\ (Going(s, p)' <=> Going(s, p))
    BY <1>2 DEF Coming, Going, Due
  <1> QED BY <1>1, <1>2, <1>3, BesideSame DEF Awaits

\* While the service worker removes a network it tells nobody of it.
LEMMA RemovalFacts ==
  ASSUME NetInv, Foreign, svcTask # None, svcTask.ev.op = "DELETE"
  PROVE  /\ svcTask.prov \in Providers \ Own /\ svcTask.prov \in DOMAIN infoMap
         /\ svcTask.prov = Qualified[svcTask.ev.w]
         /\ svcTask.ev \in Pending(svcQueue) /\ svcTask.ev.w \in Written /\ Leaving(svcTask.prov)
         /\ \A s, p : ~Telling(s, p)
  <1>1. svcTask \in RemoveTask /\ svcTask.ev \in svcQueue.running
    BY NetParts DEF SvcInv, SvcTaskTyped, SvcQueueTyped
  <1>2. svcTask.prov \in Providers /\ svcTask.ev.w \in Written BY <1>1 DEF RemoveTask, SvcEvent
  <1>3. svcTask.prov = Qualified[svcTask.ev.w] /\ svcTask.prov \in DOMAIN infoMap
    BY DEF NetInv, WithdrawInv
  <1>4. svcTask.ev \in Pending(svcQueue) BY <1>1 DEF Pending
  <1>5. Leaving(svcTask.prov) BY <1>3, <1>4 DEF Leaving, Removing
  <1> QED BY <1>2, <1>3, <1>4, <1>5 DEF Foreign, Telling

\* A network is still being removed whose deletions are all pending.
LEMMA StillRemoving ==
  ASSUME UNCHANGED svcNotes, NEW p, Removing(p),
         \A e \in Pending(svcQueue) : e.op = "DELETE" /\ Qualified[e.w] = p => e \in Pending(svcQueue')
  PROVE  Removing(p)'
  BY SvcSets, SvcSetsNext

LEMMA ServicesWork ==
  ASSUME NetInv, KeepsAnnotation,
         \/ \E v \in Services : \E new \in SvcSpecs[v] : ServiceEdit(v, new)
         \/ SvcDeliver \/ SvcSkip
         \/ \E e \in svcQueue.later : SvcRetryTimer(e)
  PROVE  WorkInv'
  <1>1. FollowInv /\ SvcInv BY NetParts
  <1>2. CASE \E v \in Services : \E new \in SvcSpecs[v] : ServiceEdit(v, new)
    <2>1. PICK v \in Services : \E new \in SvcSpecs[v] : ServiceEdit(v, new) BY <1>2
    <2>2. PICK new \in SvcSpecs[v] : ServiceEdit(v, new) BY <2>1
    <2>3. PICK n : n = [svc |-> v, old |-> svcLister[v], new |-> new] OBVIOUS
    <2>4. /\ UNCHANGED <<subnetVars, svcTask>>
          /\ \A p : Removing(p)' <=> Removing(p) \/ (p = Provider(svcLister[v]) /\ p # Provider(new))
      BY <1>1, <2>2, <2>3, ServiceEditFacts
    <2> QED BY <2>4, BesideQuiet DEF Telling
  <1>3. CASE SvcDeliver
    <2>1. PICK n : n = Head(svcNotes) OBVIOUS
    <2>2. UNCHANGED svcTask /\ \A p : p # None => (Removing(p)' <=> Removing(p))
      BY <1>1, <1>3, <2>1, DeliverFacts
    <2>3. \A p \in DOMAIN infoMap : p # None BY <1>1 DEF FollowInv, BackedInv
    <2> QED BY <1>3, <2>2, <2>3, BesideQuiet DEF Telling, SvcDeliver
  <1>4. CASE SvcSkip
    <2> DEFINE e == NextSvcEvent
               again == e.op # "DELETE" /\ Eligible(svcLister[e.svc]) /\ Contested(svcLister[e.svc])
    <2>1. /\ again \in BOOLEAN /\ svcQueue' = Handled(Get(svcQueue), e, again)
          /\ UNCHANGED <<subnetVars, svcNotes, svcTask>>
          /\ e.op = "DELETE" => Qualified[e.w] \notin DOMAIN infoMap
      BY <1>4 DEF SvcSkip
    <2> HIDE DEF again
    <2>2. Pending(svcQueue) \ {e} \subseteq Pending(svcQueue')
      BY <1>1, <1>4, <2>1, FirstPending DEF SvcSkip
    <2> HIDE DEF e
    <2>3. \A p \in DOMAIN infoMap : Removing(p) => Removing(p)'
      BY <2>1, <2>2, StillRemoving
    <2> QED BY <2>1, <2>3, BesideQuiet DEF Telling
  <1>5. CASE \E e \in svcQueue.later : SvcRetryTimer(e)
    <2>1. PICK e \in svcQueue.later : SvcRetryTimer(e) BY <1>5
    <2>2. Pending(svcQueue') = Pending(svcQueue)
      BY <1>1, <2>1, ExpirePending DEF SvcRetryTimer, SvcInv, SvcQueueTyped
    <2>3. UNCHANGED <<subnetVars, svcNotes, svcTask>> BY <2>1 DEF SvcRetryTimer
    <2> QED BY <2>2, <2>3, StillRemoving, BesideQuiet DEF Telling
  <1> QED BY <1>2, <1>3, <1>4, <1>5

\* The service worker reads which subnets to tell of a network, tells them and is done.
LEMMA TellWork ==
  ASSUME NetInv, Foreign,
         SvcList \/ SvcNotified \/ \E s \in Subnets : SvcPick(s)
  PROVE  WorkInv'
  <1>1. SvcInv /\ UNCHANGED <<subnetVars, svcNotes>>
    BY NetParts DEF SvcList, SvcNotified, SvcPick
  <1>2. CASE SvcList
    <2>1. svcTask # None /\ svcTask \in StoreTask BY <1>1, <1>2, SvcAtType DEF SvcList, SvcAt
    <2>2. svcTask' # None
      BY <1>1, <1>2, <2>1, SvcListStep, SvcNoneAssumption DEF SvcList, StoreTask, GetSubnetsByDHCPProvider
    <2>3. /\ svcTask'.ev = svcTask.ev /\ svcTask'.prov = svcTask.prov
          /\ svcTask'.todo = GetSubnetsByDHCPProvider(svcTask.prov)
      BY <1>2, <2>1 DEF SvcList, StoreTask
    <2>4. \A s \in Subnets, p \in Providers : Has(s, p) /\ Telling(s, p) => Telling(s, p)'
      BY <2>2, <2>3 DEF Telling, Has, GetSubnetsByDHCPProvider
    <2> QED BY <1>1, <1>2, <2>4, StillRemoving, BesideQuiet DEF SvcList
  <1>3. CASE SvcNotified
    <2>1. svcTask # None /\ svcTask \in StoreTask BY <1>1, <1>3, SvcAtType DEF SvcNotified, SvcAt
    <2>2. \A s, p : ~Telling(s, p) BY <1>3 DEF SvcNotified, SvcAt, Telling
    <2>3. Pending(svcQueue) \ {svcTask.ev} \subseteq Pending(svcQueue')
      BY <1>1, <1>3, <2>1, TaskPending DEF SvcNotified
    <2>4. svcTask.ev.op # "DELETE"
      BY <1>1, <2>1 DEF SvcInv, SvcTaskTyped, StoreTask, RemoveTask
    <2>5. \A p \in DOMAIN infoMap : Removing(p) => Removing(p)' BY <1>1, <2>3, <2>4, StillRemoving
    <2> QED BY <1>1, <2>2, <2>5, BesideQuiet
  <1>4. CASE \E s \in Subnets : SvcPick(s)
    <2>1. svcTask # None /\ svcTask \in RemoveTask
      BY <1>1, <1>4, SvcAtType DEF SvcPick, SvcAt
    <2>2. svcTask.ev.op = "DELETE" BY <1>1, <2>1 DEF SvcInv, SvcTaskTyped
    <2>3. \A s, p : ~Telling(s, p) BY <2>1, <2>2, RemovalFacts
    <2> QED BY <1>1, <1>4, <2>3, StillRemoving, BesideQuiet DEF SvcPick
  <1> QED BY <1>2, <1>3, <1>4

\* A subnet that is told comes up for its turn.
LEMMA NotifyWork ==
  ASSUME NetInv, NEW s \in Subnets, SvcNotify(s)
  PROVE  WorkInv'
  <1> DEFINE e == Item(s, "UPDATE", svcTask.prov)
  <1>1. SvcInv /\ SubInv /\ SubInv' BY NetParts, SvcNotifyStep DEF SvcInv
  <1>2. svcTask # None /\ svcTask \in StoreTask /\ svcTask.step = "notify" /\ s \in svcTask.todo
    BY <1>1, SvcAtType DEF SvcNotify, SvcAt
  <1>3. svcTask.ev.op # "DELETE" BY <1>1, <1>2 DEF SvcInv, SvcTaskTyped, StoreTask, RemoveTask
  <1>4. /\ queue' = Add(queue, e)
        /\ UNCHANGED <<notes, lister, task, infoMap, conf, up, subnetGauge, svcNotes, svcQueue>>
    BY DEF SvcNotify, Item, dhcp, cache
  <1>5. e \in Event BY <1>2 DEF StoreTask, Event, Item
  <1>6. /\ svcTask' # None /\ svcTask'.ev = svcTask.ev /\ svcTask'.prov = svcTask.prov
        /\ svcTask'.step = "notify" /\ svcTask'.todo = svcTask.todo \ {s}
    <2>1. /\ svcTask'.ev = svcTask.ev /\ svcTask'.prov = svcTask.prov
          /\ svcTask'.step = "notify" /\ svcTask'.todo = svcTask.todo \ {s}
          /\ svcTask' \in StoreTask
      BY <1>2 DEF SvcNotify, StoreTask
    <2> QED BY <2>1, SvcNoneAssumption
  <1>7. e.sub = s /\ e.op = "UPDATE" /\ e.prov = svcTask.prov BY DEF Item
  <1>8. \A t, op, p : Item(t, op, p) = e <=> t = s /\ op = "UPDATE" /\ p = svcTask.prov
    BY DEF Item
  <1> HIDE DEF e
  <1>9. queue'.dirty = queue.dirty \cup {e} /\ queue'.later = queue.later
    BY <1>1, <1>4, <1>5, AddSets DEF SubInv, QueueTyped, QueueOK
  <1>10. \A d : Due(d)' <=> Due(d) \/ d = e BY <1>4, <1>9 DEF Due, Waiting
  <1>11. \A t, p : /\ Going(t, p)' <=> Going(t, p)
                   /\ Coming(t, p)' <=> Coming(t, p) \/ (t = s /\ p = svcTask.prov)
    BY <1>8, <1>10 DEF Going, Coming
  <1>12. svcTask.prov \notin Own /\ Fits(s, svcTask.prov)
    BY <1>2, <1>3 DEF NetInv, TellInv
  <1>13. \A t \in Subnets, p \in Providers : Telling(t, p) => Awaits(t, p)'
    BY <1>2, <1>6, <1>11 DEF Telling, Awaits
  <1>14. \A p \in DOMAIN infoMap : Removing(p) => Removing(p)' BY <1>4, StillRemoving
  <1> QED BY <1>1, <1>4, <1>11, <1>12, <1>13, <1>14, BesideSame DEF Awaits

\* Starting to remove a network, and giving up on it, changes only the lock.
LEMMA AsideWork ==
  ASSUME NetInv, Foreign, SvcDelete \/ \E f \in Families : SvcStopFails(f)
  PROVE  WorkInv'
  <1>1. SvcInv /\ SubInv' BY NetParts, SvcDeleteStep, SvcRemoveStep DEF SvcInv
  <1>2. UNCHANGED <<lister, notes, queue, task, infoMap, conf, up, subnetGauge, svcNotes>>
    BY DEF SvcDelete, SvcStopFails, dhcp
  <1>3. (\A s, p : ~Telling(s, p)) /\ Pending(svcQueue) \subseteq Pending(svcQueue')
    <2>1. CASE SvcDelete
      <3>1. svcTask = None /\ Pending(svcQueue') = Pending(svcQueue)
        BY <1>1, <2>1, FirstPending DEF SvcDelete, SvcIdle
      <3> QED BY <3>1 DEF Telling
    <2>2. CASE \E f \in Families : SvcStopFails(f)
      <3>1. svcTask # None /\ svcTask \in RemoveTask /\ SvcFinish(TRUE)
        BY <1>1, <2>2, SvcAtType DEF SvcStopFails, SvcWorking, SvcAt
      <3>2. svcTask.ev.op = "DELETE" BY <1>1, <3>1 DEF SvcInv, SvcTaskTyped
      <3>3. Pending(svcQueue) \subseteq Pending(svcQueue') BY <1>1, <3>1, TaskPending
      <3> QED BY <3>1, <3>2, <3>3, RemovalFacts
    <2> QED BY <2>1, <2>2
  <1>4. \A s, p : (Coming(s, p)' <=> Coming(s, p)) /\ (Going(s, p)' <=> Going(s, p))
    BY <1>2 DEF Coming, Going, Due
  <1>5. \A p \in DOMAIN infoMap : Removing(p) => Removing(p)' BY <1>2, <1>3, StillRemoving
  <1> QED BY <1>1, <1>2, <1>3, <1>4, <1>5, BesideSame

\* Of a network that is stored, new or not, the subnets are about to be told.
LEMMA StoreWork == ASSUME NetInv, SvcStore PROVE WorkInv'
  <1> PICK p : p = Provider(svcLister[NextSvcEvent.svc]) OBVIOUS
  <1> DEFINE ips == svcLister[NextSvcEvent.svc].ips
             t == StoringTask(NextSvcEvent, p)
  <1>1. SvcInv /\ SvcInv' /\ SubInv' BY NetParts, SvcStoreStep DEF SvcInv
  <1>2. SvcIdle /\ svcTask = None /\ NextSvcEvent.op # "DELETE" BY DEF SvcStore, SvcIdle
  <1>3. infoMap' = Put(infoMap, p, ips) /\ svcTask' = t /\ svcQueue' = Get(svcQueue)
    BY DEF SvcStore, SetNetworkStatus
  <1>4. t.ev.op # "DELETE" /\ t.prov = p /\ t.step = "list" BY <1>2 DEF StoringTask
  <1>5. UNCHANGED <<lister, notes, queue, task, conf, up, subnetGauge, svcNotes>>
    BY DEF SvcStore, dhcp
  <1> HIDE DEF t, ips
  <1>6. svcTask' # None
    <2>1. svcTask' = None => svcQueue'.running = {} BY <1>1 DEF SvcInv, SvcQueueTyped
    <2>2. svcQueue'.running = {NextSvcEvent} BY <1>1, <1>2, <1>3, SvcIdleType
    <2> QED BY <2>1, <2>2
  <1>7. \A s : Telling(s, p)' BY <1>3, <1>4, <1>6 DEF Telling
  <1>8. \A s, q : /\ ~Telling(s, q)
                  /\ Coming(s, q)' <=> Coming(s, q)
                  /\ Going(s, q)' <=> Going(s, q)
    BY <1>2, <1>5 DEF Telling, Coming, Going, Due
  <1>9. /\ DOMAIN infoMap' = DOMAIN infoMap \cup {p}
        /\ \A q \in DOMAIN infoMap : q # p => infoMap'[q] = infoMap[q]
    BY <1>3 DEF Put
  <1>10. \A q \in Providers : (q \in Attached)' =>
           \/ q \in Attached /\ GetNetworkStatus(q)' = GetNetworkStatus(q)
           \/ \A s \in Subnets : Telling(s, q)'
    BY <1>7, <1>9 DEF Attached, GetNetworkStatus
  <1>11. Pending(svcQueue') = Pending(svcQueue) BY <1>1, <1>2, <1>3, FirstPending
  <1>12. \A q : Removing(q) => Removing(q)' BY <1>5, <1>11, StillRemoving
  <1>13. \A q \in Providers : Leaving(q) => Leaving(q)' BY <1>9, <1>12 DEF Leaving
  <1>14. \A q \in Providers : q \in Attached => (q \in Attached)' BY <1>9 DEF Attached
  <1> QED BY <1>1, <1>5, <1>8, <1>10, <1>13, <1>14, BesideWork

\* The service worker takes down subnets of the network that it removes, and no other.
LEMMA TakeDownWork ==
  ASSUME NetInv, Foreign, SubInv', svcTask # None, svcTask.ev.op = "DELETE",
         UNCHANGED <<lister, notes, queue, task, infoMap, svcNotes, svcQueue>>,
         \A f \in Families : \A s \in DOMAIN conf'[f] : s \in DOMAIN conf[f] /\ conf'[f][s] = conf[f][s],
         \A s \in Subnets : ~Home(s, svcTask.prov) =>
           /\ \A f \in Families : s \in DOMAIN conf[f] => s \in DOMAIN conf'[f]
           /\ s \in DOMAIN subnetGauge => s \in DOMAIN subnetGauge' /\ subnetGauge'[s] = subnetGauge[s],
         \A f \in Families : \A p \in Attached \ Own :
           ~Leaving(p) /\ Nic[p] \in up[f] => Nic[p] \in up'[f]
  PROVE  WorkInv'
  <1>1. \A s, p : /\ Coming(s, p)' <=> Coming(s, p)
                  /\ Going(s, p)' <=> Going(s, p)
    BY DEF Coming, Going, Due
  <1>2. /\ \A p : (p \in Attached)' <=> p \in Attached
        /\ \A p : GetNetworkStatus(p)' = GetNetworkStatus(p)
    BY NetworksKept
  <1>3. \A p : Leaving(p) => Leaving(p)' BY StillRemoving DEF Leaving
  <1>4. svcTask.prov \in Providers /\ Leaving(svcTask.prov) /\ \A s, p : ~Telling(s, p)
    BY RemovalFacts
  <1>5. \A s \in Subnets : (\A p \in Providers : ~(Home(s, p) /\ Leaving(p))) =>
           /\ \A f \in Families : s \in DOMAIN conf[f] => s \in DOMAIN conf'[f]
           /\ s \in DOMAIN subnetGauge => s \in DOMAIN subnetGauge' /\ subnetGauge'[s] = subnetGauge[s]
    BY <1>4
  <1> QED BY <1>1, <1>2, <1>3, <1>4, <1>5, BesideWork

LEMMA SvcWithdrawWork ==
  ASSUME NetInv, Foreign, NEW f \in Families, SvcWithdraw(f)
  PROVE  WorkInv'
  <1>1. SvcInv /\ SubInv /\ SubInv' BY NetParts, SvcWithdrawStep DEF SvcInv
  <1>2. svcTask # None /\ svcTask \in RemoveTask /\ svcTask.step = "withdraw"
    BY <1>1, SvcAtType DEF SvcWithdraw, SvcWorking, SvcAt
  <1>3. svcTask.ev.op = "DELETE" BY <1>1, <1>2 DEF SvcInv, SvcTaskTyped
  <1>4. Home(svcTask.sub, svcTask.prov) BY <1>2, <1>3 DEF NetInv, WithdrawInv
  <1>5. UNCHANGED <<lister, notes, queue, task, infoMap, svcNotes, svcQueue, up, subnetGauge>>
    BY DEF SvcWithdraw, cache
  <1>6. conf' = [conf EXCEPT ![f] = Drop(conf[f], svcTask.sub)] /\ f \in DOMAIN conf
    BY <1>1 DEF SvcWithdraw, SubInv, DhcpTyped
  <1>7. \A g \in Families : /\ \A s \in DOMAIN conf'[g] : s \in DOMAIN conf[g] /\ conf'[g][s] = conf[g][s]
                            /\ \A s \in DOMAIN conf[g] : s # svcTask.sub => s \in DOMAIN conf'[g]
    BY <1>1, <1>6 DEF Drop, Restrict, SubInv, DhcpTyped
  <1> QED BY <1>1, <1>2, <1>3, <1>4, <1>5, <1>7, TakeDownWork

LEMMA SvcStopWork ==
  ASSUME NetInv, Foreign, OwnInterfaces, IsFiniteSet(Providers),
         NEW f \in Families, SvcStop(f)
  PROVE  WorkInv'
  <1>1. SvcInv /\ SubInv /\ SubInv' BY NetParts, SvcStopStep DEF SvcInv
  <1>2. svcTask # None /\ svcTask \in RemoveTask
    BY <1>1, SvcAtType DEF SvcStop, SvcWorking, SvcAt
  <1>3. svcTask.ev.op = "DELETE" BY <1>1, <1>2 DEF SvcInv, SvcTaskTyped
  <1>4. UNCHANGED <<lister, notes, queue, task, infoMap, svcNotes, svcQueue, conf, subnetGauge>>
    BY DEF SvcStop, cache
  <1>5. svcTask.prov \in Attached \ Own /\ Leaving(svcTask.prov)
    BY <1>2, <1>3, RemovalFacts DEF Attached
  <1>6. /\ up \in [Families -> SUBSET Range(Nic)]
        /\ up' = IF interfaceBusy(Nic[svcTask.prov]) THEN up
                 ELSE [up EXCEPT ![f] = up[f] \ {Nic[svcTask.prov]}]
    BY <1>1 DEF SvcStop, StopServer, SubInv, DhcpTyped
  <1>7. ASSUME NEW g \in Families, NEW q \in Attached \ Own, ~Leaving(q), Nic[q] \in up[g],
               Nic[q] \notin up'[g]
        PROVE  FALSE
    <2>1. ~interfaceBusy(Nic[svcTask.prov]) /\ Nic[q] = Nic[svcTask.prov] BY <1>6, <1>7
    <2>2. q = svcTask.prov BY <1>1, <1>5, <2>1, AloneOnInterface
    <2> QED BY <1>5, <1>7, <2>2
  <1> QED BY <1>1, <1>2, <1>3, <1>4, <1>7, TakeDownWork

LEMMA SvcReportWork == ASSUME NetInv, Foreign, SvcReport PROVE WorkInv'
  <1>1. SvcInv /\ SubInv /\ SubInv' BY NetParts, SvcReportStep DEF SvcInv
  <1>2. svcTask # None /\ svcTask \in RemoveTask /\ svcTask.step = "withdraw"
    BY <1>1, SvcAtType DEF SvcReport, SvcAt
  <1>3. svcTask.ev.op = "DELETE" BY <1>1, <1>2 DEF SvcInv, SvcTaskTyped
  <1>4. Home(svcTask.sub, svcTask.prov) BY <1>2, <1>3 DEF NetInv, WithdrawInv
  <1>5. UNCHANGED <<lister, notes, queue, task, infoMap, svcNotes, svcQueue, conf, up>>
    BY DEF SvcReport, cache
  <1>6. subnetGauge' = Drop(subnetGauge, svcTask.sub) BY DEF SvcReport, Report
  <1>7. \A s \in DOMAIN subnetGauge : s # svcTask.sub =>
          s \in DOMAIN subnetGauge' /\ subnetGauge'[s] = subnetGauge[s]
    BY <1>6 DEF Drop, Restrict
  <1> QED BY <1>1, <1>2, <1>3, <1>4, <1>5, <1>7, TakeDownWork

\* A network goes that nothing is configured from any more.
LEMMA SvcRemoveWork == ASSUME NetInv, Foreign, SvcRemove PROVE WorkInv'
  <1> PICK p : p = svcTask.prov OBVIOUS
  <1>1. SvcInv /\ SubInv /\ SubInv' BY NetParts, SvcRemoveStep DEF SvcInv
  <1>2. svcTask # None /\ svcTask \in RemoveTask /\ svcTask.step = "pick" /\ svcTask.todo = {}
    BY <1>1, SvcAtType DEF SvcRemove, SvcAt
  <1>3. svcTask.ev.op = "DELETE" BY <1>1, <1>2 DEF SvcInv, SvcTaskTyped
  <1>4. /\ UNCHANGED <<lister, notes, queue, task, svcNotes, conf, up, subnetGauge>>
        /\ infoMap' = Drop(infoMap, p) /\ SvcFinish(FALSE)
    BY DEF SvcRemove, dhcp
  <1>5. p \in DOMAIN infoMap /\ p = Qualified[svcTask.ev.w] /\ Leaving(p) /\ \A s, q : ~Telling(s, q)
    BY <1>2, <1>3, RemovalFacts
  <1>6. p \notin DOMAIN OrgMap BY <1>1, <1>5, MapOfElim DEF SubInv, CacheTyped
  <1>7. \A f \in Families : \A s \in DOMAIN conf[f] : conf[f][s].prov # p
    BY <1>2, <1>3 DEF NetInv, WithdrawInv
  <1>8. Pending(svcQueue) \ {svcTask.ev} \subseteq Pending(svcQueue')
    BY <1>1, <1>2, <1>4, TaskPending
  <1>9. DOMAIN infoMap' = DOMAIN infoMap \ {p} /\ \A q \in DOMAIN infoMap' : infoMap'[q] = infoMap[q]
    BY <1>4 DEF Drop, Restrict
  <1>10. \A q : q # p /\ Leaving(q) => Leaving(q)'
    BY <1>4, <1>5, <1>8, <1>9, StillRemoving DEF Leaving
  <1>11. (p \notin Attached)' BY <1>6, <1>9 DEF Attached
  <1>12. \A q \in Providers : (q \in Attached)' =>
           q \in Attached /\ GetNetworkStatus(q)' = GetNetworkStatus(q)
    BY <1>9 DEF Attached, GetNetworkStatus
  <1>13. \A q \in Providers : q \in Attached => (q \in Attached)' \/ Leaving(q)
    BY <1>5, <1>9 DEF Attached
  <1>14. \A s, q : /\ Coming(s, q)' <=> Coming(s, q)
                   /\ Going(s, q)' <=> Going(s, q)
    BY <1>4 DEF Coming, Going, Due
  <1>15. \A q \in Providers : Leaving(q) =>
           \/ Leaving(q)'
           \/ (q \notin Attached)' /\ \A f \in Families : \A s \in DOMAIN conf'[f] : conf'[f][s].prov # q
    BY <1>4, <1>7, <1>10, <1>11
  <1> QED BY <1>1, <1>4, <1>5, <1>12, <1>13, <1>14, <1>15, BesideWork

LEMMA WorkStep ==
  ASSUME NetInv, EditsWait, OwnInterfaces, IsFiniteSet(Providers), KeepsAnnotation,
         Foreign, [SystemNext]_allVars
  PROVE  WorkInv'
  <1>1. CASE SvcWorker
    <2>1. CASE SvcSkip BY <2>1, ServicesWork
    <2>2. CASE SvcList \/ SvcNotified \/ \E s \in Subnets : SvcPick(s) BY <2>2, TellWork
    <2>3. CASE SvcDelete \/ \E f \in Families : SvcStopFails(f) BY <2>3, AsideWork
    <2>4. CASE SvcStore \/ \E s \in Subnets : SvcNotify(s) BY <2>4, StoreWork, NotifyWork
    <2>5. CASE \/ SvcReport \/ SvcRemove
               \/ \E f \in Families : SvcWithdraw(f) \/ SvcStop(f)
      BY <2>5, SvcReportWork, SvcRemoveWork, SvcWithdrawWork, SvcStopWork
    <2> QED BY <1>1, <2>1, <2>2, <2>3, <2>4, <2>5 DEF SvcWorker
  <1>2. CASE UNCHANGED allVars
    <2>1. UNCHANGED <<subnetVars, svcNotes, svcQueue, svcTask>> BY <1>2 DEF allVars, svcVars
    <2> QED BY <2>1, StillRemoving, BesideQuiet DEF Telling
  <1>3. CASE SubnetSteps BY <1>3, WorkerWork
  <1>4. CASE \E s \in Subnets : \E new \in Specs[s] \cup {None} : SubnetEdit(s, new)
    BY <1>4, EditWork
  <1>5. CASE \/ \E v \in Services : \E new \in SvcSpecs[v] : ServiceEdit(v, new)
             \/ SvcDeliver \/ \E e \in svcQueue.later : SvcRetryTimer(e)
    BY <1>5, ServicesWork
  <1> QED BY <1>1, <1>2, <1>3, <1>4, <1>5 DEF SystemNext

-----------------------------------------------------------------------------
(***************************************************************************)
(* What the service worker does is about the Services' own networks.       *)
(***************************************************************************)
\* Only the event handler adds to what the service worker has to do.
LEMMA SvcPending ==
  ASSUME FollowInv, [SystemNext]_allVars, ~SvcDeliver
  PROVE  /\ Pending(svcQueue') \subseteq Pending(svcQueue)
         /\ UNCHANGED <<svcLister, svcNotes>>
              \/ \E v \in Services : \E new \in SvcSpecs[v] : ServiceEdit(v, new)
  <1>1. SvcInv BY DEF FollowInv
  <1>2. CASE SubnetSteps \/ (\E s \in Subnets : \E new \in Specs[s] \cup {None} : SubnetEdit(s, new))
             \/ UNCHANGED allVars
    BY <1>2 DEF SubnetSteps, SubnetEdit, svcVars, allVars
  <1>3. CASE \E v \in Services : \E new \in SvcSpecs[v] : ServiceEdit(v, new)
    BY <1>3 DEF ServiceEdit, SvcEdit
  <1>4. CASE \E e \in svcQueue.later : SvcRetryTimer(e)
    BY <1>1, <1>4, ExpirePending DEF SvcRetryTimer, SvcInv, SvcQueueTyped
  <1>5. CASE SvcSkip
    <2> DEFINE e == NextSvcEvent
               again == e.op # "DELETE" /\ Eligible(svcLister[e.svc]) /\ Contested(svcLister[e.svc])
    <2>1. again \in BOOLEAN /\ svcQueue' = Handled(Get(svcQueue), e, again) BY <1>5 DEF SvcSkip
    <2> HIDE DEF again
    <2> QED BY <1>1, <1>5, <2>1, FirstPending DEF SvcSkip
  <1>6. CASE SvcStore \/ SvcDelete BY <1>1, <1>6, FirstPending DEF SvcStore, SvcDelete
  <1>7. CASE SvcNotified \/ SvcRemove \/ \E f \in Families : SvcStopFails(f)
    <2>1. /\ svcTask # None /\ \E failed \in BOOLEAN : SvcFinish(failed)
          /\ UNCHANGED <<svcLister, svcNotes>>
      BY <1>7 DEF SvcNotified, SvcRemove, SvcStopFails, SvcWorking, SvcAt
    <2> QED BY <1>1, <2>1, TaskPending
  <1>8. CASE \/ SvcList \/ SvcReport
             \/ \E s \in Subnets : SvcNotify(s) \/ SvcPick(s)
             \/ \E f \in Families : SvcWithdraw(f) \/ SvcStop(f)
    BY <1>8 DEF SvcList, SvcReport, SvcNotify, SvcPick, SvcWithdraw, SvcStop
  <1> QED BY <1>2, <1>3, <1>4, <1>5, <1>6, <1>7, <1>8 DEF SystemNext, SvcWorker

LEMMA AnnotStep ==
  ASSUME NetInv, KeepsAnnotation, InFull, [SystemNext]_allVars
  PROVE  AnnotInv'
  <1>1. FollowInv BY NetParts
  <1>2. CASE SvcDeliver
    <2>1. PICK n : n = Head(svcNotes) OBVIOUS
    <2>2. PICK new : new = ToSet(SvcEventsOf(n)) OBVIOUS
    <2>3. /\ n \in ToSet(svcNotes) /\ Pending(svcQueue') = Pending(svcQueue) \cup new
          /\ \A e \in new : e.op = "DELETE" => ~Unannotated(n.old) /\ e.w = n.old.w
      BY <1>1, <1>2, <2>1, <2>2, DeliverFacts
    <2>4. n.svc \in Services /\ n.old \in SvcSpecs[n.svc] \cup {None}
      <3>1. n \in SvcNote BY <1>1, <2>3 DEF FollowInv, SvcInv, SvcListTyped, ToSet
      <3> QED BY <1>1, <2>3, <3>1 DEF FollowInv, SvcNotesInv, SvcNote
    <2>5. ~Unannotated(n.old) => Qualified[n.old.w] \in {None, n.old.w}
      BY <2>4 DEF InFull, Unannotated
    <2> QED BY <2>3, <2>5 DEF NetInv, AnnotInv
  <1>3. CASE ~SvcDeliver
    BY <1>1, <1>3, SvcPending DEF NetInv, AnnotInv
  <1> QED BY <1>2, <1>3

LEMMA StepsKeepLister == SubnetSteps => UNCHANGED lister
  BY DEF SubnetSteps, Deliver, RetryTimer, Worker, FamilyStep, PodWorker, Skip, Take, Look,
     Unbuildable, Configure, Join, Start, StartFails, Withdraw, Stop, StopFails, End, PodTake,
     PodRead, PodWrite

LEMMA TellStep ==
  ASSUME NetInv, EditsWait, Foreign, [SystemNext]_allVars
  PROVE  TellInv'
  <1> SUFFICES ASSUME svcTask' # None, svcTask'.ev.op # "DELETE"
               PROVE  /\ svcTask'.prov # None /\ svcTask'.prov \notin Own
                      /\ Provider(svcLister'[svcTask'.ev.svc]) = svcTask'.prov
                      /\ svcTask'.step = "list" => svcTask'.todo = {}
                      /\ \A s \in svcTask'.todo : (lister'[s] = None \/ lister'[s].prov = svcTask'.prov)
    BY DEF TellInv, Fits, Provider
  <1>1. FollowInv /\ SvcInv BY NetParts
  <1>2. svcTask # None /\ svcTask.ev.op # "DELETE" =>
          /\ svcTask.prov # None /\ svcTask.prov \notin Own
          /\ Provider(svcLister[svcTask.ev.svc]) = svcTask.prov
          /\ svcTask.step = "list" => svcTask.todo = {}
          /\ \A s \in svcTask.todo : Fits(s, svcTask.prov)
    BY DEF NetInv, TellInv
  <1>3. CASE UNCHANGED <<svcTask, svcLister, lister>> BY <1>2, <1>3 DEF Fits
  <1>4. CASE SubnetSteps \/ UNCHANGED allVars \/ SvcDeliver \/ \E e \in svcQueue.later : SvcRetryTimer(e)
    <2>1. UNCHANGED lister BY <1>4, StepsKeepLister DEF SvcDeliver, SvcRetryTimer, allVars, subnetVars
    <2> QED BY <1>3, <1>4, <2>1 DEF SubnetSteps, SvcDeliver, SvcRetryTimer, allVars, svcVars
  <1>5. ASSUME NEW s \in Subnets, NEW new \in Specs[s] \cup {None}, SubnetEdit(s, new) PROVE
          /\ svcTask'.prov # None /\ svcTask'.prov \notin Own
          /\ Provider(svcLister'[svcTask'.ev.svc]) = svcTask'.prov
          /\ svcTask'.step = "list" => svcTask'.todo = {}
          /\ \A t \in svcTask'.todo : (lister'[t] = None \/ lister'[t].prov = svcTask'.prov)
    <2>1. /\ UNCHANGED <<svcTask, svcLister>> /\ ~ToldOfAnother(s, new)
          /\ \A t \in Subnets : lister'[t] = IF t = s THEN new ELSE lister[t]
      BY <1>5, SubnetEditFacts DEF svcVars
    <2>2. svcTask \in StoreTask /\ svcTask.step \in {"list", "notify"} /\ svcTask.todo \subseteq Subnets
      BY <1>1, <2>1 DEF SvcInv, SvcTaskTyped, StoreTask, RemoveTask
    <2>3. s \in svcTask.todo => new = None \/ new.prov = svcTask.prov
      BY <1>2, <2>1, <2>2 DEF ToldOfAnother
    <2>4. ASSUME NEW t \in svcTask.todo PROVE lister'[t] = None \/ lister'[t].prov = svcTask.prov
      BY <1>2, <2>1, <2>2, <2>3 DEF Fits
    <2> QED BY <1>2, <2>1, <2>4
  <1>6. ASSUME NEW v \in Services, NEW new \in SvcSpecs[v], ServiceEdit(v, new) PROVE
          /\ svcTask'.prov # None /\ svcTask'.prov \notin Own
          /\ Provider(svcLister'[svcTask'.ev.svc]) = svcTask'.prov
          /\ svcTask'.step = "list" => svcTask'.todo = {}
          /\ \A s \in svcTask'.todo : (lister'[s] = None \/ lister'[s].prov = svcTask'.prov)
    <2>1. svcTask' = svcTask /\ svcLister' = [svcLister EXCEPT ![v] = new] /\ UNCHANGED lister
      BY <1>6 DEF ServiceEdit, SvcEdit, subnetVars
    <2>2. svcTask.ev \in Pending(svcQueue) BY <1>1, <2>1 DEF SvcInv, SvcQueueTyped, Pending
    <2>3. svcTask.ev.svc # v BY <1>6, <2>2, SvcSets DEF ServiceEdit
    <2>4. svcLister'[svcTask.ev.svc] = svcLister[svcTask.ev.svc]
      BY <1>1, <2>1, <2>2, <2>3
         DEF SvcInv, SvcListTyped, SvcQueueTyped, QueueOK, QueueOf, Pending, SvcEvent
    <2> QED BY <1>2, <2>1, <2>4 DEF Fits
  <1>7. CASE SvcStore
    <2> DEFINE spec == svcLister[NextSvcEvent.svc]
    <2>1. /\ svcTask' = [ev |-> NextSvcEvent, prov |-> Provider(spec), step |-> "list", todo |-> {}]
          /\ svcLister' = svcLister /\ Usable(spec) /\ SvcIdle
      BY <1>7 DEF SvcStore, StoringTask
    <2>2. NextSvcEvent.svc \in Services BY <1>1, <2>1, SvcIdleType DEF SvcEvent
    <2>3. spec \in SvcSpec /\ spec.w \in Written /\ Qualified[spec.w] # None
      BY <1>1, <2>1, <2>2 DEF Usable, Eligible, SvcInv, SvcListTyped, SvcSpec
    <2>4. Provider(spec) # None /\ Provider(spec) \notin Own
      BY <2>1, <2>3 DEF Provider, Foreign, Usable, Eligible
    <2> QED BY <2>1, <2>4
  <1>8. CASE SvcList
    <2>1. svcTask # None /\ svcTask \in StoreTask BY <1>1, <1>8, SvcAtType DEF SvcList, SvcAt
    <2>2. /\ svcTask'.ev = svcTask.ev /\ svcTask'.prov = svcTask.prov /\ UNCHANGED <<svcLister, lister>>
          /\ svcTask'.todo = GetSubnetsByDHCPProvider(svcTask.prov) /\ svcTask'.step = "notify"
      BY <1>8, <2>1 DEF SvcList, StoreTask, subnetVars
    <2>3. \A s \in GetSubnetsByDHCPProvider(svcTask.prov) : lister'[s].prov = svcTask.prov
      BY <2>2 DEF GetSubnetsByDHCPProvider
    <2> QED BY <1>2, <2>1, <2>2, <2>3
  <1>9. CASE \E s \in Subnets : SvcNotify(s)
    <2>1. svcTask # None /\ svcTask \in StoreTask BY <1>1, <1>9, SvcAtType DEF SvcNotify, SvcAt
    <2>2. /\ svcTask'.ev = svcTask.ev /\ svcTask'.prov = svcTask.prov /\ UNCHANGED <<svcLister, lister>>
          /\ svcTask'.todo \subseteq svcTask.todo /\ svcTask'.step = "notify"
      BY <1>9, <2>1 DEF SvcNotify, SvcAt, StoreTask
    <2> QED BY <1>2, <2>1, <2>2 DEF Fits
  <1>10. ~(SvcSkip \/ SvcNotified \/ SvcRemove \/ \E f \in Families : SvcStopFails(f))
    BY DEF SvcSkip, SvcIdle, SvcNotified, SvcRemove, SvcStopFails, SvcFinish
  <1>11. ~SvcDelete BY DEF SvcDelete
  <1>12. ~(\/ SvcReport \/ \E s \in Subnets : SvcPick(s)
           \/ \E f \in Families : SvcWithdraw(f) \/ SvcStop(f))
    <2> SUFFICES ASSUME \/ SvcReport \/ \E s \in Subnets : SvcPick(s)
                        \/ \E f \in Families : SvcWithdraw(f) \/ SvcStop(f)
                 PROVE  FALSE
      OBVIOUS
    <2>1. svcTask # None /\ svcTask \in RemoveTask
      BY <1>1, SvcAtType DEF SvcReport, SvcPick, SvcWithdraw, SvcStop, SvcWorking, SvcAt
    <2>2. svcTask.ev.op = "DELETE" BY <1>1, <2>1 DEF SvcInv, SvcTaskTyped
    <2>3. svcTask'.ev = svcTask.ev
      BY <2>1 DEF SvcReport, SvcPick, SvcWithdraw, SvcStop, SvcNextFamily, RemoveTask
    <2> QED BY <2>2, <2>3
  <1> QED BY <1>4, <1>6, <1>7, <1>8, <1>9, <1>10, <1>11, <1>12, <1>5 DEF SystemNext, SvcWorker

-----------------------------------------------------------------------------
(***************************************************************************)
(* Subnets stay at rest while their network is being removed.              *)
(***************************************************************************)
\* The subnet worker has to do only what was due or it did before.
LEMMA WorkerDue ==
  ASSUME SubInv, SubnetSteps
  PROVE  \A e : Due(e)' \/ Doing(e)' => Due(e) \/ Doing(e)
  <1>1. CASE Deliver \/ \E e \in queue.later : RetryTimer(e)
    <2>1. UNCHANGED task BY <1>1 DEF Deliver, RetryTimer
    <2> QED BY <1>1, <2>1, InformerDue DEF Doing
  <1>2. CASE PodWorker
    BY <1>2 DEF PodWorker, PodTake, PodRead, PodWrite, Due, Doing
  <1>3. CASE Skip BY <1>3, SkipFacts DEF Doing
  <1>4. CASE Take
    <2>1. task' # None => task'.ev = NextEvent BY <1>4 DEF Take
    <2> QED BY <1>4, <2>1, TakeDue DEF Doing
  <1>5. ASSUME NEW failed \in BOOLEAN, task # None, queue' = Handled(queue, task.ev, failed),
               notes' = notes, task' = None
        PROVE  \A e : Due(e)' \/ Doing(e)' => Due(e) \/ Doing(e)
    BY <1>5, FinishDue DEF Doing
  <1>6. ASSUME task # None, UNCHANGED <<queue, notes>>, task'.ev = task.ev
        PROVE  \A e : Due(e)' \/ Doing(e)' => Due(e) \/ Doing(e)
    BY <1>6 DEF Due, Doing
  <1>7. task # None => task \in Task BY DEF SubInv, TaskTyped
  <1>8. CASE Look
    <2>1. task # None /\ notes' = notes BY <1>8 DEF Look, TaskAt
    <2>2. \/ task'.ev = task.ev /\ UNCHANGED queue
          \/ task' = None /\ queue' = Handled(queue, task.ev, FALSE)
      BY <1>7, <1>8, <2>1 DEF Look, Task
    <2> QED BY <1>5, <1>6, <2>1, <2>2
  <1>9. CASE End
    <2>1. task # None /\ notes' = notes /\ task' = None /\ queue' = Handled(queue, task.ev, task.failed)
      BY <1>9 DEF End, TaskAt
    <2>2. task.failed \in BOOLEAN BY <1>7, <2>1 DEF Task
    <2> QED BY <1>5, <2>1, <2>2
  <1>10. ASSUME NEW f \in Families, FamilyStep(f)
         PROVE  \A e : Due(e)' \/ Doing(e)' => Due(e) \/ Doing(e)
    <2>1. task # None /\ task \in Task /\ notes' = notes
      BY <1>7, <1>10 DEF FamilyStep, Unbuildable, Configure, Join, Start, StartFails, Withdraw, Stop,
                         StopFails, Working, TaskAt
    <2>2. (\E failed : NextFamily(failed)) => task'.ev = task.ev BY <2>1 DEF NextFamily, Task
    <2>3. \/ task'.ev = task.ev /\ UNCHANGED queue
          \/ task' = None /\ queue' = Handled(queue, task.ev, TRUE)
      <3>1. CASE Configure(f) \/ Withdraw(f)
        <4>1. UNCHANGED queue /\ ((\E failed : NextFamily(failed)) \/ task'.ev = task.ev)
          BY <2>1, <3>1 DEF Configure, Withdraw, Task
        <4> QED BY <2>2, <4>1
      <3>2. CASE Unbuildable(f) \/ Join(f) \/ Start(f) \/ StartFails(f) \/ Stop(f)
        <4>1. UNCHANGED queue /\ \E failed : NextFamily(failed)
          BY <3>2 DEF Unbuildable, Join, Start, StartFails, Stop
        <4> QED BY <2>2, <4>1
      <3>3. CASE StopFails(f) BY <2>2, <3>3 DEF StopFails
      <3> QED BY <1>10, <3>1, <3>2, <3>3 DEF FamilyStep
    <2> QED BY <1>5, <1>6, <2>1, <2>3
  <1> QED BY <1>1, <1>2, <1>3, <1>4, <1>8, <1>9, <1>10 DEF SubnetSteps, Worker

\* What is at rest is so of every kind of event, and stays so.
LEMMA ClearSteps ==
  ASSUME SubInv, SubInv', SubnetSteps, NEW s \in Subnets, NEW p \in Providers, Clear(s, p)
  PROVE  Clear(s, p)'
  <1>1. \A op : Doing(Item(s, op, p)) => Busy(s, p) BY ItemParts DEF Doing, Busy, Sub, Prov
  <1>2. \A op \in {"ADD", "UPDATE", "DELETE"} : ~Due(Item(s, op, p)) /\ ~Doing(Item(s, op, p))
    BY <1>1 DEF Clear, Coming, Going
  <1>3. \A op \in {"ADD", "UPDATE", "DELETE"} : ~Due(Item(s, op, p))' /\ ~Doing(Item(s, op, p))'
    BY <1>2, WorkerDue
  <1>4. ASSUME Busy(s, p)' PROVE FALSE
    <2>1. task' # None /\ Sub' = s /\ Prov' = p BY <1>4 DEF Busy
    <2>2. task' \in Task BY <2>1 DEF SubInv, TaskTyped
    <2>3. PICK op \in {"ADD", "UPDATE", "DELETE"} : op = task'.ev.op BY <2>2 DEF Task, Event
    <2>4. task'.ev = Item(s, op, p) BY <2>1, <2>2, <2>3 DEF Task, Event, Item, Sub, Prov
    <2>5. Doing(Item(s, op, p))' BY <2>1, <2>4 DEF Doing, Item
    <2> QED BY <1>3, <2>5
  <1> QED BY <1>3, <1>4 DEF Clear, Coming, Going

LEMMA ClearSame == ASSUME UNCHANGED <<notes, queue, task>> PROVE \A s, p : Clear(s, p)' <=> Clear(s, p)
  BY DEF Clear, Coming, Going, Due, Busy, Sub, Prov

\* Only the edit of a Service starts a removal.
LEMMA NoNewRemoval ==
  ASSUME FollowInv, KeepsAnnotation, [SystemNext]_allVars, NEW p, p # None, Removing(p)'
  PROVE  Removing(p) \/ \E v \in Services : \E new \in SvcSpecs[v] : ServiceEdit(v, new)
  <1>1. CASE SvcDeliver
    <2>1. PICK n : n = Head(svcNotes) OBVIOUS
    <2>2. \A q : q # None => (Removing(q)' <=> Removing(q)) BY <1>1, <2>1, DeliverFacts
    <2> QED BY <2>2
  <1>2. CASE ~SvcDeliver
    <2>1. Pending(svcQueue') \subseteq Pending(svcQueue)
      BY <1>2, SvcPending
    <2>2. UNCHANGED svcNotes => Removing(p) BY <2>1, SvcSets, SvcSetsNext
    <2> QED BY <1>2, <2>2, SvcPending
  <1> QED BY <1>1, <1>2

LEMMA RestKept ==
  ASSUME NetInv, \A p : p # None /\ Removing(p)' => Removing(p),
         \A s \in Subnets, p \in Providers : Clear(s, p) => Clear(s, p)'
  PROVE  RestInv'
  BY DEF NetInv, RestInv

\* Nothing is under way about the subnets of a provider that rest.
LEMMA RestingClear ==
  ASSUME SubInv, NEW p \in Providers, Resting(p), NEW s \in Subnets
  PROVE  Clear(s, p)
  <1>1. \A n \in ToSet(notes) : n \in Note /\ n.old # n.new
    BY DEF SubInv, ListTyped, ToSet
  <1>2. \A n \in ToSet(notes) : \A x \in {n.old, n.new} \ {None} : x.prov # p
    BY DEF Resting, ToSet
  <1>3. \A n \in ToSet(notes) : \A op : Item(s, op, p) \notin Raised(n)
    BY <1>1, <1>2, RaisedProviders DEF Note
  <1>4. \A e \in queue.dirty \cup queue.later \cup queue.running : e.prov # p BY DEF Resting, Pending
  <1>5. \A op : ~Due(Item(s, op, p)) BY <1>3, <1>4, ItemParts DEF Due, Waiting
  <1>6. task # None => task.ev \in queue.running BY DEF SubInv, QueueTyped
  <1>7. ~Busy(s, p) BY <1>4, <1>6 DEF Busy, Prov
  <1> QED BY <1>5, <1>7 DEF Clear, Coming, Going

LEMMA RestStep ==
  ASSUME NetInv, EditsWait, KeepsAnnotation, SubInv', [SystemNext]_allVars
  PROVE  RestInv'
  <1>1. FollowInv /\ SvcInv /\ SubInv BY NetParts
  <1>2. CASE SubnetSteps
    <2>1. \A p : Removing(p)' => Removing(p) BY <1>2 DEF SubnetSteps, svcVars, Removing
    <2> QED BY <1>1, <1>2, <2>1, ClearSteps, RestKept
  <1>3. ASSUME NEW s \in Subnets, NEW new \in Specs[s] \cup {None}, SubnetEdit(s, new)
        PROVE  RestInv'
    <2>0. \A t \in Subnets, p \in Providers :
            /\ Coming(t, p) => Coming(t, p)'
            /\ Going(t, p) => Going(t, p)'
            /\ t # s => /\ Has(t, p)' <=> Has(t, p)
                        /\ Coming(t, p)' <=> Coming(t, p)
                        /\ Going(t, p)' <=> Going(t, p)
            /\ Coming(t, p)' \/ Going(t, p)' => Coming(t, p) \/ Going(t, p) \/ (t = s /\ p \notin Own)
            /\ Coming(t, p)' => Coming(t, p) \/ Home(t, p)'
            /\ Removing(p) => /\ Coming(t, p)' <=> Coming(t, p)
                              /\ Going(t, p)' <=> Going(t, p)
      BY <1>3, SubnetEditFacts
    <2> SUFFICES ASSUME NEW p \in Providers, p # None, Removing(p)', NEW t \in Subnets
                 PROVE  Clear(t, p)'
      BY DEF RestInv
    <2>1. UNCHANGED <<task, svcVars>> BY <1>3 DEF SubnetEdit, Edit
    <2>2. Removing(p) BY <2>1 DEF svcVars, Removing
    <2>3. Clear(t, p) BY <2>2 DEF NetInv, RestInv
    <2>4. /\ Coming(t, p)' <=> Coming(t, p)
          /\ Going(t, p)' <=> Going(t, p)
      BY <2>0, <2>2
    <2> QED BY <2>1, <2>3, <2>4 DEF Clear, Busy, Sub, Prov
  <1>4. ASSUME NEW v \in Services, NEW new \in SvcSpecs[v], ServiceEdit(v, new)
        PROVE  RestInv'
    <2> SUFFICES ASSUME NEW p \in Providers, p # None, Removing(p)', NEW t \in Subnets
                 PROVE  Clear(t, p)
      BY <1>4, ClearSame DEF RestInv, ServiceEdit, SvcEdit, subnetVars
    <2>1. PICK n : n = [svc |-> v, old |-> svcLister[v], new |-> new] OBVIOUS
    <2>2. Removing(p) \/ (p = Provider(svcLister[v]) /\ p # Provider(new))
      BY <1>1, <1>4, <2>1, ServiceEditFacts
    <2>3. CASE Removing(p) BY <2>3 DEF NetInv, RestInv
    <2>4. CASE p = Provider(svcLister[v]) /\ p # Provider(new)
      <3>1. Resting(p) BY <1>4, <2>4 DEF ServiceEdit, GivesUp
      <3> QED BY <1>1, <3>1, RestingClear
    <2> QED BY <2>2, <2>3, <2>4
  <1>5. ASSUME NEW s \in Subnets, SvcNotify(s) PROVE RestInv'
    <2> SUFFICES ASSUME NEW p \in Providers, p # None, Removing(p)', NEW t \in Subnets
                 PROVE  Clear(t, p)'
      BY DEF RestInv
    <2>1. svcTask # None /\ svcTask \in StoreTask
      BY <1>1, <1>5, SvcAtType DEF SvcNotify, SvcAt
    <2>2. svcTask.ev.op # "DELETE" /\ svcTask.ev.svc \in Services
      BY <1>1, <2>1 DEF SvcInv, SvcTaskTyped, StoreTask, RemoveTask, SvcEvent
    <2>3. UNCHANGED <<notes, task, svcNotes, svcQueue>> BY <1>5 DEF SvcNotify
    <2>4. Removing(p) BY <2>3 DEF Removing
    <2>5. svcTask.prov # None /\ Provider(svcLister[svcTask.ev.svc]) = svcTask.prov
      BY <2>1, <2>2 DEF NetInv, TellInv
    <2>6. svcTask.ev.svc \in Holders(svcTask.prov) BY <2>2, <2>5 DEF Holders
    <2>7. p # svcTask.prov BY <1>1, <2>4, <2>6 DEF FollowInv, GoneInv
    <2>8. PICK e : e = Item(s, "UPDATE", svcTask.prov) OBVIOUS
    <2>9. e \in Event /\ queue' = Add(queue, e)
      BY <1>5, <2>1, <2>8 DEF SvcNotify, Item, Event, StoreTask
    <2>10. queue'.dirty = queue.dirty \cup {e} /\ queue'.later = queue.later
      BY <1>1, <2>9, AddSets DEF SubInv, QueueTyped, QueueOK
    <2>11. \A op : Item(t, op, p) # e BY <2>7, <2>8, ItemParts
    <2>12. \A op : Due(Item(t, op, p))' <=> Due(Item(t, op, p))
      BY <2>3, <2>10, <2>11 DEF Due, Waiting, Item, Raised
    <2>13. Clear(t, p) BY <2>4 DEF NetInv, RestInv
    <2> QED BY <2>3, <2>12, <2>13 DEF Clear, Coming, Going, Busy, Sub, Prov
  <1>6. CASE \/ UNCHANGED allVars \/ SvcDeliver \/ \E e \in svcQueue.later : SvcRetryTimer(e)
             \/ SvcWorker /\ ~\E s \in Subnets : SvcNotify(s)
    <2>1. UNCHANGED <<notes, queue, task>>
      BY <1>6 DEF SvcDeliver, SvcRetryTimer, SvcWorker, SvcSkip, SvcStore,
         SvcList, SvcNotified, SvcDelete, SvcPick, SvcWithdraw, SvcStop, SvcStopFails,
         SvcReport, SvcRemove, allVars, subnetVars
    <2>2. ASSUME NEW p, p # None, Removing(p)' PROVE Removing(p)
      <3>1. ~\E v \in Services : \E new \in SvcSpecs[v] : ServiceEdit(v, new)
        <4> SUFFICES ASSUME NEW v \in Services, NEW new \in SvcSpecs[v], ServiceEdit(v, new) PROVE FALSE
          OBVIOUS
        <4>1. svcEdits' = svcEdits + 1 /\ svcLister' # svcLister
          BY <1>1 DEF ServiceEdit, SvcEdit, SvcInv, SvcListTyped
        <4>2. UNCHANGED svcLister
          BY <1>6 DEF SvcDeliver, SvcRetryTimer, SvcWorker, SvcSkip, SvcStore,
             SvcList, SvcNotified, SvcDelete, SvcPick, SvcWithdraw, SvcStop, SvcStopFails,
             SvcReport, SvcRemove, allVars, svcVars
        <4> QED BY <4>1, <4>2
      <3> QED BY <1>1, <2>2, <3>1, NoNewRemoval
    <2> QED BY <2>1, <2>2, ClearSame, RestKept
  <1> QED BY <1>2, <1>3, <1>4, <1>5, <1>6 DEF SystemNext
-----------------------------------------------------------------------------
(***************************************************************************)
(* The service worker takes down every subnet of the network it removes.   *)
(***************************************************************************)
\* A step of others, which leaves the subnets of the network alone.
LEMMA WithdrawKept ==
  ASSUME NetInv, Foreign, SubInv', UNCHANGED <<svcTask, infoMap>>,
         \A s \in Subnets, p \in Providers : Leaving(p) =>
           /\ Home(s, p) \/ Home(s, p)' => lister'[s] = lister[s]
           /\ \A f \in Families : s \in DOMAIN conf'[f] /\ (conf'[f][s].prov = p \/ Home(s, p)) =>
                s \in DOMAIN conf[f] /\ conf'[f][s] = conf[f][s]
  PROVE  WithdrawInv'
  <1> SUFFICES ASSUME svcTask # None, svcTask.ev.op = "DELETE", NEW p, p = svcTask.prov
               PROVE  /\ p = Qualified[svcTask.ev.w] /\ p \in DOMAIN infoMap
                      /\ \A s \in svcTask.todo : Home(s, p)'
                      /\ svcTask.step # "pick" => Home(svcTask.sub, p)'
                      /\ \A f \in Families : \A s \in DOMAIN conf'[f] : conf'[f][s].prov = p =>
                           \/ s \in svcTask.todo
                           \/ svcTask.step # "pick" /\ s = svcTask.sub /\ f \in ToSet(svcTask.fams)
                      /\ svcTask.step = "stop" =>
                           /\ svcTask.fams # <<>>
                           /\ LET f == Head(svcTask.fams) IN
                                /\ svcTask.sub \notin DOMAIN conf'[f]
                                /\ \A t \in Subnets \ {svcTask.sub} : ~(Has(t, p)' /\ f \in lister'[t].fams)
    BY DEF WithdrawInv, Home, Has
  <1>1. SvcInv /\ svcTask \in RemoveTask BY NetParts DEF SvcInv, SvcTaskTyped
  <1>2. p \in Providers /\ Leaving(p) BY RemovalFacts
  <1>3. /\ p = Qualified[svcTask.ev.w] /\ p \in DOMAIN infoMap
        /\ \A s \in svcTask.todo : Home(s, p)
        /\ svcTask.step # "pick" => Home(svcTask.sub, p)
        /\ \A f \in Families : \A s \in DOMAIN conf[f] : conf[f][s].prov = p =>
             \/ s \in svcTask.todo
             \/ svcTask.step # "pick" /\ s = svcTask.sub /\ f \in ToSet(svcTask.fams)
        /\ svcTask.step = "stop" =>
             /\ svcTask.fams # <<>>
             /\ LET f == Head(svcTask.fams) IN
                  /\ svcTask.sub \notin DOMAIN conf[f]
                  /\ \A t \in Subnets \ {svcTask.sub} : ~(Has(t, p) /\ f \in lister[t].fams)
    BY DEF NetInv, WithdrawInv
  <1>4. \A f \in Families : DOMAIN conf'[f] \subseteq Subnets
    <2>1. \A f \in Families : conf'[f] \in MapOf(Subnets, Config) BY DEF SubInv, DhcpTyped
    <2> QED BY <2>1, MapOfElim
  <1>5. ASSUME NEW f \in Families, NEW s \in DOMAIN conf'[f], conf'[f][s].prov = p
        PROVE  s \in DOMAIN conf[f] /\ conf[f][s].prov = p
    <2>1. s \in Subnets BY <1>4, <1>5
    <2> QED BY <1>2, <1>5, <2>1
  <1>6. ASSUME svcTask.step = "stop"
        PROVE  LET f == Head(svcTask.fams) IN
                 /\ svcTask.sub \notin DOMAIN conf'[f]
                 /\ \A t \in Subnets \ {svcTask.sub} : ~(Has(t, p)' /\ f \in lister'[t].fams)
    <2> DEFINE f == Head(svcTask.fams)
    <2>1. f \in Families
      <3>1. svcTask.fams \in Seq(Families) /\ svcTask.fams # <<>> BY <1>1, <1>3, <1>6 DEF RemoveTask
      <3> QED BY <3>1, TailSet
    <2>2. /\ svcTask.sub \notin DOMAIN conf[f]
          /\ \A t \in Subnets \ {svcTask.sub} : ~(Has(t, p) /\ f \in lister[t].fams)
      BY <1>3, <1>6
    <2> HIDE DEF f
    <2>3. svcTask.sub \in Subnets /\ Home(svcTask.sub, p)
      BY <1>1, <1>3, <1>6 DEF SvcInv, SvcTaskTyped
    <2>4. svcTask.sub \notin DOMAIN conf'[f] BY <1>2, <2>1, <2>2, <2>3
    <2>5. ASSUME NEW t \in Subnets \ {svcTask.sub}, Has(t, p)', f \in lister'[t].fams PROVE FALSE
      <3>1. Home(t, p)' BY <2>5 DEF Has, Home
      <3>2. lister'[t] = lister[t] BY <1>2, <3>1
      <3> QED BY <2>2, <2>5, <3>2 DEF Has
    <2> QED BY <2>4, <2>5 DEF f
  <1>7. ASSUME NEW s \in Subnets, Home(s, p) PROVE Home(s, p)'
    BY <1>2, <1>7 DEF Home
  <1>8. svcTask.todo \subseteq Subnets /\ (svcTask.step # "pick" => svcTask.sub \in Subnets)
    BY <1>1 DEF RemoveTask, SvcInv, SvcTaskTyped
  <1> QED BY <1>3, <1>5, <1>6, <1>7, <1>8

\* The subnet worker configures no subnet whose network is being removed.
LEMMA WorkerSpares ==
  ASSUME NetInv, SubnetSteps, NEW s \in Subnets, NEW p \in Providers, Leaving(p)
  PROVE  /\ lister'[s] = lister[s]
         /\ \A f \in Families : s \in DOMAIN conf'[f] /\ (conf'[f][s].prov = p \/ Home(s, p)) =>
              s \in DOMAIN conf[f] /\ conf'[f][s] = conf[f][s]
  <1>1. SubInv /\ ~Busy(s, p) BY NetParts, LeavingClear DEF Clear
  <1>2. UNCHANGED lister BY StepsKeepLister
  <1>3. CASE UNCHANGED conf BY <1>2, <1>3
  <1>4. CASE \E f \in Families : Configure(f)
    <2>1. PICK f \in Families : Configure(f) BY <1>4
    <2>2. task # None /\ Needed(f) BY <2>1 DEF Configure, Working, TaskAt
    <2>3. Sub = s => Prov # p /\ Has(s, Prov)
      BY <1>1, <2>2, AtSubnet DEF Busy, Needed
    <2>4. /\ \A g \in Families : g # f => conf'[g] = conf[g]
          /\ DOMAIN conf'[f] = DOMAIN conf[f] \cup {Sub}
          /\ \A t \in DOMAIN conf[f] : t # Sub => conf'[f][t] = conf[f][t]
          /\ conf'[f][Sub] = Configuration(f)
      BY <1>1, <2>1, ConfStored
    <2>5. conf'[f][Sub].prov = Prov BY <2>4 DEF Configuration
    <2> QED BY <1>2, <2>3, <2>4, <2>5 DEF Has, Home
  <1>5. CASE \E f \in Families : Withdraw(f)
    <2>1. PICK f \in Families : Withdraw(f) BY <1>5
    <2>2. /\ \A g \in Families : g # f => conf'[g] = conf[g]
          /\ DOMAIN conf'[f] = DOMAIN conf[f] \ {Sub}
          /\ \A t \in DOMAIN conf'[f] : conf'[f][t] = conf[f][t]
      BY <1>1, <2>1, ConfDropped
    <2> QED BY <1>2, <2>2
  <1>6. UNCHANGED conf \/ \E f \in Families : Configure(f) \/ Withdraw(f)
    BY DEF SubnetSteps, Deliver, RetryTimer, Worker, FamilyStep, PodWorker, Skip, Take, Look,
       Unbuildable, Join, Start, StartFails, Stop, StopFails, End, PodTake, PodRead, PodWrite, dhcp
  <1> QED BY <1>3, <1>4, <1>5, <1>6

LEMMA WithdrawBeside ==
  ASSUME NetInv, Foreign, EditsWait, SubInv',
         \/ SubnetSteps \/ SvcDeliver \/ UNCHANGED allVars
         \/ \E s \in Subnets : \E new \in Specs[s] \cup {None} : SubnetEdit(s, new)
         \/ \E v \in Services : \E new \in SvcSpecs[v] : ServiceEdit(v, new)
         \/ \E e \in svcQueue.later : SvcRetryTimer(e)
  PROVE  WithdrawInv'
  <1>1. CASE SubnetSteps
    <2>1. UNCHANGED <<svcTask, infoMap>> BY <1>1, WorkersKeepNetworks DEF SubnetSteps, svcVars
    <2> QED BY <1>1, <2>1, WorkerSpares, WithdrawKept
  <1>2. ASSUME NEW s \in Subnets, NEW new \in Specs[s] \cup {None}, SubnetEdit(s, new)
        PROVE  WithdrawInv'
    <2>1. /\ UNCHANGED <<conf, infoMap, svcVars>>
          /\ \A t \in Subnets : lister'[t] = IF t = s THEN new ELSE lister[t]
          /\ \A x \in {lister[s], new} \ {None} : ~Removing(x.prov)
      BY <1>2, SubnetEditFacts
    <2>2. \A p : Home(s, p) \/ Home(s, p)' => ~Leaving(p) BY <2>1 DEF Home, Leaving
    <2> QED BY <2>1, <2>2, WithdrawKept DEF svcVars
  <1>3. CASE \/ SvcDeliver \/ UNCHANGED allVars
             \/ \E v \in Services : \E new \in SvcSpecs[v] : ServiceEdit(v, new)
             \/ \E e \in svcQueue.later : SvcRetryTimer(e)
    <2>1. UNCHANGED <<lister, conf, svcTask, infoMap>>
      BY <1>3 DEF SvcDeliver, SvcRetryTimer, ServiceEdit, SvcEdit, allVars, subnetVars, svcVars, dhcp, cache
    <2> QED BY <2>1, WithdrawKept
  <1> QED BY <1>1, <1>2, <1>3

\* What is configured from the network when its removal begins is on the worker's list.
LEMMA WithdrawBegin == ASSUME NetInv, SvcDelete PROVE WithdrawInv'
  <1> PICK e : e = NextSvcEvent OBVIOUS
  <1> PICK p : p = Qualified[e.w] OBVIOUS
  <1>1. FollowInv /\ SvcInv /\ SubInv BY NetParts
  <1>2. SvcIdle /\ e.op = "DELETE" /\ p \in DOMAIN infoMap BY DEF SvcDelete
  <1>3. /\ svcTask'.ev = e /\ svcTask'.prov = p /\ svcTask'.step = "pick"
        /\ svcTask'.todo = GetSubnetsByDHCPProvider(e.w)
        /\ UNCHANGED <<lister, conf, infoMap>>
    BY DEF SvcDelete, dhcp
  <1>4. e \in Pending(svcQueue) BY <1>1, <1>2, FirstPending
  <1>5. p # None /\ p = e.w
    BY <1>1, <1>2, <1>4 DEF FollowInv, BackedInv, NetInv, AnnotInv
  <1>6. p \in Providers BY <1>1, <1>2, MapOfElim DEF SubInv, CacheTyped
  <1>7. Leaving(p) BY <1>2, <1>4 DEF Leaving, Removing
  <1>8. \A s \in GetSubnetsByDHCPProvider(e.w) : Home(s, p)
    BY <1>5 DEF GetSubnetsByDHCPProvider, Home
  <1>9. \A f \in Families : DOMAIN conf[f] \subseteq Subnets
    <2>1. \A f \in Families : conf[f] \in MapOf(Subnets, Config) BY <1>1 DEF SubInv, DhcpTyped
    <2> QED BY <2>1, MapOfElim
  <1>10. ASSUME NEW f \in Families, NEW s \in DOMAIN conf[f], conf[f][s].prov = p
         PROVE  s \in GetSubnetsByDHCPProvider(e.w)
    <2>1. s \in Subnets BY <1>9
    <2>2. Going(s, p) \/ Ending(s, p, f) \/ Wants(s, p, f) \/ (Has(s, p) /\ Bringing(s, f))
      BY <1>6, <1>10, <2>1 DEF NetInv, WorkInv, BelongInv
    <2>3. Clear(s, p) BY <1>6, <1>7, <2>1, LeavingClear
    <2>4. ~Going(s, p) BY <2>3 DEF Clear
    <2>5. ~Ending(s, p, f) BY <2>3, ItemParts DEF Clear, Ending, Doing, Busy, Sub, Prov
    <2>6. Has(s, p) BY <2>2, <2>4, <2>5 DEF Wants
    <2> QED BY <1>5, <2>1, <2>6 DEF Has, GetSubnetsByDHCPProvider
  <1> QED BY <1>2, <1>3, <1>8, <1>10 DEF WithdrawInv, Home

\* The steps of the removal.
LEMMA WithdrawOn ==
  ASSUME NetInv,
         \/ SvcReport \/ \E s \in Subnets : SvcPick(s)
         \/ \E f \in Families : SvcWithdraw(f) \/ SvcStop(f)
  PROVE  WithdrawInv'
  <1>1. SvcInv /\ SubInv BY NetParts DEF SvcInv
  <1>2. svcTask # None /\ svcTask \in RemoveTask
    BY <1>1, SvcAtType DEF SvcReport, SvcPick, SvcWithdraw, SvcStop, SvcWorking, SvcAt
  <1>3. svcTask.ev.op = "DELETE" BY <1>1, <1>2 DEF SvcInv, SvcTaskTyped
  <1> PICK p : p = svcTask.prov OBVIOUS
  <1>4. /\ p = Qualified[svcTask.ev.w] /\ p \in DOMAIN infoMap
        /\ \A s \in svcTask.todo : Home(s, p)
        /\ svcTask.step # "pick" => Home(svcTask.sub, p)
        /\ \A f \in Families : \A s \in DOMAIN conf[f] : conf[f][s].prov = p =>
             \/ s \in svcTask.todo
             \/ svcTask.step # "pick" /\ s = svcTask.sub /\ f \in ToSet(svcTask.fams)
        /\ svcTask.step = "stop" =>
             /\ svcTask.fams # <<>>
             /\ LET f == Head(svcTask.fams) IN
                  /\ svcTask.sub \notin DOMAIN conf[f]
                  /\ \A t \in Subnets \ {svcTask.sub} : ~(Has(t, p) /\ f \in lister[t].fams)
    BY <1>2, <1>3 DEF NetInv, WithdrawInv
  <1>5. UNCHANGED <<lister, infoMap>> BY DEF SvcReport, SvcPick, SvcWithdraw, SvcStop, subnetVars, cache
  <1>6. ASSUME svcTask'.ev = svcTask.ev, svcTask'.prov = p, svcTask'.todo \subseteq svcTask.todo,
               svcTask'.step # "pick" => Home(svcTask'.sub, p),
               \A f \in Families : \A s \in DOMAIN conf'[f] : conf'[f][s].prov = p =>
                 \/ s \in svcTask'.todo
                 \/ svcTask'.step # "pick" /\ s = svcTask'.sub /\ f \in ToSet(svcTask'.fams),
               svcTask'.step = "stop" => svcTask'.fams # <<>>,
               svcTask'.step = "stop" =>
                 /\ svcTask'.sub \notin DOMAIN conf'[Head(svcTask'.fams)]
                 /\ \A t \in Subnets \ {svcTask'.sub} : ~(Has(t, p) /\ Head(svcTask'.fams) \in lister[t].fams)
        PROVE  WithdrawInv'
    <2>1. \A t \in Subnets : Has(t, p)' <=> Has(t, p) BY <1>5 DEF Has
    <2> QED BY <1>4, <1>5, <1>6, <2>1 DEF WithdrawInv, Home
  <1>7. ASSUME NEW s \in Subnets, SvcPick(s)
        PROVE  /\ svcTask'.ev = svcTask.ev /\ svcTask'.prov = p
               /\ svcTask'.todo = svcTask.todo \ {s} /\ s \in svcTask.todo /\ svcTask.step = "pick"
               /\ svcTask'.step = "withdraw" /\ svcTask'.sub = s /\ svcTask'.fams = FamOrder
               /\ UNCHANGED conf
    BY <1>2, <1>7 DEF SvcPick, SvcAt, RemoveTask, subnetVars, dhcp
  <1>8. CASE \E s \in Subnets : SvcPick(s)
    <2>1. PICK s \in Subnets : SvcPick(s) BY <1>8
    <2>2. ToSet(FamOrder) = Families BY DEF Families
    <2>3. Home(s, p) BY <1>4, <1>7, <2>1
    <2>4. \A f \in Families : \A t \in DOMAIN conf'[f] : conf'[f][t].prov = p =>
            t \in svcTask'.todo \/ (t = svcTask'.sub /\ f \in ToSet(svcTask'.fams))
      BY <1>4, <1>7, <2>1, <2>2
    <2> QED BY <1>6, <1>7, <2>1, <2>3, <2>4
  <1>9. CASE SvcReport
    <2>1. /\ svcTask'.ev = svcTask.ev /\ svcTask'.prov = p /\ svcTask'.todo = svcTask.todo
          /\ svcTask'.step = "pick" /\ svcTask.fams = <<>> /\ UNCHANGED conf
      BY <1>2, <1>9 DEF SvcReport, RemoveTask
    <2>2. ToSet(<<>>) = {} BY DEF ToSet
    <2>3. \A f \in Families : \A t \in DOMAIN conf'[f] : conf'[f][t].prov = p => t \in svcTask'.todo
      BY <1>4, <2>1, <2>2
    <2> QED BY <1>6, <2>1, <2>3
  <1>10. ASSUME NEW f \in Families, SvcWithdraw(f) \/ SvcStop(f)
         PROVE  /\ svcTask.fams # <<>> /\ f = Head(svcTask.fams) /\ svcTask.step \in {"withdraw", "stop"}
                /\ ToSet(svcTask.fams) = {f} \cup ToSet(Tail(svcTask.fams))
                /\ SvcNextFamily =>
                     /\ svcTask'.ev = svcTask.ev /\ svcTask'.prov = p /\ svcTask'.todo = svcTask.todo
                     /\ svcTask'.step = "withdraw" /\ svcTask'.sub = svcTask.sub
                     /\ svcTask'.fams = Tail(svcTask.fams)
    <2>1. svcTask.fams # <<>> /\ f = Head(svcTask.fams) /\ svcTask.step \in {"withdraw", "stop"}
      BY <1>10 DEF SvcWithdraw, SvcStop, SvcWorking, SvcAt
    <2>2. svcTask.fams \in Seq(Families) BY <1>2 DEF RemoveTask
    <2>3. ToSet(svcTask.fams) = {f} \cup ToSet(Tail(svcTask.fams)) BY <2>1, <2>2, TailSet
    <2> DEFINE rest == Tail(svcTask.fams)
    <2>4. SvcNextFamily => svcTask' = [svcTask EXCEPT !.step = "withdraw", !.fams = rest]
      BY DEF SvcNextFamily
    <2> HIDE DEF rest
    <2>5. SvcNextFamily =>
            /\ svcTask'.ev = svcTask.ev /\ svcTask'.prov = p /\ svcTask'.todo = svcTask.todo
            /\ svcTask'.step = "withdraw" /\ svcTask'.sub = svcTask.sub /\ svcTask'.fams = rest
      BY <1>2, <2>4 DEF RemoveTask
    <2> QED BY <2>1, <2>3, <2>5 DEF rest
  <1>11. ASSUME NEW f \in Families, SvcStop(f)
         PROVE  WithdrawInv'
    <2>1. SvcNextFamily /\ UNCHANGED conf /\ svcTask.step = "stop"
      BY <1>11 DEF SvcStop, SvcWorking, SvcAt
    <2>2. /\ svcTask.fams # <<>> /\ f = Head(svcTask.fams)
          /\ ToSet(svcTask.fams) = {f} \cup ToSet(Tail(svcTask.fams))
          /\ svcTask'.ev = svcTask.ev /\ svcTask'.prov = p /\ svcTask'.todo = svcTask.todo
          /\ svcTask'.step = "withdraw" /\ svcTask'.sub = svcTask.sub
          /\ svcTask'.fams = Tail(svcTask.fams)
      BY <1>10, <1>11, <2>1
    <2>3. svcTask.sub \notin DOMAIN conf[f] /\ Home(svcTask.sub, p) BY <1>4, <2>1, <2>2
    <2>4. \A g \in Families : \A t \in DOMAIN conf'[g] : conf'[g][t].prov = p =>
            t \in svcTask'.todo \/ (t = svcTask'.sub /\ g \in ToSet(svcTask'.fams))
      BY <1>4, <2>1, <2>2, <2>3
    <2> QED BY <1>6, <2>2, <2>3, <2>4
  <1>12. ASSUME NEW f \in Families, SvcWithdraw(f)
         PROVE  WithdrawInv'
    <2>1. svcTask.step = "withdraw" BY <1>12 DEF SvcWithdraw, SvcWorking, SvcAt
    <2>2. conf' = [conf EXCEPT ![f] = Drop(conf[f], svcTask.sub)] BY <1>12 DEF SvcWithdraw
    <2>3. /\ svcTask.sub \notin DOMAIN conf'[f]
          /\ \A g \in Families : \A s \in DOMAIN conf'[g] :
               s \in DOMAIN conf[g] /\ conf'[g][s] = conf[g][s] /\ (g = f => s # svcTask.sub)
      BY <1>1, <2>2 DEF SubInv, DhcpTyped, Drop, Restrict
    <2>4. /\ svcTask.fams # <<>> /\ f = Head(svcTask.fams) /\ Home(svcTask.sub, p)
          /\ ToSet(svcTask.fams) = {f} \cup ToSet(Tail(svcTask.fams))
      BY <1>4, <1>10, <1>12, <2>1
    <2>5. CASE SvcNextFamily
      <3>1. /\ svcTask'.ev = svcTask.ev /\ svcTask'.prov = p /\ svcTask'.todo = svcTask.todo
            /\ svcTask'.step = "withdraw" /\ svcTask'.sub = svcTask.sub
            /\ svcTask'.fams = Tail(svcTask.fams)
        BY <1>10, <1>12, <2>5
      <3>2. \A g \in Families : \A t \in DOMAIN conf'[g] : conf'[g][t].prov = p =>
              t \in svcTask'.todo \/ (t = svcTask'.sub /\ g \in ToSet(svcTask'.fams))
        BY <1>4, <2>1, <2>3, <2>4, <3>1
      <3> QED BY <1>6, <2>4, <3>1, <3>2
    <2>6. CASE /\ ~OtherUsers(svcTask.sub, svcTask.prov, f)
               /\ svcTask' = [svcTask EXCEPT !.step = "stop"]
      <3>1. /\ svcTask'.ev = svcTask.ev /\ svcTask'.prov = p /\ svcTask'.todo = svcTask.todo
            /\ svcTask'.step = "stop" /\ svcTask'.sub = svcTask.sub /\ svcTask'.fams = svcTask.fams
        BY <1>2, <2>6 DEF RemoveTask
      <3>2. \A t \in Subnets \ {svcTask.sub} : ~(Has(t, p) /\ f \in lister[t].fams)
        BY <2>6 DEF OtherUsers, Has
      <3>3. \A g \in Families : \A t \in DOMAIN conf'[g] : conf'[g][t].prov = p =>
              t \in svcTask'.todo \/ (t = svcTask'.sub /\ g \in ToSet(svcTask'.fams))
        BY <1>4, <2>1, <2>3, <3>1
      <3> QED BY <1>6, <2>3, <2>4, <3>1, <3>2, <3>3
    <2> QED BY <1>12, <2>5, <2>6 DEF SvcWithdraw
  <1> QED BY <1>8, <1>9, <1>11, <1>12

\* No network is being removed after the step.
LEMMA NoWithdrawal ==
  ASSUME NetInv,
         \/ SvcSkip \/ SvcStore \/ SvcList \/ SvcNotified \/ SvcRemove
         \/ \E s \in Subnets : SvcNotify(s)
         \/ \E f \in Families : SvcStopFails(f)
  PROVE  WithdrawInv'
  <1>1. SvcInv BY NetParts
  <1>2. CASE SvcSkip BY <1>2 DEF SvcSkip, SvcIdle, WithdrawInv
  <1>3. CASE SvcNotified \/ SvcRemove \/ \E f \in Families : SvcStopFails(f)
    BY <1>3 DEF SvcNotified, SvcRemove, SvcStopFails, SvcFinish, WithdrawInv
  <1>4. CASE SvcStore
    <2>1. svcTask'.ev = NextSvcEvent /\ NextSvcEvent.op # "DELETE" BY <1>4 DEF SvcStore, StoringTask
    <2> QED BY <2>1 DEF WithdrawInv
  <1>5. CASE SvcList \/ \E s \in Subnets : SvcNotify(s)
    <2>1. svcTask # None /\ svcTask \in StoreTask /\ svcTask \notin RemoveTask
      BY <1>1, <1>5, SvcAtType DEF SvcList, SvcNotify, SvcAt, StoreTask, RemoveTask
    <2>2. svcTask.ev.op # "DELETE" BY <1>1, <2>1 DEF SvcInv, SvcTaskTyped
    <2>3. svcTask'.ev = svcTask.ev BY <1>5, <2>1 DEF SvcList, SvcNotify, StoreTask
    <2> QED BY <2>2, <2>3 DEF WithdrawInv
  <1> QED BY <1>2, <1>3, <1>4, <1>5

LEMMA RemovalStep ==
  ASSUME NetInv, Foreign, EditsWait, SubInv', [SystemNext]_allVars
  PROVE  WithdrawInv'
  <1>1. CASE SvcWorker BY <1>1, NoWithdrawal, WithdrawBegin, WithdrawOn DEF SvcWorker
  <1>2. CASE ~SvcWorker
    <2>1. \/ SubnetSteps \/ SvcDeliver \/ UNCHANGED allVars
          \/ \E s \in Subnets : \E new \in Specs[s] \cup {None} : SubnetEdit(s, new)
          \/ \E v \in Services : \E new \in SvcSpecs[v] : ServiceEdit(v, new)
          \/ \E e \in svcQueue.later : SvcRetryTimer(e)
      BY <1>2 DEF SystemNext
    <2> QED BY <2>1, WithdrawBeside
  <1> QED BY <1>1, <1>2

\* The order of a subnet's events is kept: what the service worker tells a subnet comes
\* after what waits already.
LEMMA NotifyOrder == ASSUME NetInv, NEW s \in Subnets, SvcNotify(s) PROVE OrderedInv'
  <1> PICK u : u = Item(s, "UPDATE", svcTask.prov) OBVIOUS
  <1>1. SvcInv /\ SubInv /\ SubInv' /\ OrderedInv BY NetParts, SvcNotifyStep DEF SvcInv, NetInv
  <1>2. /\ UNCHANGED <<notes, task, lister, faults>> /\ queue' = Add(queue, u)
        /\ u.sub = s /\ u.op = "UPDATE"
    BY DEF SvcNotify, Item
  <1>3. u \in Event
    <2>1. svcTask \in StoreTask BY <1>1, SvcAtType DEF SvcNotify, SvcAt
    <2> QED BY <2>1 DEF StoreTask, Event, Item
  <1>4. QueueOK(queue, Event) BY <1>1 DEF SubInv, QueueTyped
  <1>5. /\ queue'.dirty = queue.dirty \cup {u}
        /\ queue'.later = queue.later /\ queue'.running = queue.running
    BY <1>2, <1>3, <1>4, AddSets DEF QueueOK
  <1>6. \A t, p, op : op # "UPDATE" => Item(t, op, p) # u BY <1>2, ItemParts
  <1>7. \A e : Due(e)' <=> Due(e) \/ e = u BY <1>2, <1>5 DEF Due, Waiting
  <1>8. ClosingInv' BY <1>1, <1>2 DEF OrderedInv, ClosingInv, faults
  <1>9. OrderInv'
    <2> SUFFICES ASSUME NEW t \in Subnets, NEW q \in Providers, On(t), NEW d, d = Item(t, "DELETE", q)
                 PROVE  /\ d \notin queue'.later
                        /\ d \in queue'.running => d \notin queue'.dirty
                        /\ \A i \in DOMAIN notes : d \in Raised(notes[i]) =>
                             /\ \A e \in Pending(queue') : e.sub = t => e.op = "UPDATE"
                             /\ \A j \in 1 .. i - 1 : notes[j].sub # t
                        /\ d \in queue'.dirty => \A p \in Providers :
                             /\ Item(t, "ADD", p) \notin queue'.running \cup queue'.later
                             /\ Precedes(queue'.order, d, Item(t, "ADD", p))
      BY <1>2 DEF OrderInv, On
    <2>1. /\ d \notin queue.later
          /\ d \in queue.running => d \notin queue.dirty
          /\ \A i \in DOMAIN notes : d \in Raised(notes[i]) =>
               /\ \A e \in Pending(queue) : e.sub = t => e.op = "UPDATE"
               /\ \A j \in 1 .. i - 1 : notes[j].sub # t
          /\ d \in queue.dirty => \A p \in Providers :
               /\ Item(t, "ADD", p) \notin queue.running \cup queue.later
               /\ Precedes(queue.order, d, Item(t, "ADD", p))
      BY <1>1 DEF OrderedInv, OrderInv
    <2>2. d # u BY <1>6
    <2>3. Pending(queue') \subseteq Pending(queue) \cup {u} BY <1>5 DEF Pending
    <2>4. ASSUME NEW p \in Providers, d \in queue.dirty PROVE Precedes(queue'.order, d, Item(t, "ADD", p))
      <3>1. d # Item(t, "ADD", p) BY ItemParts
      <3> QED BY <1>2, <1>3, <1>4, <2>1, <2>2, <2>4, <3>1, AddPrecedes
    <2> QED BY <1>2, <1>5, <2>1, <2>2, <2>3, <2>4
  <1>10. MoveInv'
    <2>1. \A t, q : Going(t, q)' <=> Going(t, q) BY <1>6, <1>7 DEF Going
    <2> QED BY <1>1, <1>2, <1>7, <2>1 DEF OrderedInv, MoveInv, Has, Doing
  <1> QED BY <1>1, <1>8, <1>9, <1>10 DEF OrderedInv

LEMMA OrderedStep ==
  ASSUME NetInv, EditsWait, SubInv', [SystemNext]_allVars
  PROVE  OrderedInv'
  <1>1. OrderedInv /\ SubInv BY NetParts DEF NetInv
  <1>2. CASE \E s \in Subnets : \E new \in Specs[s] \cup {None} : SubnetEdit(s, new)
    BY <1>1, <1>2, OrderedEdit DEF SubnetEdit
  <1>3. CASE SubnetSteps BY <1>1, <1>3, OrderedSteps DEF SubnetSteps, TakesAfterMove, On
  <1>4. CASE \E s \in Subnets : SvcNotify(s) BY <1>4, NotifyOrder
  <1>5. ASSUME UNCHANGED <<lister, notes, queue, task>>, stopFaults' \in Nat
        PROVE  OrderedInv'
    <2>1. ClosingInv' BY <1>1, <1>5 DEF OrderedInv, ClosingInv
    <2> QED BY <1>1, <1>5, <2>1, WithinTurn DEF OrderedInv
  <1>6. CASE \E f \in Families : SvcStopFails(f)
    <2>1. stopFaults' = stopFaults + 1 /\ stopFaults \in Nat
      BY <1>1, <1>6 DEF SvcStopFails, CloseFails, OrderedInv, ClosingInv
    <2>2. UNCHANGED <<lister, notes, queue, task>> BY <1>6 DEF SvcStopFails
    <2> QED BY <1>5, <2>1, <2>2
  <1>7. CASE \/ UNCHANGED allVars \/ SvcDeliver \/ \E e \in svcQueue.later : SvcRetryTimer(e)
             \/ \E v \in Services : \E new \in SvcSpecs[v] : ServiceEdit(v, new)
             \/ /\ SvcWorker /\ ~\E s \in Subnets : SvcNotify(s)
                /\ ~\E f \in Families : SvcStopFails(f)
    <2>1. UNCHANGED <<lister, notes, queue, task, stopFaults>>
      BY <1>7 DEF SvcDeliver, SvcRetryTimer, ServiceEdit, SvcEdit, SvcWorker, SvcSkip, SvcStore,
         SvcList, SvcNotified, SvcDelete, SvcPick, SvcWithdraw, SvcStop, SvcReport, SvcRemove,
         allVars, subnetVars, faults
    <2> QED BY <1>1, <1>5, <2>1 DEF OrderedInv, ClosingInv
  <1> QED BY <1>2, <1>3, <1>4, <1>6, <1>7 DEF SystemNext, SvcWorker

LEMMA NetStep ==
  ASSUME NetInv, EditsWait, OwnInterfaces, IsFiniteSet(Providers), IsFiniteSet(Services),
         KeepsAnnotation, Foreign, InFull, [SystemNext]_allVars
  PROVE  NetInv'
  <1>1. FollowInv /\ SvcInv BY NetParts
  <1>2. FollowInv' BY <1>1, InFullOneForm, FollowStep
  <1>3. SubInv' BY <1>1, SvcInvStep DEF SvcInv
  <1>4. OrderedInv' BY <1>3, OrderedStep
  <1>5. WorkInv' BY WorkStep
  <1>6. WithdrawInv' BY <1>3, RemovalStep
  <1>7. AnnotInv' BY AnnotStep
  <1>8. TellInv' BY TellStep
  <1>9. RestInv' BY <1>3, RestStep
  <1> QED BY <1>2, <1>4, <1>5, <1>6, <1>7, <1>8, <1>9 DEF NetInv

-----------------------------------------------------------------------------
(***************************************************************************)
(* What the invariant implies.                                             *)
(***************************************************************************)
LEMMA NetInit == ASSUME MappedMap = EmptyMap, SvcInit PROVE NetInv
  <1>1. FollowInv BY FollowInit
  <1>2. /\ \A s \in Subnets : lister[s] = None
        /\ task = None /\ svcTask = None /\ notes = <<>> /\ svcNotes = <<>>
        /\ queue = EmptyQueue /\ svcQueue = EmptyQueue
        /\ \A f \in Families : DOMAIN conf[f] = {}
    BY DEF SvcInit, Init, EmptyMap
  <1>3. \A s, p : ~Has(s, p) \/ s \notin Subnets BY <1>2 DEF Has
  <1>4. \A e : ~Due(e) BY <1>2 DEF Due, Waiting, EmptyQueue, ToSet
  <1>5. /\ \A s, p : ~Coming(s, p) /\ ~Going(s, p) /\ ~Busy(s, p)
        /\ \A e : ~Doing(e)
    BY <1>2, <1>4 DEF Coming, Going, Busy, Doing
  <1>6. \A p : ~Removing(p) BY <1>2 DEF Removing, Pending, EmptyQueue
  <1>7. AnnotInv BY <1>2 DEF AnnotInv, Pending, EmptyQueue
  <1>8. FitInv /\ ReadInv /\ ReadyInv BY <1>5 DEF FitInv, ReadInv, ReadyInv
  <1>9. BelongInv BY <1>2 DEF BelongInv
  <1>10. MetInv /\ NameInv BY <1>3 DEF MetInv, NameInv, Needs
  <1>11. TellInv /\ WithdrawInv BY <1>2 DEF TellInv, WithdrawInv
  <1>12. RestInv BY <1>6 DEF RestInv
  <1>13. OrderedInv BY OrderedInit DEF SvcInit
  <1> QED BY <1>1, <1>7, <1>8, <1>9, <1>10, <1>11, <1>12, <1>13 DEF NetInv, WorkInv

\* When all is calm the service worker is idle and removes no network.
LEMMA CalmIdle ==
  ASSUME FollowInv, Calm
  PROVE  svcTask = None /\ \A p : ~Removing(p)
  <1>1. \A e \in Pending(svcQueue) : e.svc \in Services
    BY DEF FollowInv, SvcInv, SvcQueueTyped, QueueOK, QueueOf, Pending, SvcEvent
  <1>2. \A n \in ToSet(svcNotes) : n.svc \in Services
    <2>1. \A n \in ToSet(svcNotes) : n \in SvcNote BY DEF FollowInv, SvcInv, SvcListTyped, ToSet
    <2> QED BY <2>1 DEF SvcNote
  <1>3. Pending(svcQueue) = {} /\ ToSet(svcNotes) = {} BY <1>1, <1>2, SvcSets DEF Calm
  <1>4. \A p : ~Removing(p) BY <1>3, SvcSets
  <1>5. svcTask = None BY <1>3 DEF FollowInv, SvcInv, SvcQueueTyped, QueueOK, Pending
  <1> QED BY <1>4, <1>5

\* Nor is anything under way about a subnet that is settled.
LEMMA SettledQuiet ==
  ASSUME SubInv, NEW s \in Subnets, Settled(s)
  PROVE  /\ \A p : ~Coming(s, p) /\ ~Going(s, p) /\ ~Busy(s, p)
         /\ \A p, f : ~Bringing(s, f) /\ ~Ending(s, p, f)
  BY SettledRests DEF Coming, Going, Busy, Bringing, Ending

LEMMA NetServed == NetInv => NetworksServed
  <1> SUFFICES ASSUME NetInv, Calm, NEW s \in Subnets, Settled(s) PROVE Right(s)
    BY DEF NetworksServed, SettledIsServed
  <1>1. FollowInv /\ SubInv BY NetParts
  <1>2. /\ \A p : ~Coming(s, p) /\ ~Going(s, p) /\ ~Busy(s, p)
        /\ \A p, f : ~Bringing(s, f) /\ ~Ending(s, p, f)
    BY <1>1, SettledQuiet
  <1>3. \A p : ~Telling(s, p) /\ ~Leaving(p) BY <1>1, CalmIdle DEF Telling, Leaving
  <1>4. ASSUME NEW f \in Families, Wanted(s, f)
        PROVE  lister[s].prov \in Providers /\ Needs(s, lister[s].prov, f)
    <2>1. lister[s].prov \in Providers BY <1>1, <1>4 DEF Wanted, SubInv, ListTyped, SubnetSpec
    <2> QED BY <1>2, <1>3, <1>4, <2>1 DEF Wanted, Needs, Has, Awaits
  <1>5. ASSUME NEW f \in Families, Wanted(s, f)
        PROVE  /\ s \in DOMAIN conf[f]
               /\ conf[f][s] = [prov |-> lister[s].prov, rev |-> lister[s].rev,
                                addr |-> GetNetworkStatus(lister[s].prov)[f]]
               /\ Nic[lister[s].prov] \in up[f]
               /\ s \in DOMAIN subnetGauge /\ subnetGauge[s] = lister[s].prov
    <2>1. Served(s, lister[s].prov, f) BY <1>2, <1>4, <1>5 DEF NetInv, WorkInv, MetInv
    <2>2. s \in DOMAIN subnetGauge /\ subnetGauge[s] = lister[s].prov
      BY <1>2, <1>4, <1>5 DEF NetInv, WorkInv, NameInv
    <2> QED BY <2>1, <2>2 DEF Served
  <1>6. ASSUME NEW f \in Families, s \in DOMAIN conf[f] PROVE Wanted(s, f)
    <2> PICK p : p = conf[f][s].prov OBVIOUS
    <2>1. p \in Providers
      <3>1. conf[f] \in MapOf(Subnets, Config) BY <1>1 DEF SubInv, DhcpTyped
      <3>2. conf[f][s] \in Config BY <1>6, <3>1, MapOfElim
      <3> QED BY <3>2 DEF Config
    <2>2. p \in Attached \ Own /\ Wants(s, p, f) BY <1>2, <1>6, <2>1 DEF NetInv, WorkInv, BelongInv
    <2> QED BY <1>2, <1>3, <2>2 DEF Wants, Has, Wanted
  <1> QED BY <1>5, <1>6 DEF Right

\* What is configured on the interface that a server stops on has a change under way.
LEMMA SubnetStopSpares ==
  ASSUME NetInv, OwnInterfaces, IsFiniteSet(Providers), NEW f \in Families, Stop(f),
         NEW s \in DOMAIN conf[f], Nic[conf[f][s].prov] = Nic[Prov], ~interfaceBusy(Nic[Prov])
  PROVE  ~Settled(s)
  <1> SUFFICES ASSUME Settled(s) PROVE FALSE
    OBVIOUS
  <1>1. SubInv BY NetParts
  <1> PICK q : q = conf[f][s].prov OBVIOUS
  <1>2. s \in Subnets /\ q \in Providers
    <2>1. conf[f] \in MapOf(Subnets, Config) BY <1>1 DEF SubInv, DhcpTyped
    <2>2. s \in Subnets /\ conf[f][s] \in Config BY <2>1, MapOfElim
    <2> QED BY <2>2 DEF Config
  <1>3. Working(f, "stop") /\ task # None BY DEF Stop, Working, TaskAt
  <1>4. Sub \in Subnets /\ Prov \in Providers /\ Busy(Sub, Prov) BY <1>1, <1>3, TaskItem
  <1>5. Prov \in Attached \ Own
    BY <1>3, <1>4 DEF NetInv, WorkInv, ReadInv, FitInv, Working, TaskAt
  <1>6. /\ Sub \notin DOMAIN conf[f]
        /\ \A t \in Subnets \ {Sub} : Has(t, Prov) /\ f \in lister[t].fams => Coming(t, Prov)
    BY <1>3, <1>4 DEF NetInv, WorkInv, ReadyInv
  <1>7. s # Sub BY <1>6
  <1>8. /\ \A p : ~Coming(s, p) /\ ~Going(s, p)
        /\ ~Bringing(s, f) /\ ~Ending(s, q, f)
    BY <1>1, <1>2, SettledQuiet
  <1>9. q \in Attached \ Own /\ Has(s, q) /\ f \in lister[s].fams
    BY <1>2, <1>8 DEF NetInv, WorkInv, BelongInv, Wants
  <1>10. q = Prov BY <1>1, <1>5, <1>9, AloneOnInterface
  <1> QED BY <1>2, <1>6, <1>7, <1>8, <1>9, <1>10

LEMMA ServiceStopSpares ==
  ASSUME NetInv, Foreign, OwnInterfaces, IsFiniteSet(Providers), NEW f \in Families, SvcStop(f),
         NEW s \in DOMAIN conf[f], Nic[conf[f][s].prov] = Nic[svcTask.prov],
         ~interfaceBusy(Nic[svcTask.prov])
  PROVE  ~Settled(s)
  <1> SUFFICES ASSUME Settled(s) PROVE FALSE
    OBVIOUS
  <1>1. SvcInv /\ SubInv BY NetParts
  <1> PICK q : q = conf[f][s].prov OBVIOUS
  <1>2. s \in Subnets /\ q \in Providers
    <2>1. conf[f] \in MapOf(Subnets, Config) BY <1>1 DEF SubInv, DhcpTyped
    <2>2. s \in Subnets /\ conf[f][s] \in Config BY <2>1, MapOfElim
    <2> QED BY <2>2 DEF Config
  <1>3. svcTask # None /\ svcTask \in RemoveTask /\ svcTask.step = "stop" /\ f = Head(svcTask.fams)
    BY <1>1, SvcAtType DEF SvcStop, SvcWorking, SvcAt
  <1>4. svcTask.ev.op = "DELETE" BY <1>1, <1>3 DEF SvcInv, SvcTaskTyped
  <1>5. svcTask.prov \in Attached \ Own BY <1>3, <1>4, RemovalFacts DEF Attached
  <1>6. /\ svcTask.sub \notin DOMAIN conf[f]
        /\ \A t \in Subnets \ {svcTask.sub} : ~(Has(t, svcTask.prov) /\ f \in lister[t].fams)
    BY <1>3, <1>4 DEF NetInv, WithdrawInv
  <1>7. s # svcTask.sub BY <1>6
  <1>8. /\ \A p : ~Coming(s, p) /\ ~Going(s, p)
        /\ ~Bringing(s, f) /\ ~Ending(s, q, f)
    BY <1>1, <1>2, SettledQuiet
  <1>9. q \in Attached \ Own /\ Has(s, q) /\ f \in lister[s].fams
    BY <1>2, <1>8 DEF NetInv, WorkInv, BelongInv, Wants
  <1>10. q = svcTask.prov BY <1>1, <1>5, <1>9, AloneOnInterface
  <1> QED BY <1>2, <1>6, <1>7, <1>9, <1>10

LEMMA SystemStopSpares ==
  ASSUME NetInv, Foreign, OwnInterfaces, IsFiniteSet(Providers), [SystemNext]_allVars
  PROVE  \A f \in Families : \A nic \in up[f] \ up'[f] : \A s \in DOMAIN conf[f] :
           Nic[conf[f][s].prov] = nic => ~Settled(s)
  <1> SUFFICES ASSUME NEW f \in Families, NEW nic \in up[f] \ up'[f], NEW s \in DOMAIN conf[f],
                      Nic[conf[f][s].prov] = nic
               PROVE  ~Settled(s)
    OBVIOUS
  <1>1. SubInv BY NetParts
  <1>2. up' # up OBVIOUS
  <1>3. CASE SubnetSteps
    <2>1. Next BY <1>3 DEF SubnetSteps, Next
    <2>2. Stop(f) /\ nic = Nic[Prov] /\ ~interfaceBusy(nic) BY <1>1, <2>1, DownByStop
    <2> QED BY <2>2, SubnetStopSpares
  <1>4. CASE ~SubnetSteps
    <2>1. SvcWorker
      BY <1>2, <1>4 DEF SystemNext, SubnetEdit, Edit, ServiceEdit, SvcEdit, SvcDeliver, SvcRetryTimer,
         allVars, subnetVars, dhcp
    <2>2. PICK g \in Families : SvcStop(g)
      BY <1>2, <2>1 DEF SvcWorker, SvcSkip, SvcStore, SvcList, SvcNotify, SvcNotified, SvcDelete,
         SvcPick, SvcWithdraw, SvcStopFails, SvcReport, SvcRemove, subnetVars, dhcp
    <2>3. up \in [Families -> SUBSET Range(Nic)] BY <1>1 DEF SubInv, DhcpTyped
    <2>4. up' = IF interfaceBusy(Nic[svcTask.prov]) THEN up
                ELSE [up EXCEPT ![g] = @ \ {Nic[svcTask.prov]}]
      BY <2>2 DEF SvcStop, StopServer
    <2>5. g = f /\ nic = Nic[svcTask.prov] /\ ~interfaceBusy(nic) BY <2>3, <2>4
    <2> QED BY <2>2, <2>5, ServiceStopSpares
  <1> QED BY <1>3, <1>4

\* When no change of a Service is under way and nothing is under way about a subnet,
\* it is served as it asks on the networks there are by then: one that looked its
\* network up just before a Service stored it or changed its addresses was told, and
\* one whose network went has no configuration, although another worker withdrew it.
\* Edits wait for each other, the controller's own networks have their own interfaces,
\* a Service keeps its annotation while it has one, and annotations are written in full
\* and name no provider of OVN itself.  Subnets move between providers.
THEOREM NetworksServedTheorem ==
  ASSUME EditsWait, OwnInterfaces, IsFiniteSet(Providers), IsFiniteSet(Services),
         MappedMap = EmptyMap, KeepsAnnotation, Foreign, InFull
  PROVE  SystemSpec => []NetworksServed
  <1>1. SvcInit => NetInv BY NetInit
  <1>2. NetInv /\ [SystemNext]_allVars => NetInv' BY NetStep
  <1> QED BY <1>1, <1>2, NetServed, PTL DEF SystemSpec

\* Under the same assumptions a server that stops takes no subnet down with it,
\* whichever of the two workers stops it: HandlerDelete, which removes a network, or
\* the subnet worker, when a subnet leaves its network.
THEOREM ServicesStopTheirOwn ==
  ASSUME EditsWait, OwnInterfaces, IsFiniteSet(Providers), IsFiniteSet(Services),
         MappedMap = EmptyMap, KeepsAnnotation, Foreign, InFull
  PROVE  SystemSpec => NoCollateralStop
  <1>1. SvcInit => NetInv BY NetInit
  <1>2. NetInv /\ [SystemNext]_allVars => NetInv' BY NetStep
  <1>3. NetInv /\ [SystemNext]_allVars =>
          [\A f \in Families : \A nic \in up[f] \ up'[f] : \A s \in DOMAIN conf[f] :
             Nic[conf[f][s].prov] = nic => ~Settled(s)]_vars
    BY SystemStopSpares
  <1> QED BY <1>1, <1>2, <1>3, PTL DEF SystemSpec, NoCollateralStop
=============================================================================
