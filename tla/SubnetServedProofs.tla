------------------------- MODULE SubnetServedProofs -------------------------
(***************************************************************************)
(* Theorems about what SubnetController serves, for every set of subnets,  *)
(* networks and families and every bound: a settled subnet is served, no   *)
(* server is left over, reported wrongly or pulled away from a subnet.     *)
(*                                                                         *)
(* They speak of edits that wait (EditsWait), since SubnetReordered shows  *)
(* what happens to others.                                                 *)
(***************************************************************************)
EXTENDS SubnetControllerProofs

(***************************************************************************)
(* The vocabulary: what is due about a subnet, and what the worker is      *)
(* doing about it.                                                         *)
(***************************************************************************)
Item(s, op, p) == [sub |-> s, op |-> op, prov |-> p]
Raised(n) == ToSet(EventsOf(n))

\* The event waits in the queue, or will when the informer has told the handler.
Due(e) == (\E n \in ToSet(notes) : e \in Raised(n)) \/ e \in Waiting(queue)
Doing(e) == task # None /\ task.ev = e
Busy(s, p) == task # None /\ Sub = s /\ Prov = p

Coming(s, p) == Due(Item(s, "ADD", p)) \/ Due(Item(s, "UPDATE", p))
Going(s, p) == Due(Item(s, "DELETE", p))

Has(s, p) == lister[s] # None /\ lister[s].on /\ lister[s].prov = p

\* The controller serves family f on the network of p.
Serves(p, f) == p \in Attached \ Own /\ f \in DOMAIN GetNetworkStatus(p)

\* The worker has still to deal with f, or will try its item again.
Handling(f) == task.failed \/ f \in ToSet(task.todo)
Bringing(s, f) == task # None /\ Sub = s /\ task.ev.op # "DELETE" /\ Handling(f)
Ending(s, p, f) == Doing(Item(s, "DELETE", p)) /\ f \in ToSet(task.todo)

(***************************************************************************)
(* The parts of the invariant that hold however often a server fails.      *)
(***************************************************************************)
\* What is due about a subnet fits it: it is to be served under the provider of its
\* ADD and UPDATE events, and no longer under that of a DELETE.
EventsInv ==
  \A s \in Subnets, p \in Providers :
    /\ \A op \in {"ADD", "UPDATE"} : Due(Item(s, op, p)) \/ Doing(Item(s, op, p)) =>
         lister[s] # None /\ lister[s].prov = p /\ p \notin Own
    /\ Going(s, p) \/ Doing(Item(s, "DELETE", p)) => p \notin Own /\ ~Has(s, p)

\* What the worker has read is current, or its subnet comes up for another turn.
TaskInv ==
  \A s \in Subnets, p \in Providers : Busy(s, p) =>
    /\ task.ev.op # "DELETE" => Has(s, p) /\ (task.spec = lister[s] \/ Coming(s, p))
    /\ task.ev.op = "DELETE" => ~task.failed
    /\ task.step # "look" => p \in Attached /\ task.net = GetNetworkStatus(p)

\* Before it starts a server the subnet is configured; before it stops one nobody
\* needs it, unless a subnet that does has its turn later.
StepInv ==
  \A s \in Subnets, p \in Providers, f \in Families : Busy(s, p) =>
    /\ Working(f, "serve") =>
         /\ Needed(f) /\ f \in DOMAIN task.net
         /\ s \in DOMAIN conf[f] /\ conf[f][s] = Configuration(f)
    /\ Working(f, "stop") =>
         /\ ~Needed(f) /\ s \notin DOMAIN conf[f]
         /\ \A t \in Subnets \ {s} : Has(t, p) /\ f \in lister[t].fams => Coming(t, p)

Kept(s, p, f) == Has(s, p) /\ (f \in lister[s].fams \/ Coming(s, p) \/ Bringing(s, f))

\* A configuration is one the subnet asks for, or about to be taken away.
ConfInv ==
  \A f \in Families, s \in Subnets, p \in Providers :
    s \in DOMAIN conf[f] /\ conf[f][s].prov = p =>
      Serves(p, f) /\ (Kept(s, p, f) \/ Going(s, p) \/ Ending(s, p, f))

\* Some subnet uses the provider, or its last user is about to leave.
Held(p, f) ==
  \/ \E s \in Subnets : Going(s, p) \/ (Has(s, p) /\ (f \in lister[s].fams \/ Coming(s, p)))
  \/ task # None /\ Prov = p /\ Handling(f)

UpInv ==
  \A f \in Families : \A nic \in up[f] : \E p \in Providers :
    Serves(p, f) /\ Nic[p] = nic /\ (interfaceBusy(nic) \/ Held(p, f))

ServeInv == SubInv /\ EventsInv /\ TaskInv /\ StepInv /\ ConfInv /\ UpInv

-----------------------------------------------------------------------------
(***************************************************************************)
(* The events a change raises.                                             *)
(***************************************************************************)
LEMMA NewEventsSet ==
  ASSUME NEW s \in Subnets, NEW spec \in SubnetSpec, NEW op \in {"ADD", "UPDATE", "DELETE"}
  PROVE  /\ NewEvents(s, spec, op) \in Seq(Event)
         /\ Len(NewEvents(s, spec, op)) <= 1 /\ Len(NewEvents(s, spec, op)) <= 2
         /\ ToSet(NewEvents(s, spec, op)) = IF spec.prov \in Own THEN {} ELSE {Item(s, op, spec.prov)}
  <1>1. Item(s, op, spec.prov) \in Event BY DEF Item, Event, SubnetSpec
  <1>2. CASE spec.prov \in Own
    BY <1>2 DEF NewEvents, filterSubnetProvider, ToSet
  <1>3. CASE spec.prov \notin Own
    <2>1. NewEvents(s, spec, op) = <<Item(s, op, spec.prov)>>
      BY <1>3 DEF NewEvents, filterSubnetProvider, Item
    <2>2. ToSet(<<Item(s, op, spec.prov)>>) = {Item(s, op, spec.prov)} BY DEF ToSet
    <2> QED BY <1>1, <1>3, <2>1, <2>2
  <1> QED BY <1>2, <1>3

\* The events of a change, as a set: at most one for what the subnet was and one for
\* what it is now.
LEMMA RaisedSet ==
  ASSUME NEW n \in Note, n.old # n.new
  PROVE  /\ EventsOf(n) \in Seq(Event) /\ Len(EventsOf(n)) <= 2
         /\ Raised(n) =
              (IF /\ n.old # None /\ n.old.prov \notin Own
                  /\ \/ n.new = None
                     \/ n.new # None /\ n.old.on /\ ~n.new.on /\ n.old.prov = n.new.prov
                     \/ n.new # None /\ n.old.prov # n.new.prov /\ (n.old.on \/ ~n.new.on)
               THEN {Item(n.sub, "DELETE", n.old.prov)} ELSE {})
              \cup
              (IF /\ n.new # None /\ n.new.prov \notin Own
                  /\ \/ n.old = None /\ n.new.on
                     \/ n.old # None /\ (n.old.prov # n.new.prov \/ (~n.old.on /\ n.new.on))
               THEN {Item(n.sub, "ADD", n.new.prov)} ELSE {})
              \cup
              (IF /\ n.new # None /\ n.new.prov \notin Own
                  /\ n.old # None /\ n.old.on = n.new.on /\ n.old.prov = n.new.prov
               THEN {Item(n.sub, "UPDATE", n.new.prov)} ELSE {})
  <1>1. n.sub \in Subnets /\ n.old \in SubnetSpec \cup {None} /\ n.new \in SubnetSpec \cup {None}
    BY DEF Note
  <1>2. \A op \in {"ADD", "UPDATE", "DELETE"}, spec \in SubnetSpec :
          /\ NewEvents(n.sub, spec, op) \in Seq(Event)
          /\ Len(NewEvents(n.sub, spec, op)) <= 1 /\ Len(NewEvents(n.sub, spec, op)) <= 2
          /\ ToSet(NewEvents(n.sub, spec, op))
               = IF spec.prov \in Own THEN {} ELSE {Item(n.sub, op, spec.prov)}
    BY <1>1, NewEventsSet
  <1>3. ToSet(<<>>) = {} BY DEF ToSet
  <1>4. CASE n.old = None
    <2>1. n.new \in SubnetSpec BY <1>1, <1>4
    <2>2. CASE n.new.on
      <3>1. EventsOf(n) = NewEvents(n.sub, n.new, "ADD") BY <1>4, <2>2 DEF EventsOf
      <3> QED BY <1>2, <1>4, <2>1, <2>2, <3>1 DEF Raised
    <2>3. CASE ~n.new.on
      <3>1. EventsOf(n) = <<>> BY <1>4, <2>3 DEF EventsOf
      <3>2. Len(<<>>) <= 2 /\ <<>> \in Seq(Event) OBVIOUS
      <3> QED BY <1>3, <1>4, <2>3, <3>1, <3>2 DEF Raised
    <2> QED BY <2>2, <2>3
  <1>5. CASE n.old # None /\ n.new = None
    <2>1. n.old \in SubnetSpec BY <1>1, <1>5
    <2> QED BY <1>2, <1>5, <2>1 DEF EventsOf, Raised
  <1>6. CASE n.old # None /\ n.new # None
    <2>1. n.old \in SubnetSpec /\ n.new \in SubnetSpec BY <1>1, <1>6
    <2>2. EventsOf(n) = OnUpdate(n.sub, n.old, n.new) BY <1>6 DEF EventsOf
    <2>3. CASE n.old.on = n.new.on /\ n.old.prov = n.new.prov
      <3>1. n.old.rev # n.new.rev \/ n.old.fams # n.new.fams BY <2>1, <2>3 DEF SubnetSpec
      <3>2. EventsOf(n) = NewEvents(n.sub, n.new, "UPDATE") BY <2>2, <2>3, <3>1 DEF OnUpdate
      <3> QED BY <1>2, <1>6, <2>1, <2>3, <3>2 DEF Raised
    <2>4. CASE ~n.old.on /\ n.new.on
      <3>1. EventsOf(n) = NewEvents(n.sub, n.new, "ADD") BY <2>2, <2>4 DEF OnUpdate
      <3> QED BY <1>2, <1>6, <2>1, <2>4, <3>1 DEF Raised
    <2>5. CASE (n.old.on \/ ~n.new.on) /\ n.old.prov # n.new.prov
      <3> DEFINE del == NewEvents(n.sub, n.old, "DELETE")
                 add == NewEvents(n.sub, n.new, "ADD")
      <3>1. EventsOf(n) = del \o add BY <2>2, <2>5 DEF OnUpdate
      <3>2. /\ del \in Seq(Event) /\ Len(del) <= 1 /\ add \in Seq(Event) /\ Len(add) <= 1
            /\ ToSet(del) = (IF n.old.prov \in Own THEN {} ELSE {Item(n.sub, "DELETE", n.old.prov)})
            /\ ToSet(add) = (IF n.new.prov \in Own THEN {} ELSE {Item(n.sub, "ADD", n.new.prov)})
        BY <1>2, <2>1
      <3> HIDE DEF del, add
      <3>3. /\ ToSet(del \o add) = ToSet(del) \cup ToSet(add) /\ Len(del \o add) = Len(del) + Len(add)
            /\ del \o add \in Seq(Event)
        BY <3>2, ConcatSet
      <3>4. Len(del \o add) <= 2
        <4>1. Len(del) \in Nat /\ Len(add) \in Nat BY <3>2
        <4> QED BY <3>2, <3>3, <4>1
      <3> QED BY <1>6, <2>5, <3>1, <3>2, <3>3, <3>4 DEF Raised
    <2>6. CASE n.old.on /\ ~n.new.on /\ n.old.prov = n.new.prov
      <3>1. EventsOf(n) = NewEvents(n.sub, n.new, "DELETE") BY <2>2, <2>6 DEF OnUpdate
      <3> QED BY <1>2, <1>6, <2>1, <2>6, <3>1 DEF Raised
    <2>7. n.old.on \in BOOLEAN /\ n.new.on \in BOOLEAN BY <2>1 DEF SubnetSpec
    <2> QED BY <2>3, <2>4, <2>5, <2>6, <2>7
  <1> QED BY <1>4, <1>5, <1>6

-----------------------------------------------------------------------------
(***************************************************************************)
(* What the steps do to what is due.                                       *)
(***************************************************************************)
LEMMA InformerDue ==
  ASSUME SubInv, Deliver \/ \E e \in queue.later : RetryTimer(e)
  PROVE  \A e : Due(e)' <=> Due(e)
  <1>1. CASE Deliver
    <2> DEFINE n == Head(notes)
    <2>1. notes \in Seq(Note) /\ notes # <<>> BY <1>1 DEF Deliver, SubInv, ListTyped
    <2>2. n \in Note /\ n.old # n.new BY <2>1 DEF SubInv, ListTyped
    <2>3. ToSet(notes) = {n} \cup ToSet(notes') BY <1>1, <2>1, TailSet DEF Deliver
    <2>4. queue' = AddEach(queue, EventsOf(n)) BY <1>1 DEF Deliver
    <2> HIDE DEF n
    <2>5. EventsOf(n) \in Seq(Event) /\ Len(EventsOf(n)) <= 2 BY <2>2, RaisedSet
    <2>6. queue'.dirty = queue.dirty \cup Raised(n) /\ queue'.later = queue.later
      BY <2>4, <2>5, AddEachSets DEF SubInv, QueueTyped, Raised
    <2>7. \A x : Raised(x)' = Raised(x) OBVIOUS
    <2> QED BY <2>3, <2>6 DEF Due, Waiting
  <1>2. CASE \E e \in queue.later : RetryTimer(e)
    <2>1. PICK e \in queue.later : RetryTimer(e) BY <1>2
    <2>2. queue'.dirty = queue.dirty \cup {e} /\ queue'.later = queue.later \ {e}
      BY <2>1, ExpireSets DEF RetryTimer, SubInv, QueueTyped
    <2> QED BY <2>1, <2>2 DEF Due, Waiting, RetryTimer
  <1> QED BY <1>1, <1>2

\* An edit adds the events of its note.
LEMMA EditDue ==
  ASSUME SubInv, NEW s \in Subnets, NEW new \in Specs[s] \cup {None}, Edit(s, new)
  PROVE  LET n == [sub |-> s, old |-> lister[s], new |-> new] IN
           n \in Note /\ n.old # n.new /\ \A e : Due(e)' <=> Due(e) \/ e \in Raised(n)
  <1> DEFINE n == [sub |-> s, old |-> lister[s], new |-> new]
  <1>1. n \in Note /\ n.old # n.new BY EditsAssumption DEF Note, Edit, SubInv, ListTyped
  <1>2. notes' = Append(notes, n) /\ queue' = queue BY DEF Edit
  <1> HIDE DEF n
  <1>3. ToSet(notes') = ToSet(notes) \cup {n}
    <2>1. notes' = notes \o <<n>> BY <1>1, <1>2 DEF SubInv, ListTyped
    <2> QED BY <1>1, <2>1, NoteSet DEF SubInv, ListTyped
  <1>4. \A e : Due(e)' <=> Due(e) \/ e \in Raised(n) BY <1>2, <1>3 DEF Due
  <1> QED BY <1>1, <1>4 DEF n

\* Taking an item leaves the others.
LEMMA TakeDue ==
  ASSUME SubInv, Take
  PROVE  /\ NextEvent \in Event /\ Due(NextEvent)
         /\ \A e : e # NextEvent => (Due(e)' <=> Due(e))
         /\ \A e : Due(e)' => Due(e)
  <1>1. QueueOK(queue, Event) /\ queue.order # <<>> /\ NextEvent \in Event
    BY IdleType DEF Take, SubInv, QueueTyped
  <1>2. /\ NextEvent \in queue.dirty /\ queue'.dirty = queue.dirty \ {NextEvent}
        /\ queue'.later = queue.later
    BY <1>1, GetSets DEF Take, NextEvent
  <1> QED BY <1>1, <1>2 DEF Due, Waiting, Take

\* An item that is skipped is due again if its subnet could not be read.
LEMMA SkipDue ==
  ASSUME SubInv, Skip
  PROVE  /\ NextEvent \in Event
         /\ \A e : e # NextEvent \/ SyncFails(NextEvent) => (Due(e)' <=> Due(e))
         /\ \A e : Due(e)' => Due(e)
  <1> DEFINE failed == SyncFails(NextEvent)
  <1>1. /\ QueueOK(queue, Event) /\ queue.order # <<>> /\ NextEvent \in Event
        /\ QueueOK(Get(queue), Event)
    BY IdleType DEF Skip, SubInv, QueueTyped
  <1>2. /\ NextEvent \in queue.dirty /\ Get(queue).dirty = queue.dirty \ {NextEvent}
        /\ Get(queue).later = queue.later
    BY <1>1, GetSets DEF NextEvent
  <1>3. failed \in BOOLEAN /\ queue' = Handled(Get(queue), NextEvent, failed)
    BY DEF SyncFails, Skip
  <1> HIDE DEF failed
  <1>4. /\ queue'.dirty = queue.dirty \ {NextEvent}
        /\ queue'.later = queue.later \cup (IF failed THEN {NextEvent} ELSE {})
    BY <1>1, <1>2, <1>3, HandledSets
  <1>5. notes' = notes BY DEF Skip
  <1> QED BY <1>1, <1>2, <1>4, <1>5 DEF Due, Waiting, failed

\* The item the worker is done with is due again if it failed.
LEMMA FinishDue ==
  ASSUME SubInv, NEW failed \in BOOLEAN, queue' = Handled(queue, task.ev, failed), notes' = notes
  PROVE  \A e : Due(e)' <=> Due(e) \/ (failed /\ e = task.ev)
  <1>1. /\ queue'.dirty = queue.dirty
        /\ queue'.later = queue.later \cup (IF failed THEN {task.ev} ELSE {})
    BY HandledSets DEF SubInv, QueueTyped
  <1> QED BY <1>1 DEF Due, Waiting

\* Nothing is due about a settled subnet, and the worker is busy with another.
LEMMA SettledRests ==
  ASSUME SubInv, NEW s, Settled(s)
  PROVE  /\ \A op, p : ~Due(Item(s, op, p)) /\ ~Doing(Item(s, op, p))
         /\ task # None => Sub # s
  <1>1. \A n \in ToSet(notes) : n \in Note /\ n.old # n.new /\ n.sub # s
    BY DEF Settled, SubInv, ListTyped, ToSet
  <1>2. \A n \in ToSet(notes) : \A e \in Raised(n) : e.sub # s
    <2> SUFFICES ASSUME NEW n \in ToSet(notes), NEW e \in Raised(n) PROVE e.sub # s
      OBVIOUS
    <2>1. \E op, p : e = Item(n.sub, op, p) BY <1>1, RaisedSet
    <2> QED BY <1>1, <2>1 DEF Item
  <1>3. \A e \in queue.dirty \cup queue.later \cup queue.running : e.sub # s BY DEF Settled, Pending
  <1>4. task # None => task.ev \in queue.running BY DEF SubInv, QueueTyped
  <1>5. \A op, p : Item(s, op, p).sub = s BY DEF Item
  <1> QED BY <1>2, <1>3, <1>4, <1>5 DEF Due, Doing, Waiting, Sub

-----------------------------------------------------------------------------
(***************************************************************************)
(* The informer, the event handler and the pod worker.                     *)
(***************************************************************************)
LEMMA ServeKept ==
  ASSUME ServeInv, SubInv', UNCHANGED <<lister, task, infoMap, conf, up>>, \A e : Due(e)' <=> Due(e)
  PROVE  ServeInv'
  <1>1. /\ \A s, p : /\ Coming(s, p)' <=> Coming(s, p)
                     /\ Going(s, p)' <=> Going(s, p)
                     /\ Has(s, p)' <=> Has(s, p)
                     /\ Busy(s, p)' <=> Busy(s, p)
        /\ \A e : Doing(e)' <=> Doing(e)
    BY DEF Coming, Going, Has, Busy, Doing, Sub, Prov
  <1>2. /\ \A p, f : Serves(p, f)' <=> Serves(p, f)
        /\ \A nic : interfaceBusy(nic)' <=> interfaceBusy(nic)
        /\ \A p : (p \in Attached)' <=> p \in Attached
        /\ \A p : GetNetworkStatus(p)' = GetNetworkStatus(p)
    BY DEF Serves, interfaceBusy, Attached, GetNetworkStatus
  <1>3. /\ \A f : Handling(f)' <=> Handling(f)
        /\ \A s, f : Bringing(s, f)' <=> Bringing(s, f)
        /\ \A s, p, f : Ending(s, p, f)' <=> Ending(s, p, f)
    BY <1>1 DEF Handling, Bringing, Ending, Sub
  <1>4. /\ \A f, step : Working(f, step)' <=> Working(f, step)
        /\ \A f : (Needed(f)' <=> Needed(f)) /\ Configuration(f)' = Configuration(f)
    BY DEF Working, TaskAt, Needed, Configuration, Prov
  <1>5. EventsInv' BY <1>1 DEF ServeInv, EventsInv
  <1>6. TaskInv' BY <1>1, <1>2 DEF ServeInv, TaskInv
  <1>7. StepInv' BY <1>1, <1>4 DEF ServeInv, StepInv
  <1>8. ConfInv' BY <1>1, <1>2, <1>3 DEF ServeInv, ConfInv, Kept
  <1>9. \A p, f : Held(p, f)' <=> Held(p, f) BY <1>1, <1>3 DEF Held, Prov
  <1>10. UpInv' BY <1>2, <1>9 DEF ServeInv, UpInv
  <1> QED BY <1>5, <1>6, <1>7, <1>8, <1>10 DEF ServeInv

\* What an edit raises fits what the subnet is now, tells of a provider that it no
\* longer has, and of the one that it has.
LEMMA RaisedFits ==
  ASSUME NEW n \in Note, n.old # n.new
  PROVE  /\ \A t, op, p : Item(t, op, p) \in Raised(n) => t = n.sub /\ p \notin Own
         /\ \A t, p : Item(t, "ADD", p) \in Raised(n) \/ Item(t, "UPDATE", p) \in Raised(n) =>
              n.new # None /\ n.new.prov = p
         /\ \A t, p : Item(t, "DELETE", p) \in Raised(n) =>
              ~(n.new # None /\ n.new.on /\ n.new.prov = p)
         /\ n.new # None /\ n.new.on /\ n.new.prov \notin Own =>
              \/ Item(n.sub, "ADD", n.new.prov) \in Raised(n)
              \/ Item(n.sub, "UPDATE", n.new.prov) \in Raised(n)
         /\ n.old # None /\ n.old.on /\ n.old.prov \notin Own =>
              \/ n.new # None /\ n.new.on /\ n.new.prov = n.old.prov
              \/ Item(n.sub, "DELETE", n.old.prov) \in Raised(n)
  <1> DEFINE del == /\ n.old # None /\ n.old.prov \notin Own
                    /\ \/ n.new = None
                       \/ n.new # None /\ n.old.on /\ ~n.new.on /\ n.old.prov = n.new.prov
                       \/ n.new # None /\ n.old.prov # n.new.prov /\ (n.old.on \/ ~n.new.on)
             add == /\ n.new # None /\ n.new.prov \notin Own
                    /\ \/ n.old = None /\ n.new.on
                       \/ n.old # None /\ (n.old.prov # n.new.prov \/ (~n.old.on /\ n.new.on))
             upd == /\ n.new # None /\ n.new.prov \notin Own
                    /\ n.old # None /\ n.old.on = n.new.on /\ n.old.prov = n.new.prov
  <1>1. Raised(n) = (IF del THEN {Item(n.sub, "DELETE", n.old.prov)} ELSE {})
                      \cup (IF add THEN {Item(n.sub, "ADD", n.new.prov)} ELSE {})
                      \cup (IF upd THEN {Item(n.sub, "UPDATE", n.new.prov)} ELSE {})
    BY RaisedSet
  <1>2. \A t, op, p, u, op2, q : Item(t, op, p) = Item(u, op2, q) => t = u /\ op = op2 /\ p = q
    <2> SUFFICES ASSUME NEW t, NEW op, NEW p, NEW u, NEW op2, NEW q,
                        Item(t, op, p) = Item(u, op2, q)
                 PROVE  t = u /\ op = op2 /\ p = q
      OBVIOUS
    <2>1. /\ Item(t, op, p).sub = t /\ Item(t, op, p).op = op /\ Item(t, op, p).prov = p
          /\ Item(u, op2, q).sub = u /\ Item(u, op2, q).op = op2 /\ Item(u, op2, q).prov = q
      BY DEF Item
    <2> QED BY <2>1
  <1>3. "ADD" # "UPDATE" /\ "ADD" # "DELETE" /\ "UPDATE" # "DELETE" OBVIOUS
  <1>4. \A t, op, p :
          Item(t, op, p) \in Raised(n) <=>
            /\ t = n.sub
            /\ \/ del /\ op = "DELETE" /\ p = n.old.prov
               \/ add /\ op = "ADD" /\ p = n.new.prov
               \/ upd /\ op = "UPDATE" /\ p = n.new.prov
    <2> HIDE DEF del, add, upd
    <2> QED BY <1>1, <1>2
  <1>5. /\ n.old # None => n.old.on \in BOOLEAN
        /\ n.new # None => n.new.on \in BOOLEAN
    BY DEF Note, SubnetSpec
  <1>6. \A t, op, p : Item(t, op, p) \in Raised(n) => t = n.sub /\ p \notin Own BY <1>4
  <1>7. \A t, p : Item(t, "ADD", p) \in Raised(n) \/ Item(t, "UPDATE", p) \in Raised(n) =>
          n.new # None /\ n.new.prov = p
    BY <1>3, <1>4
  <1>8. \A t, p : Item(t, "DELETE", p) \in Raised(n) => ~(n.new # None /\ n.new.on /\ n.new.prov = p)
    BY <1>3, <1>4
  <1>9. ASSUME n.new # None, n.new.on, n.new.prov \notin Own PROVE add \/ upd BY <1>5, <1>9
  <1>10. ASSUME n.old # None, n.old.on, n.old.prov \notin Own,
                ~(n.new # None /\ n.new.on /\ n.new.prov = n.old.prov)
         PROVE  del
    BY <1>5, <1>10
  <1> HIDE DEF del, add, upd
  <1> QED BY <1>4, <1>6, <1>7, <1>8, <1>9, <1>10

\* What an edit changes for the invariant's parts.
LEMMA EditFacts ==
  ASSUME SubInv, EditsWait, NEW s \in Subnets, NEW new \in Specs[s] \cup {None}, Edit(s, new)
  PROVE  LET n == [sub |-> s, old |-> lister[s], new |-> new] IN
         /\ n \in Note /\ n.old # n.new
         /\ \A e : Due(e)' <=> Due(e) \/ e \in Raised(n)
         /\ \A t \in Subnets : lister'[t] = IF t = s THEN new ELSE lister[t]
         /\ \A t \in Subnets : \A p : t # s => (Has(t, p)' <=> Has(t, p))
         /\ \A p : Has(s, p)' <=> new # None /\ new.on /\ new.prov = p
         /\ \/ /\ \A op, p : ~Due(Item(s, op, p)) /\ ~Doing(Item(s, op, p))
               /\ \A p : ~Busy(s, p)
            \/ /\ lister[s] # None /\ new # None /\ lister[s].on /\ new.on
               /\ lister[s].prov = new.prov
  <1> DEFINE n == [sub |-> s, old |-> lister[s], new |-> new]
  <1>1. n \in Note /\ n.old # n.new /\ \A e : Due(e)' <=> Due(e) \/ e \in Raised(n) BY EditDue
  <1>2. \A t \in Subnets : lister'[t] = IF t = s THEN new ELSE lister[t]
    BY DEF Edit, SubInv, ListTyped
  <1>3. /\ \A t \in Subnets : \A p : t # s => (Has(t, p)' <=> Has(t, p))
        /\ \A p : Has(s, p)' <=> new # None /\ new.on /\ new.prov = p
    BY <1>2 DEF Has
  <1>4. Settled(s) \/ Reconfigures(lister[s], new) BY DEF Edit
  <1>5. Settled(s) => /\ \A op, p : ~Due(Item(s, op, p)) /\ ~Doing(Item(s, op, p))
                      /\ \A p : ~Busy(s, p)
    BY SettledRests DEF Busy
  <1> QED BY <1>1, <1>2, <1>3, <1>4, <1>5 DEF Reconfigures

\* Steps that leave the networks alone leave what they serve alone.
LEMMA NetworksKept ==
  ASSUME UNCHANGED infoMap
  PROVE  /\ \A p, f : Serves(p, f)' <=> Serves(p, f)
         /\ \A nic : interfaceBusy(nic)' <=> interfaceBusy(nic)
         /\ \A p : (p \in Attached)' <=> p \in Attached
         /\ \A p : GetNetworkStatus(p)' = GetNetworkStatus(p)
  BY DEF Serves, interfaceBusy, Attached, GetNetworkStatus

LEMMA EditServe ==
  ASSUME ServeInv, EditsWait, NEW s \in Subnets, NEW new \in Specs[s] \cup {None}, Edit(s, new)
  PROVE  ServeInv'
  <1> DEFINE n == [sub |-> s, old |-> lister[s], new |-> new]
             Idle == /\ \A op, p : ~Due(Item(s, op, p)) /\ ~Doing(Item(s, op, p))
                     /\ \A p : ~Busy(s, p)
             Same == /\ lister[s] # None /\ new # None /\ lister[s].on /\ new.on
                     /\ lister[s].prov = new.prov
             R == Raised(n)
  <1>1. /\ n \in Note /\ n.old # n.new
        /\ \A e : Due(e)' <=> Due(e) \/ e \in R
        /\ \A t \in Subnets : lister'[t] = IF t = s THEN new ELSE lister[t]
        /\ \A t \in Subnets : \A p : t # s => (Has(t, p)' <=> Has(t, p))
        /\ \A p : Has(s, p)' <=> new # None /\ new.on /\ new.prov = p
        /\ Idle \/ Same
    BY EditFacts DEF ServeInv
  <1>2. n.sub = s /\ n.old = lister[s] /\ n.new = new OBVIOUS
  <1>3. /\ UNCHANGED <<infoMap, task, conf, up>>
        /\ \A e : Doing(e)' <=> Doing(e)
        /\ \A t, p : Busy(t, p)' <=> Busy(t, p)
    BY DEF Edit, dhcp, cache, Doing, Busy, Sub, Prov
  <1>4. SubInv /\ SubInv' BY EditStep DEF ServeInv
  <1> HIDE DEF n
  <1>5. /\ \A t, op, p : Item(t, op, p) \in R => t = s /\ p \notin Own
        /\ \A t, p : Item(t, "ADD", p) \in R \/ Item(t, "UPDATE", p) \in R => new # None /\ new.prov = p
        /\ \A t, p : Item(t, "DELETE", p) \in R => ~Has(s, p)'
        /\ \A p : Has(s, p)' /\ p \notin Own => Item(s, "ADD", p) \in R \/ Item(s, "UPDATE", p) \in R
        /\ \A p : Has(s, p) /\ p \notin Own => Has(s, p)' \/ Item(s, "DELETE", p) \in R
    BY <1>1, <1>2, RaisedFits DEF Has
  <1> HIDE DEF R, Idle
  <1>6. /\ \A t, p : Coming(t, p) => Coming(t, p)'
        /\ \A t, p : Going(t, p) => Going(t, p)'
        /\ \A p : Has(s, p)' /\ p \notin Own => Coming(s, p)'
        /\ \A p : Has(s, p) /\ p \notin Own => Has(s, p)' \/ Going(s, p)'
    BY <1>1, <1>5 DEF Coming, Going
  <1>7. Same => \A p : Has(s, p) <=> Has(s, p)' BY <1>1 DEF Has
  <1>8. EventsInv'
    <2> SUFFICES ASSUME NEW t \in Subnets, NEW p \in Providers
                 PROVE  /\ \A op \in {"ADD", "UPDATE"} :
                             Due(Item(t, op, p))' \/ Doing(Item(t, op, p))' =>
                               lister'[t] # None /\ lister'[t].prov = p /\ p \notin Own
                        /\ Going(t, p)' \/ Doing(Item(t, "DELETE", p))' => p \notin Own /\ ~Has(t, p)'
      BY DEF EventsInv
    <2>1. /\ \A op \in {"ADD", "UPDATE"} : Due(Item(t, op, p)) \/ Doing(Item(t, op, p)) =>
               lister[t] # None /\ lister[t].prov = p /\ p \notin Own
          /\ Going(t, p) \/ Doing(Item(t, "DELETE", p)) => p \notin Own /\ ~Has(t, p)
      BY DEF ServeInv, EventsInv
    <2>2. CASE t # s
      <3>1. \A op : ~(Item(t, op, p) \in R) BY <1>5, <2>2
      <3> QED BY <1>1, <1>3, <2>1, <2>2, <3>1 DEF Going
    <2>3. CASE t = s
      <3>1. \A op \in {"ADD", "UPDATE", "DELETE"} : Due(Item(s, op, p)) \/ Doing(Item(s, op, p)) => Same
        BY <1>1 DEF Idle
      <3>2. Same => lister'[s] # None /\ lister'[s].prov = lister[s].prov BY <1>1
      <3>3. \A op \in {"ADD", "UPDATE"} : Due(Item(s, op, p))' \/ Doing(Item(s, op, p))' =>
               lister'[s] # None /\ lister'[s].prov = p /\ p \notin Own
        <4> SUFFICES ASSUME NEW op \in {"ADD", "UPDATE"}, Due(Item(s, op, p))' \/ Doing(Item(s, op, p))'
                     PROVE  lister'[s] # None /\ lister'[s].prov = p /\ p \notin Own
          OBVIOUS
        <4>1. Due(Item(s, op, p)) \/ Doing(Item(s, op, p)) \/ Item(s, op, p) \in R BY <1>1, <1>3
        <4>2. CASE Due(Item(s, op, p)) \/ Doing(Item(s, op, p)) BY <2>1, <2>3, <3>1, <3>2, <4>2
        <4>3. CASE Item(s, op, p) \in R BY <1>1, <1>5, <4>3
        <4> QED BY <4>1, <4>2, <4>3
      <3>4. Going(s, p)' \/ Doing(Item(s, "DELETE", p))' => p \notin Own /\ ~Has(s, p)'
        BY <1>1, <1>3, <1>5, <1>7, <2>1, <2>3, <3>1 DEF Going
      <3> QED BY <2>3, <3>3, <3>4
    <2> QED BY <2>2, <2>3
  <1>9. TaskInv'
    <2> SUFFICES ASSUME NEW t \in Subnets, NEW p \in Providers, Busy(t, p)
                 PROVE  /\ task.ev.op # "DELETE" => Has(t, p)' /\ (task.spec = lister'[t] \/ Coming(t, p)')
                        /\ task.ev.op = "DELETE" => ~task.failed
                        /\ task.step # "look" => (p \in Attached)' /\ task.net = GetNetworkStatus(p)'
      BY <1>3 DEF TaskInv
    <2>1. /\ task.ev.op # "DELETE" => Has(t, p) /\ (task.spec = lister[t] \/ Coming(t, p))
          /\ task.ev.op = "DELETE" => ~task.failed
          /\ task.step # "look" => p \in Attached /\ task.net = GetNetworkStatus(p)
      BY DEF ServeInv, TaskInv
    <2>2. task.ev.op # "DELETE" => Has(t, p)' /\ (task.spec = lister'[t] \/ Coming(t, p)')
      <3>1. CASE t # s BY <1>1, <1>6, <2>1, <3>1
      <3>2. ASSUME t = s, task.ev.op # "DELETE" PROVE Has(t, p)' /\ Coming(t, p)'
        <4>1. Same BY <1>1, <3>2 DEF Idle
        <4>2. Has(s, p)' BY <1>7, <2>1, <3>2, <4>1
        <4>3. task.ev = Item(t, task.ev.op, p) /\ task.ev.op \in {"ADD", "UPDATE"}
          BY <1>4, <3>2 DEF SubInv, TaskTyped, Task, Event, Item, Busy, Sub, Prov
        <4>4. p \notin Own BY <4>3 DEF ServeInv, EventsInv, Doing, Busy
        <4> QED BY <1>6, <3>2, <4>2, <4>4
      <3> QED BY <3>1, <3>2
    <2> QED BY <1>3, <2>1, <2>2, NetworksKept
  <1>10. StepInv'
    <2> SUFFICES ASSUME NEW t \in Subnets, NEW p \in Providers, NEW f \in Families, Busy(t, p)'
                 PROVE  /\ Working(f, "serve")' =>
                             /\ Needed(f)' /\ f \in DOMAIN task'.net
                             /\ t \in DOMAIN conf'[f] /\ conf'[f][t] = Configuration(f)'
                        /\ Working(f, "stop")' =>
                             /\ ~Needed(f)' /\ t \notin DOMAIN conf'[f]
                             /\ \A u \in Subnets \ {t} : Has(u, p)' /\ f \in lister'[u].fams => Coming(u, p)'
      BY DEF StepInv
    <2>1. /\ Busy(t, p)
          /\ \A step : Working(f, step)' <=> Working(f, step)
          /\ (Needed(f)' <=> Needed(f)) /\ Configuration(f)' = Configuration(f)
      BY <1>3 DEF Working, TaskAt, Needed, Configuration, Prov
    <2>2. /\ Working(f, "serve") =>
               /\ Needed(f) /\ f \in DOMAIN task.net
               /\ t \in DOMAIN conf[f] /\ conf[f][t] = Configuration(f)
          /\ Working(f, "stop") =>
               /\ ~Needed(f) /\ t \notin DOMAIN conf[f]
               /\ \A u \in Subnets \ {t} : Has(u, p) /\ f \in lister[u].fams => Coming(u, p)
      BY <2>1 DEF ServeInv, StepInv
    <2>3. p \notin Own
      <3>1. task.ev = Item(t, task.ev.op, p) /\ task.ev.op \in {"ADD", "UPDATE", "DELETE"}
        BY <1>4, <2>1 DEF SubInv, TaskTyped, Task, Event, Item, Busy, Sub, Prov
      <3> QED BY <2>1, <3>1 DEF ServeInv, EventsInv, Doing, Busy
    <2>4. \A u \in Subnets : Has(u, p)' /\ f \in lister'[u].fams =>
            Coming(u, p)' \/ (Has(u, p) /\ f \in lister[u].fams /\ u # s)
      BY <1>1, <1>6, <2>3
    <2> QED BY <1>3, <1>6, <2>1, <2>2, <2>4
  <1>11. ConfInv'
    <2> SUFFICES ASSUME NEW f \in Families, NEW t \in Subnets, NEW p \in Providers,
                        t \in DOMAIN conf'[f], conf'[f][t].prov = p
                 PROVE  Serves(p, f)' /\ (Kept(t, p, f)' \/ Going(t, p)' \/ Ending(t, p, f)')
      BY DEF ConfInv
    <2>1. Serves(p, f) /\ (Kept(t, p, f) \/ Going(t, p) \/ Ending(t, p, f))
      BY <1>3 DEF ServeInv, ConfInv
    <2>2. p \notin Own BY <2>1 DEF Serves
    <2>3. (Bringing(t, f)' <=> Bringing(t, f)) /\ (Ending(t, p, f)' <=> Ending(t, p, f))
      BY <1>3 DEF Bringing, Ending, Handling, Sub
    <2>4. Kept(t, p, f) => Kept(t, p, f)' \/ Going(t, p)'
      BY <1>1, <1>6, <2>2, <2>3 DEF Kept
    <2> QED BY <1>3, <1>6, <2>1, <2>3, <2>4, NetworksKept
  <1>12. UpInv'
    <2> SUFFICES ASSUME NEW f \in Families, NEW nic \in up'[f]
                 PROVE  \E p \in Providers :
                          Serves(p, f)' /\ Nic[p] = nic /\ (interfaceBusy(nic)' \/ Held(p, f)')
      BY DEF UpInv
    <2>1. PICK p \in Providers : Serves(p, f) /\ Nic[p] = nic /\ (interfaceBusy(nic) \/ Held(p, f))
      BY <1>3 DEF ServeInv, UpInv
    <2>2. p \notin Own BY <2>1 DEF Serves
    <2>3. Handling(f)' <=> Handling(f) BY <1>3 DEF Handling
    <2>4. \A t \in Subnets : Going(t, p) \/ (Has(t, p) /\ (f \in lister[t].fams \/ Coming(t, p))) =>
            Going(t, p)' \/ (Has(t, p)' /\ (f \in lister'[t].fams \/ Coming(t, p)'))
      BY <1>1, <1>6, <2>2
    <2>5. Held(p, f) => Held(p, f)' BY <1>3, <2>3, <2>4 DEF Held, Prov
    <2> QED BY <1>3, <2>1, <2>5, NetworksKept
  <1> QED BY <1>4, <1>8, <1>9, <1>10, <1>11, <1>12 DEF ServeInv

-----------------------------------------------------------------------------
(***************************************************************************)
(* The worker takes, skips and finishes items.                             *)
(***************************************************************************)
\* The worker's item is about its subnet and provider.
LEMMA TaskItem ==
  ASSUME SubInv, task # None
  PROVE  /\ Sub \in Subnets /\ Prov \in Providers /\ task.ev.op \in {"ADD", "UPDATE", "DELETE"}
         /\ task.ev = Item(Sub, task.ev.op, Prov) /\ Doing(Item(Sub, task.ev.op, Prov))
         /\ Busy(Sub, Prov)
         /\ \A s, p : Busy(s, p) <=> s = Sub /\ p = Prov
  BY DEF SubInv, TaskTyped, Task, Event, Item, Doing, Busy, Sub, Prov

\* Without a task in the next state, only the events and what is up matter.
LEMMA IdleServe ==
  ASSUME SubInv', task' = None, EventsInv', ConfInv', UpInv'
  PROVE  ServeInv'
  BY DEF ServeInv, TaskInv, StepInv, Busy

\* Skipping an item keeps what a subnet with DHCP on has coming.
LEMMA SkipFacts ==
  ASSUME SubInv, Skip
  PROVE  /\ task = None /\ UNCHANGED <<lister, notes, task, infoMap, conf, up>>
         /\ SyncSkips(NextEvent) \/ SyncFails(NextEvent)
         /\ \A e : Due(e)' => Due(e)
         /\ \A s \in Subnets, p \in Providers :
              /\ Going(s, p)' <=> Going(s, p)
              /\ Coming(s, p)' => Coming(s, p)
              /\ Coming(s, p) /\ Has(s, p) => Coming(s, p)'
  <1> DEFINE e == NextEvent
  <1>1. /\ e \in Event /\ task = None
        /\ \A d : d # e \/ SyncFails(e) => (Due(d)' <=> Due(d))
        /\ \A d : Due(d)' => Due(d)
    BY SkipDue DEF Skip
  <1>2. SyncSkips(e) \/ SyncFails(e) BY DEF Skip
  <1>3. UNCHANGED <<lister, notes, task, infoMap, conf, up>> BY DEF Skip, dhcp, cache
  <1>4. ASSUME NEW s \in Subnets, NEW p \in Providers
        PROVE  /\ Going(s, p)' <=> Going(s, p)
               /\ Coming(s, p)' => Coming(s, p)
               /\ Coming(s, p) /\ Has(s, p) => Coming(s, p)'
    <2>1. Item(s, "DELETE", p) = e => SyncFails(e)
      BY <1>2 DEF SyncSkips, Item
    <2>2. ASSUME NEW op \in {"ADD", "UPDATE"}, Item(s, op, p) = e, Has(s, p) PROVE FALSE
      <3>1. e.sub = s /\ e.op # "DELETE" BY <2>2 DEF Item
      <3> QED BY <1>2, <2>2, <3>1 DEF Has, SyncSkips, SyncFails
    <2> HIDE DEF e
    <2> QED BY <1>1, <2>1, <2>2 DEF Coming, Going
  <1> QED BY <1>1, <1>2, <1>3, <1>4

LEMMA SkipServe == ASSUME ServeInv, Skip PROVE ServeInv'
  <1>1. /\ task = None /\ UNCHANGED <<lister, task, infoMap, conf, up>>
        /\ \A e : Due(e)' => Due(e)
        /\ \A s \in Subnets, p \in Providers :
             /\ Going(s, p)' <=> Going(s, p)
             /\ Coming(s, p)' => Coming(s, p)
             /\ Coming(s, p) /\ Has(s, p) => Coming(s, p)'
    BY SkipFacts DEF ServeInv
  <1>2. SubInv /\ SubInv' BY SkipStep DEF ServeInv
  <1>3. /\ \A s, p : Has(s, p)' <=> Has(s, p)
        /\ \A x : Doing(x)' <=> Doing(x)
    BY <1>1 DEF Has, Doing
  <1>4. EventsInv' BY <1>1, <1>3 DEF ServeInv, EventsInv
  <1>5. ConfInv'
    BY <1>1, <1>3, NetworksKept DEF ServeInv, ConfInv, Kept, Bringing, Ending, Doing
  <1>6. UpInv'
    <2> SUFFICES ASSUME NEW f \in Families, NEW nic \in up'[f]
                 PROVE  \E p \in Providers :
                          Serves(p, f)' /\ Nic[p] = nic /\ (interfaceBusy(nic)' \/ Held(p, f)')
      BY DEF UpInv
    <2>1. PICK p \in Providers : Serves(p, f) /\ Nic[p] = nic /\ (interfaceBusy(nic) \/ Held(p, f))
      BY <1>1 DEF ServeInv, UpInv
    <2>2. Held(p, f) => Held(p, f)' BY <1>1, <1>3 DEF Held
    <2> QED BY <1>1, <2>1, <2>2, NetworksKept
  <1> QED BY <1>1, <1>2, <1>4, <1>5, <1>6, IdleServe

\* What taking an item changes.
LEMMA TakeFacts ==
  ASSUME SubInv, Take, NEW s \in Subnets, NEW p \in Providers,
         NEW op \in {"ADD", "UPDATE", "DELETE"}, NextEvent = Item(s, op, p)
  PROVE  /\ task = None /\ UNCHANGED <<lister, notes, infoMap, conf, up>>
         /\ task' # None /\ task'.ev.sub = s /\ task'.ev.op = op /\ task'.ev.prov = p
         /\ task'.spec = (IF op = "DELETE" THEN None ELSE lister[s])
         /\ task'.todo = FamOrder /\ task'.step = "look" /\ task'.failed = FALSE
         /\ \A t, q : Busy(t, q)' <=> t = s /\ q = p
         /\ \A x : Doing(x)' => Due(x)
         /\ \A f \in Families : Handling(f)'
         /\ \A t, q : Has(t, q)' <=> Has(t, q)
         /\ op # "DELETE" => lister[s] # None /\ lister[s].on
         /\ Due(Item(s, op, p)) /\ \A x : Due(x)' => Due(x)
         /\ \A t, q : Coming(t, q)' => Coming(t, q)
         /\ \A t, q : Going(t, q)' => Going(t, q)
         /\ \A t, q : t # s \/ q # p => (Coming(t, q) => Coming(t, q)') /\ (Going(t, q) => Going(t, q)')
         /\ Coming(s, p) => Coming(s, p)' \/ op # "DELETE"
         /\ Going(s, p) => Going(s, p)' \/ op = "DELETE"
         /\ \A f \in Families :
              /\ op # "DELETE" => Bringing(s, f)'
              /\ op = "DELETE" => Ending(s, p, f)'
  <1>0. NextEvent \in Event /\ Due(NextEvent) /\ task = None BY TakeDue DEF Take
  <1> DEFINE e == Item(s, op, p)
  <1>1. /\ e \in Event /\ Due(e) /\ task = None
        /\ \A d : d # e => (Due(d)' <=> Due(d))
        /\ \A d : Due(d)' => Due(d)
    BY <1>0, TakeDue
  <1>2. SubInv /\ SubInv' BY TakeStep
  <1>3. /\ task' # None /\ task'.ev = e /\ task'.spec = SpecRead(e)
        /\ task'.todo = FamOrder /\ task'.step = "look" /\ task'.failed = FALSE
    <2>1. task' = [ev |-> e, spec |-> SpecRead(e), net |-> None, todo |-> FamOrder,
                   step |-> "look", failed |-> FALSE]
      BY DEF Take
    <2>2. SpecRead(e) \in SubnetSpec \cup {None}
      BY <1>1, <1>2 DEF SpecRead, SubInv, ListTyped, Event
    <2> HIDE DEF e
    <2>3. task' \in Task BY <1>1, <2>1, <2>2, FamilyOrderAssumption DEF Task
    <2> QED BY <2>1, <2>3, NoneAssumption
  <1>4. UNCHANGED <<lister, notes, infoMap, conf, up>> BY DEF Take, dhcp, cache
  <1>5. ~SyncSkips(e) BY DEF Take
  <1>6. e.sub = s /\ e.op = op /\ e.prov = p BY DEF Item
  <1>7. SpecRead(e) = IF op = "DELETE" THEN None ELSE lister[s] BY <1>6 DEF SpecRead
  <1>8. /\ \A t, q : Busy(t, q)' <=> t = s /\ q = p
        /\ \A x : Doing(x)' <=> x = e
        /\ \A f \in Families : Handling(f)'
    BY <1>3, <1>6 DEF Busy, Doing, Sub, Prov, Handling, Families
  <1>9. \A t, q : Has(t, q)' <=> Has(t, q) BY <1>4 DEF Has
  <1>10. op # "DELETE" => lister[s] # None /\ lister[s].on BY <1>5, <1>6 DEF SyncSkips
  <1>11. /\ \A t, q : Coming(t, q)' => Coming(t, q)
         /\ \A t, q : Going(t, q)' => Going(t, q)
         /\ \A t, q : t # s \/ q # p => (Coming(t, q) => Coming(t, q)') /\ (Going(t, q) => Going(t, q)')
         /\ Coming(s, p) => Coming(s, p)' \/ op # "DELETE"
         /\ Going(s, p) => Going(s, p)' \/ op = "DELETE"
    <2>1. \A t, o, q : Item(t, o, q) = e => t = s /\ o = op /\ q = p
      <3> SUFFICES ASSUME NEW t, NEW o, NEW q, Item(t, o, q) = e PROVE t = s /\ o = op /\ q = p
        OBVIOUS
      <3>1. Item(t, o, q).sub = t /\ Item(t, o, q).op = o /\ Item(t, o, q).prov = q BY DEF Item
      <3> QED BY <1>6, <3>1
    <2> HIDE DEF e
    <2> QED BY <1>1, <2>1 DEF Coming, Going
  <1>12. \A f \in Families :
            /\ op # "DELETE" => Bringing(s, f)'
            /\ op = "DELETE" => Ending(s, p, f)'
    BY <1>3, <1>6, <1>8 DEF Bringing, Ending, Sub, Families
  <1> QED BY <1>1, <1>3, <1>4, <1>6, <1>7, <1>8, <1>9, <1>10, <1>11, <1>12

LEMMA TakeServe == ASSUME ServeInv, Take PROVE ServeInv'
  <1>1. SubInv /\ SubInv' BY TakeStep DEF ServeInv
  <1>2. NextEvent \in Event BY <1>1, TakeDue
  <1> PICK s \in Subnets, p \in Providers, op \in {"ADD", "UPDATE", "DELETE"} :
        NextEvent = Item(s, op, p)
    BY <1>2 DEF Event, Item
  <1>3. /\ task = None /\ UNCHANGED <<lister, notes, infoMap, conf, up>>
        /\ task' # None /\ task'.ev.sub = s /\ task'.ev.op = op /\ task'.ev.prov = p
        /\ task'.spec = (IF op = "DELETE" THEN None ELSE lister[s])
        /\ task'.todo = FamOrder /\ task'.step = "look" /\ task'.failed = FALSE
        /\ \A t, q : Busy(t, q)' <=> t = s /\ q = p
        /\ \A x : Doing(x)' => Due(x)
        /\ \A f \in Families : Handling(f)'
        /\ \A t, q : Has(t, q)' <=> Has(t, q)
        /\ op # "DELETE" => Has(s, p)
        /\ Due(Item(s, op, p)) /\ \A x : Due(x)' => Due(x)
        /\ \A t, q : Coming(t, q)' => Coming(t, q)
        /\ \A t, q : Going(t, q)' => Going(t, q)
        /\ \A t, q : t # s \/ q # p => (Coming(t, q) => Coming(t, q)') /\ (Going(t, q) => Going(t, q)')
        /\ Coming(s, p) => Coming(s, p)' \/ op # "DELETE"
        /\ Going(s, p) => Going(s, p)' \/ op = "DELETE"
        /\ \A f \in Families :
             /\ op # "DELETE" => Bringing(s, f)'
             /\ op = "DELETE" => Ending(s, p, f)'
    <2>1. op # "DELETE" => lister[s].prov = p BY <1>1, TakeFacts DEF ServeInv, EventsInv
    <2> QED BY <1>1, <2>1, TakeFacts DEF Has
  <1>4. EventsInv'
    <2> SUFFICES ASSUME NEW t \in Subnets, NEW q \in Providers
                 PROVE  /\ \A o \in {"ADD", "UPDATE"} :
                             Due(Item(t, o, q))' \/ Doing(Item(t, o, q))' =>
                               lister'[t] # None /\ lister'[t].prov = q /\ q \notin Own
                        /\ Going(t, q)' \/ Doing(Item(t, "DELETE", q))' => q \notin Own /\ ~Has(t, q)'
      BY DEF EventsInv
    <2> QED BY <1>3 DEF ServeInv, EventsInv, Going
  <1>5. TaskInv' BY <1>3 DEF TaskInv
  <1>6. StepInv' BY <1>3 DEF StepInv, Working, TaskAt
  <1>7. \A t, q, f : ~Bringing(t, f) /\ ~Ending(t, q, f) BY <1>3 DEF Bringing, Ending, Doing
  <1>8. ConfInv'
    <2> SUFFICES ASSUME NEW f \in Families, NEW t \in Subnets, NEW q \in Providers,
                        t \in DOMAIN conf'[f], conf'[f][t].prov = q
                 PROVE  Serves(q, f)' /\ (Kept(t, q, f)' \/ Going(t, q)' \/ Ending(t, q, f)')
      BY DEF ConfInv
    <2>1. Serves(q, f) /\ (Kept(t, q, f) \/ Going(t, q)) BY <1>3, <1>7 DEF ServeInv, ConfInv
    <2>2. Kept(t, q, f) => Kept(t, q, f)' BY <1>3, <1>7 DEF Kept
    <2>3. Going(t, q) => Going(t, q)' \/ Ending(t, q, f)' BY <1>3
    <2> QED BY <1>3, <2>1, <2>2, <2>3, NetworksKept
  <1>9. UpInv'
    <2> SUFFICES ASSUME NEW f \in Families, NEW nic \in up'[f]
                 PROVE  \E q \in Providers :
                          Serves(q, f)' /\ Nic[q] = nic /\ (interfaceBusy(nic)' \/ Held(q, f)')
      BY DEF UpInv
    <2>1. PICK q \in Providers : Serves(q, f) /\ Nic[q] = nic /\ (interfaceBusy(nic) \/ Held(q, f))
      BY <1>3 DEF ServeInv, UpInv
    <2>2. Held(q, f) => Held(q, f)'
      <3>1. CASE q = p BY <1>3, <3>1 DEF Held, Prov
      <3>2. CASE q # p BY <1>3, <3>2 DEF Held
      <3> QED BY <3>1, <3>2
    <2> QED BY <1>3, <2>1, <2>2, NetworksKept
  <1> QED BY <1>1, <1>4, <1>5, <1>6, <1>8, <1>9 DEF ServeInv

\* What the worker changes when it is done with an item.
LEMMA FinishFacts ==
  ASSUME SubInv, task # None, NEW failed \in BOOLEAN,
         queue' = Handled(queue, task.ev, failed), task' = None, UNCHANGED <<lister, notes>>,
         NEW s \in Subnets, NEW p \in Providers, NEW op \in {"ADD", "UPDATE", "DELETE"},
         Sub = s, Prov = p, task.ev.op = op
  PROVE  /\ task.ev = Item(s, op, p) /\ Doing(Item(s, op, p)) /\ Busy(s, p)
         /\ \A t, q : Coming(t, q) => Coming(t, q)'
         /\ \A t, q : Going(t, q) => Going(t, q)'
         /\ failed /\ op # "DELETE" => Coming(s, p)'
         /\ failed /\ op = "DELETE" => Going(s, p)'
         /\ \A t, q : Has(t, q)' <=> Has(t, q)
         /\ \A e : ~Doing(e)'
         /\ \A e : Due(e)' => Due(e) \/ Doing(e)
         /\ \A t, f : Bringing(t, f) => t = s /\ op # "DELETE" /\ Handling(f)
         /\ \A t, q, f : Ending(t, q, f) => t = s /\ q = p /\ op = "DELETE" /\ Handling(f)
  <1>1. task.ev = Item(s, op, p) /\ Doing(Item(s, op, p)) /\ Busy(s, p)
    BY TaskItem
  <1>2. \A e : Due(e)' <=> Due(e) \/ (failed /\ e = task.ev) BY FinishDue
  <1>3. /\ \A t, q : Coming(t, q) => Coming(t, q)'
        /\ \A t, q : Going(t, q) => Going(t, q)'
        /\ failed /\ op # "DELETE" => Coming(s, p)'
        /\ failed /\ op = "DELETE" => Going(s, p)'
    BY <1>1, <1>2 DEF Coming, Going
  <1>4. /\ \A t, q : Has(t, q)' <=> Has(t, q)
        /\ \A e : ~Doing(e)'
        /\ \A e : Due(e)' => Due(e) \/ Doing(e)
    BY <1>2 DEF Has, Doing
  <1>5. /\ \A t, f : Bringing(t, f) => t = s /\ op # "DELETE" /\ Handling(f)
        /\ \A t, q, f : Ending(t, q, f) => t = s /\ q = p /\ op = "DELETE" /\ Handling(f)
    <2>1. \A t, q : Item(t, "DELETE", q).sub = t /\ Item(t, "DELETE", q).op = "DELETE"
                    /\ Item(t, "DELETE", q).prov = q
      BY DEF Item
    <2> QED BY <2>1 DEF Bringing, Ending, Doing, Handling, Sub, Prov
  <1> QED BY <1>1, <1>3, <1>4, <1>5

\* The worker is done with an item: with every family, or because it will try again,
\* or because there is no network to serve.
LEMMA FinishServe ==
  ASSUME ServeInv, SubInv', task # None, NEW failed \in BOOLEAN,
         queue' = Handled(queue, task.ev, failed), task' = None,
         UNCHANGED <<lister, notes, infoMap, conf, up>>,
         failed \/ Prov \notin Attached \/ \A f \in Families : ~Handling(f)
  PROVE  ServeInv'
  <1> PICK s \in Subnets, p \in Providers, op \in {"ADD", "UPDATE", "DELETE"} :
        Sub = s /\ Prov = p /\ task.ev.op = op
    BY TaskItem DEF ServeInv
  <1>1. /\ task.ev = Item(s, op, p) /\ Doing(Item(s, op, p)) /\ Busy(s, p)
        /\ \A t, q : Coming(t, q) => Coming(t, q)'
        /\ \A t, q : Going(t, q) => Going(t, q)'
        /\ failed /\ op # "DELETE" => Coming(s, p)'
        /\ failed /\ op = "DELETE" => Going(s, p)'
        /\ \A t, q : Has(t, q)' <=> Has(t, q)
        /\ \A e : ~Doing(e)'
        /\ \A e : Due(e)' => Due(e) \/ Doing(e)
        /\ op # "DELETE" => Has(s, p)
        /\ \A t, f : Bringing(t, f) => t = s /\ op # "DELETE" /\ Handling(f)
        /\ \A t, q, f : Ending(t, q, f) => t = s /\ q = p /\ op = "DELETE" /\ Handling(f)
    <2>1. op # "DELETE" => Has(s, p) BY TaskItem DEF ServeInv, TaskInv
    <2> QED BY <2>1, FinishFacts DEF ServeInv
  <1>2. EventsInv' BY <1>1 DEF ServeInv, EventsInv, Going
  <1>3. \A f \in Families : Serves(p, f) /\ Handling(f) => failed BY DEF Serves
  <1>4. ConfInv'
    <2> SUFFICES ASSUME NEW f \in Families, NEW t \in Subnets, NEW q \in Providers,
                        t \in DOMAIN conf'[f], conf'[f][t].prov = q
                 PROVE  Serves(q, f)' /\ (Kept(t, q, f)' \/ Going(t, q)' \/ Ending(t, q, f)')
      BY DEF ConfInv
    <2>1. Serves(q, f) /\ (Kept(t, q, f) \/ Going(t, q) \/ Ending(t, q, f)) BY DEF ServeInv, ConfInv
    <2>2. Kept(t, q, f) => Kept(t, q, f)'
      <3> SUFFICES ASSUME Has(t, q), Bringing(t, f) PROVE Coming(t, q)'
        BY <1>1 DEF Kept
      <3>1. t = s /\ op # "DELETE" /\ Handling(f) BY <1>1
      <3>2. q = p BY <1>1, <3>1 DEF Has
      <3> QED BY <1>1, <1>3, <2>1, <3>1, <3>2
    <2>3. Ending(t, q, f) => Going(t, q)' BY <1>1, <1>3, <2>1
    <2> QED BY <1>1, <2>1, <2>2, <2>3, NetworksKept
  <1>5. UpInv'
    <2> SUFFICES ASSUME NEW f \in Families, NEW nic \in up'[f]
                 PROVE  \E q \in Providers :
                          Serves(q, f)' /\ Nic[q] = nic /\ (interfaceBusy(nic)' \/ Held(q, f)')
      BY DEF UpInv
    <2>1. PICK q \in Providers : Serves(q, f) /\ Nic[q] = nic /\ (interfaceBusy(nic) \/ Held(q, f))
      BY DEF ServeInv, UpInv
    <2>2. Held(q, f) => Held(q, f)'
      <3>1. CASE \E t \in Subnets : Going(t, q) \/ (Has(t, q) /\ (f \in lister[t].fams \/ Coming(t, q)))
        BY <1>1, <3>1 DEF Held
      <3>2. CASE p = q /\ Handling(f)
        <4>1. failed BY <1>3, <2>1, <3>2
        <4> QED BY <1>1, <3>2, <4>1 DEF Held
      <3> QED BY <3>1, <3>2 DEF Held
    <2> QED BY <2>1, <2>2, NetworksKept
  <1> QED BY <1>2, <1>4, <1>5, IdleServe

-----------------------------------------------------------------------------
(***************************************************************************)
(* The worker works on an item.                                            *)
(***************************************************************************)
\* The subnet uses the provider for the family, or its turn comes when that is decided.
Asks(s, p, f) == Has(s, p) /\ (f \in lister[s].fams \/ Coming(s, p))

\* What stays when the worker goes on with its item.
LEMMA MoveFacts ==
  ASSUME task # None, task' # None, UNCHANGED <<lister, notes, queue>>, task'.ev = task.ev
  PROVE  /\ \A e : Due(e)' <=> Due(e)
         /\ \A e : Doing(e)' <=> Doing(e)
         /\ \A t, q : Busy(t, q)' <=> Busy(t, q)
         /\ \A t, q : Has(t, q)' <=> Has(t, q)
         /\ \A t, q : Coming(t, q)' <=> Coming(t, q)
         /\ \A t, q : Going(t, q)' <=> Going(t, q)
  <1>1. /\ \A e : Due(e)' <=> Due(e)
        /\ \A e : Doing(e)' <=> Doing(e)
        /\ \A t, q : Busy(t, q)' <=> Busy(t, q)
        /\ \A t, q : Has(t, q)' <=> Has(t, q)
    BY DEF Due, Doing, Busy, Has, Sub, Prov
  <1> QED BY <1>1 DEF Coming, Going

\* A step within an item.  A configuration or server that loses its excuse, the work
\* the worker still had to do on the family, is one that somebody asks for.
LEMMA MoveServe ==
  ASSUME ServeInv, task # None, task' # None, UNCHANGED <<lister, notes, queue, infoMap>>,
         task'.ev = task.ev, task'.spec = task.spec,
         task.ev.op = "DELETE" => ~task'.failed,
         task'.step # "look" => Prov \in Attached /\ task'.net = GetNetworkStatus(Prov),
         \A f \in Families, s \in Subnets : s \in DOMAIN conf'[f] =>
           \/ /\ s \in DOMAIN conf[f] /\ conf'[f][s] = conf[f][s]
              /\ \/ s # Sub
                 \/ Handling(f) => Handling(f)'
                 \/ Asks(s, Prov, f)
           \/ s = Sub /\ Asks(s, Prov, f) /\ Serves(Prov, f) /\ conf'[f][s].prov = Prov,
         \A f \in Families : \A nic \in up'[f] :
           \/ nic \in up[f] /\ (nic # Nic[Prov] \/ interfaceBusy(nic) \/ (Handling(f) => Handling(f)'))
           \/ nic \in up[f] /\ \E s \in Subnets : Asks(s, Prov, f)
           \/ nic = Nic[Prov] /\ Serves(Prov, f) /\ \E s \in Subnets : Asks(s, Prov, f)
  PROVE  EventsInv' /\ TaskInv' /\ ConfInv' /\ UpInv'
  <1> PICK s \in Subnets, p \in Providers, op \in {"ADD", "UPDATE", "DELETE"} :
        Sub = s /\ Prov = p /\ task.ev.op = op
    BY TaskItem DEF ServeInv
  <1>1. Busy(s, p) /\ \A t, q : Busy(t, q) => t = s /\ q = p BY DEF Busy
  <1>2. /\ \A e : Due(e)' <=> Due(e)
        /\ \A e : Doing(e)' <=> Doing(e)
        /\ \A t, q : Busy(t, q)' <=> Busy(t, q)
        /\ \A t, q : Has(t, q)' <=> Has(t, q)
        /\ task'.ev.op = op
    BY MoveFacts
  <1>3. /\ \A t, q : Coming(t, q)' <=> Coming(t, q)
        /\ \A t, q : Going(t, q)' <=> Going(t, q)
    BY MoveFacts
  <1>4. EventsInv' BY <1>2, <1>3 DEF ServeInv, EventsInv
  <1>5. TaskInv'
    <2> SUFFICES ASSUME NEW t \in Subnets, NEW q \in Providers, Busy(t, q)
                 PROVE  /\ task'.ev.op # "DELETE" => Has(t, q)' /\ (task'.spec = lister'[t] \/ Coming(t, q)')
                        /\ task'.ev.op = "DELETE" => ~task'.failed
                        /\ task'.step # "look" => (q \in Attached)' /\ task'.net = GetNetworkStatus(q)'
      BY <1>2 DEF TaskInv
    <2>1. t = s /\ q = p BY <1>1
    <2>2. op # "DELETE" => Has(s, p) /\ (task.spec = lister[s] \/ Coming(s, p))
      BY <1>1 DEF ServeInv, TaskInv
    <2>3. (p \in Attached)' <=> p \in Attached BY NetworksKept
    <2>4. GetNetworkStatus(p)' = GetNetworkStatus(p) BY NetworksKept
    <2> QED BY <1>2, <1>3, <2>1, <2>2, <2>3, <2>4
  <1>6. \A t, q, f : Asks(t, q, f) => Asks(t, q, f)' BY <1>2, <1>3 DEF Asks
  <1>7. /\ \A q, f : Serves(q, f)' <=> Serves(q, f)
        /\ \A nic : interfaceBusy(nic)' <=> interfaceBusy(nic)
    BY NetworksKept
  <1>8. Has(s, p) \/ op = "DELETE" BY <1>1 DEF ServeInv, TaskInv
  <1>9. ConfInv'
    <2> SUFFICES ASSUME NEW f \in Families, NEW t \in Subnets, NEW q \in Providers,
                        t \in DOMAIN conf'[f], conf'[f][t].prov = q
                 PROVE  Serves(q, f) /\ (Kept(t, q, f)' \/ Going(t, q)' \/ Ending(t, q, f)')
      BY <1>7 DEF ConfInv
    <2>1. Asks(t, q, f) => Kept(t, q, f)' BY <1>6 DEF Asks, Kept
    <2>2. CASE t = s /\ Asks(t, p, f) /\ Serves(p, f) /\ conf'[f][t].prov = p
      BY <2>1, <2>2
    <2>3. CASE t \in DOMAIN conf[f] /\ conf'[f][t] = conf[f][t]
      <3>1. Serves(q, f) /\ (Kept(t, q, f) \/ Going(t, q) \/ Ending(t, q, f))
        BY <2>3 DEF ServeInv, ConfInv
      <3>2. CASE Going(t, q) \/ Asks(t, q, f) BY <1>3, <2>1, <3>1, <3>2
      <3>3. CASE Has(t, q) /\ Bringing(t, f) /\ ~Asks(t, q, f)
        <4>1. t = s /\ op # "DELETE" /\ q = p BY <1>8, <3>3 DEF Bringing, Has
        <4>2. Handling(f)' BY <3>3, <4>1, <2>3 DEF Bringing
        <4>3. Bringing(t, f)' BY <1>2, <4>1, <4>2 DEF Bringing, Sub
        <4> QED BY <1>2, <3>1, <3>3, <4>3 DEF Kept
      <3>4. CASE Ending(t, q, f) /\ ~Asks(t, q, f)
        <4>1. task.ev = Item(t, "DELETE", q) /\ f \in ToSet(task.todo) BY <3>4 DEF Ending, Doing
        <4>2. t = s /\ q = p BY <4>1 DEF Item, Sub, Prov
        <4>3. f \in ToSet(task'.todo) BY <2>3, <3>4, <4>1, <4>2 DEF Handling, Item
        <4>4. Ending(t, q, f)' BY <1>2, <3>4, <4>3 DEF Ending
        <4> QED BY <3>1, <4>4
      <3> QED BY <3>1, <3>2, <3>3, <3>4 DEF Kept, Asks
    <2> QED BY <2>2, <2>3
  <1>10. UpInv'
    <2> SUFFICES ASSUME NEW f \in Families, NEW nic \in up'[f]
                 PROVE  \E q \in Providers :
                          Serves(q, f) /\ Nic[q] = nic /\ (interfaceBusy(nic) \/ Held(q, f)')
      BY <1>7 DEF UpInv
    <2>1. \A q : (\E t \in Subnets : Asks(t, q, f)) => Held(q, f)' BY <1>6 DEF Asks, Held
    <2>2. Handling(f)' => Held(p, f)' BY DEF Held, Prov
    <2>3. CASE nic = Nic[p] /\ Serves(p, f) /\ \E t \in Subnets : Asks(t, p, f)
      BY <2>1, <2>3
    <2>4. CASE /\ nic \in up[f]
               /\ \/ nic # Nic[p] \/ interfaceBusy(nic) \/ (Handling(f) => Handling(f)')
                  \/ \E t \in Subnets : Asks(t, p, f)
      <3>1. PICK q \in Providers : Serves(q, f) /\ Nic[q] = nic /\ (interfaceBusy(nic) \/ Held(q, f))
        BY <2>4 DEF ServeInv, UpInv
      <3>2. CASE interfaceBusy(nic) BY <3>1, <3>2
      <3>3. CASE \E t \in Subnets : Asks(t, q, f) \/ Going(t, q)
        <4>1. Held(q, f)' BY <1>3, <2>1, <3>3 DEF Held
        <4> QED BY <3>1, <4>1
      <3>4. CASE ~interfaceBusy(nic) /\ ~(\E t \in Subnets : Asks(t, q, f) \/ Going(t, q))
        <4>1. q = p /\ Handling(f) BY <3>1, <3>4 DEF Held, Asks
        <4> QED BY <2>1, <2>2, <2>4, <3>1, <3>4, <4>1
      <3> QED BY <3>2, <3>3, <3>4
    <2> QED BY <2>3, <2>4
  <1> QED BY <1>4, <1>5, <1>9, <1>10

\* The worker goes on with its item when it found the network.
LEMMA LookMoves ==
  ASSUME SubInv, Look, task.ev.prov \in Attached
  PROVE  /\ queue' = queue /\ task' # None /\ task'.ev = task.ev /\ task'.spec = task.spec
         /\ task'.net = GetNetworkStatus(task.ev.prov) /\ task'.todo = task.todo
         /\ task'.failed = task.failed /\ task'.step = "build"
         /\ \A f : Handling(f)' <=> Handling(f)
  <1> DEFINE net == GetNetworkStatus(task.ev.prov)
  <1>1. task # None /\ task \in Task BY DEF Look, TaskAt, SubInv, TaskTyped
  <1>2. net \in Network BY NetworkType DEF SubInv
  <1>3. task' = [task EXCEPT !.net = net, !.step = "build"] /\ queue' = queue BY DEF Look
  <1> HIDE DEF net
  <1>4. /\ task' # None /\ task'.ev = task.ev /\ task'.spec = task.spec /\ task'.net = net
        /\ task'.todo = task.todo /\ task'.failed = task.failed /\ task'.step = "build"
    <2>1. task' \in Task BY <1>1, <1>2, <1>3 DEF Task
    <2> QED BY <1>1, <1>3, <2>1, NoneAssumption DEF Task
  <1>5. \A f : Handling(f)' <=> Handling(f) BY <1>4 DEF Handling
  <1> QED BY <1>3, <1>4, <1>5 DEF net

LEMMA LookServe == ASSUME ServeInv, Look PROVE ServeInv'
  <1>1. SubInv /\ SubInv' BY LookStep DEF ServeInv
  <1>2. task # None BY DEF Look, TaskAt
  <1>3. UNCHANGED <<lister, notes, infoMap, conf, up>> BY DEF Look, dhcp, cache
  <1>4. CASE task.ev.prov \notin Attached
    <2>1. task' = None /\ queue' = Handled(queue, task.ev, FALSE) BY <1>4 DEF Look
    <2> QED BY <1>1, <1>2, <1>3, <1>4, <2>1, FinishServe DEF Prov
  <1>5. CASE task.ev.prov \in Attached
    <2>1. /\ queue' = queue /\ task' # None /\ task'.ev = task.ev /\ task'.spec = task.spec
          /\ task'.net = GetNetworkStatus(Prov) /\ task'.failed = task.failed /\ task'.step = "build"
          /\ \A f : Handling(f)' <=> Handling(f)
      BY <1>1, <1>5, LookMoves DEF Prov
    <2>2. task.ev.op = "DELETE" => ~task'.failed
      BY <1>1, <1>2, <2>1, TaskItem DEF ServeInv, TaskInv
    <2>3. Prov \in Attached BY <1>5 DEF Prov
    <2>4. EventsInv' /\ TaskInv' /\ ConfInv' /\ UpInv'
      BY <1>2, <1>3, <2>1, <2>2, <2>3, MoveServe
    <2>5. StepInv' BY <2>1 DEF StepInv, Working, TaskAt
    <2> QED BY <1>1, <2>4, <2>5 DEF ServeInv
  <1> QED BY <1>4, <1>5

\* Moving on to the next family.
LEMMA FamilyDone ==
  ASSUME SubInv, NEW f \in Families, NEW step \in {"build", "serve", "stop"}, Working(f, step),
         NEW failed \in BOOLEAN, NextFamily(failed), UNCHANGED queue
  PROVE  /\ task # None /\ task' # None
         /\ task'.ev = task.ev /\ task'.spec = task.spec /\ task'.net = task.net
         /\ task'.step = "build" /\ task'.failed = (task.failed \/ failed)
         /\ \A g : g # f => (Handling(g)' <=> Handling(g) \/ failed)
         /\ \A g : Handling(g)' => Handling(g) \/ failed
         /\ failed => \A g : Handling(g)'
         /\ \A g : ~Working(g, "serve")' /\ ~Working(g, "stop")'
  <1> DEFINE rest == Tail(task.todo)
             any == task.failed \/ failed
  <1>1. task # None /\ task \in Task /\ task.todo # <<>> /\ Head(task.todo) = f /\ task.step # "look"
    BY WorkingType DEF Working
  <1>2. task' # None BY <1>1, MoveType
  <1>3. rest \in Seq(Families) /\ any \in BOOLEAN /\ task.todo \in Seq(Families) BY <1>1 DEF Task
  <1>4. task' = [task EXCEPT !.todo = rest, !.step = "build", !.failed = any] BY DEF NextFamily
  <1>5. ToSet(task.todo) = {f} \cup ToSet(rest) BY <1>1, <1>3, TailSet
  <1> HIDE DEF rest
  <1>6. /\ task'.ev = task.ev /\ task'.spec = task.spec /\ task'.net = task.net
        /\ task'.step = "build" /\ task'.failed = any /\ task'.todo = rest
    BY <1>1, <1>3, <1>4 DEF Task
  <1> QED BY <1>1, <1>2, <1>5, <1>6 DEF Handling, Working, TaskAt

\* Going on with the same family.
LEMMA FamilyStays ==
  ASSUME SubInv, NEW f \in Families, Working(f, "build"), NEW step \in {"serve", "stop"},
         task' = [task EXCEPT !.step = step], UNCHANGED queue
  PROVE  /\ task # None /\ task' # None
         /\ task'.ev = task.ev /\ task'.spec = task.spec /\ task'.net = task.net
         /\ task'.step = step /\ task'.failed = task.failed
         /\ \A g : Handling(g)' <=> Handling(g)
         /\ \A g, other : Working(g, other)' => g = f /\ other = step
  <1>1. task # None /\ task \in Task /\ Head(task.todo) = f /\ task.step # "look"
    BY WorkingType DEF Working
  <1>2. task' # None BY <1>1, MoveType
  <1>3. /\ task'.ev = task.ev /\ task'.spec = task.spec /\ task'.net = task.net
        /\ task'.step = step /\ task'.failed = task.failed /\ task'.todo = task.todo
    BY <1>1 DEF Task
  <1> QED BY <1>1, <1>2, <1>3 DEF Handling, Working, TaskAt

\* A family that an ADD or UPDATE needs is one the subnet asks for.
LEMMA NeededAsked ==
  ASSUME ServeInv, NEW f \in Families, NEW step \in {"build", "serve", "stop"}, Working(f, step)
  PROVE  /\ task # None /\ Sub \in Subnets /\ Prov \in Providers
         /\ Prov \in Attached \ Own /\ task.net = GetNetworkStatus(Prov)
         /\ task.ev.op = "DELETE" => ~task.failed
         /\ task.ev.op # "DELETE" => Has(Sub, Prov)
         /\ Needed(f) => Asks(Sub, Prov, f)
  <1>1. task # None /\ task.step # "look" BY WorkingType DEF ServeInv
  <1>2. /\ Sub \in Subnets /\ Prov \in Providers /\ Busy(Sub, Prov)
        /\ Doing(Item(Sub, task.ev.op, Prov)) /\ task.ev.op \in {"ADD", "UPDATE", "DELETE"}
    BY <1>1, TaskItem DEF ServeInv
  <1>3. Prov \notin Own BY <1>2 DEF ServeInv, EventsInv
  <1>4. /\ Prov \in Attached /\ task.net = GetNetworkStatus(Prov)
        /\ task.ev.op = "DELETE" => ~task.failed
        /\ task.ev.op # "DELETE" => Has(Sub, Prov) /\ (task.spec = lister[Sub] \/ Coming(Sub, Prov))
    BY <1>1, <1>2 DEF ServeInv, TaskInv
  <1> QED BY <1>1, <1>2, <1>3, <1>4 DEF Needed, Asks

\* What storing and dropping a configuration does to the family's subnets.
LEMMA ConfStored ==
  ASSUME SubInv, NEW f \in Families, Configure(f)
  PROVE  /\ \A g \in Families : g # f => conf'[g] = conf[g]
         /\ DOMAIN conf'[f] = DOMAIN conf[f] \cup {Sub}
         /\ \A s \in DOMAIN conf[f] : s # Sub => conf'[f][s] = conf[f][s]
         /\ conf'[f][Sub] = Configuration(f)
  <1> DEFINE v == Configuration(f)
             new == Put(conf[f], Sub, v)
  <1>1. conf' = [conf EXCEPT ![f] = new] BY DEF Configure, StoreConf
  <1>2. DOMAIN new = DOMAIN conf[f] \cup {Sub} /\ new[Sub] = v
        /\ \A s \in DOMAIN conf[f] : s # Sub => new[s] = conf[f][s]
    <2> HIDE DEF v
    <2> QED BY DEF Put
  <1> HIDE DEF new
  <1>3. conf'[f] = new /\ \A g \in Families : g # f => conf'[g] = conf[g]
    BY <1>1 DEF SubInv, DhcpTyped
  <1> QED BY <1>2, <1>3 DEF v

LEMMA ConfDropped ==
  ASSUME SubInv, NEW f \in Families, Withdraw(f)
  PROVE  /\ \A g \in Families : g # f => conf'[g] = conf[g]
         /\ DOMAIN conf'[f] = DOMAIN conf[f] \ {Sub}
         /\ \A s \in DOMAIN conf'[f] : conf'[f][s] = conf[f][s]
  <1> DEFINE new == Drop(conf[f], Sub)
  <1>1. conf' = [conf EXCEPT ![f] = new] BY DEF Withdraw
  <1>2. DOMAIN new = DOMAIN conf[f] \ {Sub} /\ \A s \in DOMAIN new : new[s] = conf[f][s]
    BY DEF Drop, Restrict
  <1> HIDE DEF new
  <1>3. conf'[f] = new /\ \A g \in Families : g # f => conf'[g] = conf[g]
    BY <1>1 DEF SubInv, DhcpTyped
  <1> QED BY <1>2, <1>3

LEMMA ConfigureServe == ASSUME ServeInv, NEW f \in Families, Configure(f) PROVE ServeInv'
  <1>1. Working(f, "build") /\ Needed(f) /\ f \in DOMAIN task.net BY DEF Configure
  <1>2. SubInv /\ SubInv' BY ConfigureStep DEF ServeInv
  <1>3. UNCHANGED <<lister, notes, queue, infoMap, up>> BY DEF Configure, cache
  <1>4. /\ task # None /\ Sub \in Subnets /\ Prov \in Providers
        /\ Prov \in Attached \ Own /\ task.net = GetNetworkStatus(Prov)
        /\ task.ev.op = "DELETE" => ~task.failed
        /\ Asks(Sub, Prov, f)
    BY <1>1, NeededAsked
  <1>5. /\ task' # None /\ task'.ev = task.ev /\ task'.spec = task.spec /\ task'.net = task.net
        /\ task'.step = "serve" /\ task'.failed = task.failed
        /\ \A g : Handling(g)' <=> Handling(g)
        /\ \A g, other : Working(g, other)' => g = f /\ other = "serve"
    <2>1. task' = [task EXCEPT !.step = "serve"] BY DEF Configure
    <2> QED BY <1>1, <1>2, <1>3, <2>1, FamilyStays
  <1>6. Serves(Prov, f) BY <1>1, <1>4 DEF Serves
  <1>7. /\ \A g \in Families : g # f => conf'[g] = conf[g]
        /\ DOMAIN conf'[f] = DOMAIN conf[f] \cup {Sub}
        /\ \A s \in DOMAIN conf[f] : s # Sub => conf'[f][s] = conf[f][s]
        /\ conf'[f][Sub] = Configuration(f)
    BY <1>2, ConfStored
  <1>8. Configuration(f).prov = Prov BY DEF Configuration
  <1>9. EventsInv' /\ TaskInv' /\ ConfInv' /\ UpInv'
    BY <1>3, <1>4, <1>5, <1>6, <1>7, <1>8, MoveServe
  <1>10. StepInv'
    <2>1. Sub' = Sub /\ (Needed(f)' <=> Needed(f)) /\ Configuration(f)' = Configuration(f)
      BY <1>5 DEF Sub, Prov, Needed, Configuration
    <2>2. \A s, p : Busy(s, p)' => s = Sub BY <1>5 DEF Busy, Sub
    <2> QED BY <1>1, <1>5, <1>7, <2>1, <2>2 DEF StepInv
  <1> QED BY <1>2, <1>9, <1>10 DEF ServeInv

LEMMA WithdrawServe == ASSUME ServeInv, NEW f \in Families, Withdraw(f) PROVE ServeInv'
  <1>1. Working(f, "build") /\ ~Needed(f) BY DEF Withdraw
  <1>2. SubInv /\ SubInv' BY WithdrawStep DEF ServeInv
  <1>3. UNCHANGED <<lister, notes, queue, infoMap, up>> BY DEF Withdraw, cache
  <1>4. /\ task # None /\ Sub \in Subnets /\ Prov \in Providers
        /\ Prov \in Attached \ Own /\ task.net = GetNetworkStatus(Prov)
        /\ task.ev.op = "DELETE" => ~task.failed
    BY <1>1, NeededAsked
  <1>5. /\ \A g \in Families : g # f => conf'[g] = conf[g]
        /\ DOMAIN conf'[f] = DOMAIN conf[f] \ {Sub}
        /\ \A s \in DOMAIN conf'[f] : conf'[f][s] = conf[f][s]
    BY <1>2, ConfDropped
  <1>6. CASE OtherUsers(Sub, Prov, f)
    <2>1. NextFamily(FALSE) BY <1>6 DEF Withdraw
    <2>2. /\ task' # None /\ task'.ev = task.ev /\ task'.spec = task.spec /\ task'.net = task.net
          /\ task'.step = "build" /\ task'.failed = (task.failed \/ FALSE)
          /\ \A g : g # f => (Handling(g)' <=> Handling(g) \/ FALSE)
          /\ \A g : ~Working(g, "serve")' /\ ~Working(g, "stop")'
      BY <1>1, <1>2, <1>3, <2>1, FamilyDone
    <2>3. \E s \in Subnets : Asks(s, Prov, f) BY <1>6 DEF OtherUsers, Asks, Has
    <2>4. EventsInv' /\ TaskInv' /\ ConfInv' /\ UpInv'
      BY <1>3, <1>4, <1>5, <2>2, <2>3, MoveServe
    <2>5. StepInv' BY <2>2 DEF StepInv
    <2> QED BY <1>2, <2>4, <2>5 DEF ServeInv
  <1>7. CASE ~OtherUsers(Sub, Prov, f)
    <2>1. task' = [task EXCEPT !.step = "stop"] BY <1>7 DEF Withdraw
    <2>2. /\ task' # None /\ task'.ev = task.ev /\ task'.spec = task.spec /\ task'.net = task.net
          /\ task'.step = "stop" /\ task'.failed = task.failed
          /\ \A g : Handling(g)' <=> Handling(g)
          /\ \A g, other : Working(g, other)' => g = f /\ other = "stop"
      BY <1>1, <1>2, <1>3, <2>1, FamilyStays
    <2>3. EventsInv' /\ TaskInv' /\ ConfInv' /\ UpInv'
      BY <1>3, <1>4, <1>5, <2>2, MoveServe
    <2>4. StepInv'
      <3>1. Needed(f)' <=> Needed(f) BY <2>2 DEF Needed
      <3>2. \A s, p : Busy(s, p)' => s = Sub /\ p = Prov BY <2>2 DEF Busy, Sub, Prov
      <3>3. \A t \in Subnets \ {Sub} : ~(Has(t, Prov) /\ f \in lister[t].fams)
        BY <1>7 DEF OtherUsers, Has
      <3>4. \A t, p : Has(t, p)' <=> Has(t, p) BY <1>3 DEF Has
      <3> QED BY <1>1, <1>3, <1>5, <2>2, <3>1, <3>2, <3>3, <3>4 DEF StepInv
    <2> QED BY <1>2, <2>3, <2>4 DEF ServeInv
  <1> QED BY <1>6, <1>7

LEMMA ServerServe ==
  ASSUME ServeInv, NEW f \in Families, Join(f) \/ Start(f) \/ StartFails(f) \/ Unbuildable(f)
  PROVE  ServeInv'
  <1>1. SubInv /\ SubInv' BY ServeStep DEF ServeInv
  <1>2. UNCHANGED <<lister, notes, queue, infoMap, conf>>
    BY DEF Join, Start, StartFails, Unbuildable, dhcp, cache
  <1>3. PICK step \in {"build", "serve", "stop"} : Working(f, step) /\ step # "stop"
    BY DEF Join, Start, StartFails, Unbuildable
  <1>4. PICK failed \in BOOLEAN :
          /\ NextFamily(failed)
          /\ failed <=> StartFails(f) \/ Unbuildable(f)
    <2>1. CASE StartFails(f) \/ Unbuildable(f) BY <2>1 DEF StartFails, Unbuildable
    <2>2. CASE ~(StartFails(f) \/ Unbuildable(f)) BY <2>2 DEF Join, Start
    <2> QED BY <2>1, <2>2
  <1>5. Needed(f)
    <2>1. CASE Unbuildable(f) BY <2>1 DEF Unbuildable
    <2>2. CASE Working(f, "serve")
      <3>1. task # None BY <2>2 DEF Working, TaskAt
      <3> QED BY <1>1, <2>2, <3>1, TaskItem DEF ServeInv, StepInv
    <2> QED BY <2>1, <2>2 DEF Join, Start, StartFails
  <1>6. /\ task # None /\ Sub \in Subnets /\ Prov \in Providers
        /\ Prov \in Attached \ Own /\ task.net = GetNetworkStatus(Prov)
        /\ Asks(Sub, Prov, f)
    BY <1>3, <1>5, NeededAsked
  <1>7. task.ev.op # "DELETE" BY <1>5 DEF Needed
  <1>8. /\ task' # None /\ task'.ev = task.ev /\ task'.spec = task.spec /\ task'.net = task.net
        /\ \A g : g # f => (Handling(g)' <=> Handling(g) \/ failed)
        /\ \A g : ~Working(g, "serve")' /\ ~Working(g, "stop")'
    BY <1>1, <1>2, <1>3, <1>4, FamilyDone
  <1>9. \A g \in Families : \A nic \in up'[g] :
          \/ nic \in up[g]
          \/ g = f /\ nic = Nic[Prov] /\ Serves(Prov, f)
    <2>1. CASE Start(f)
      <3>1. Working(f, "serve") BY <2>1 DEF Start
      <3>2. f \in DOMAIN task.net BY <1>1, <3>1, TaskItem DEF ServeInv, StepInv, Working, TaskAt
      <3>3. Serves(Prov, f) BY <1>6, <3>2 DEF Serves
      <3>4. up \in [Families -> SUBSET Range(Nic)] BY <1>1 DEF SubInv, DhcpTyped
      <3> QED BY <2>1, <3>3, <3>4 DEF Start
    <2>2. CASE Join(f) \/ StartFails(f) \/ Unbuildable(f)
      BY <2>2 DEF Join, StartFails, Unbuildable, dhcp
    <2> QED BY <2>1, <2>2
  <1>10. EventsInv' /\ TaskInv' /\ ConfInv' /\ UpInv'
    BY <1>2, <1>6, <1>7, <1>8, <1>9, MoveServe
  <1>11. StepInv' BY <1>8 DEF StepInv
  <1> QED BY <1>1, <1>10, <1>11 DEF ServeInv

LEMMA StopServe == ASSUME ServeInv, NEW f \in Families, Stop(f) \/ StopFails(f) PROVE ServeInv'
  <1>1. SubInv /\ SubInv' BY ServeStep, StopFailsStep DEF ServeInv
  <1>2. UNCHANGED <<lister, notes, infoMap, conf>> BY DEF Stop, StopFails, dhcp, cache
  <1>3. Working(f, "stop") BY DEF Stop, StopFails
  <1>4. /\ task # None /\ Sub \in Subnets /\ Prov \in Providers
        /\ Prov \in Attached \ Own /\ task.net = GetNetworkStatus(Prov)
        /\ task.ev.op = "DELETE" => ~task.failed
    BY <1>3, NeededAsked
  <1>5. CASE StopFails(f) /\ task.ev.op = "DELETE"
    <2>1. task' = None /\ queue' = Handled(queue, task.ev, TRUE) /\ UNCHANGED up
      BY <1>5 DEF StopFails, dhcp
    <2> QED BY <1>1, <1>2, <1>4, <2>1, FinishServe
  <1>6. CASE Stop(f) \/ (StopFails(f) /\ task.ev.op # "DELETE")
    <2>1. UNCHANGED queue BY <1>6 DEF Stop, StopFails
    <2>2. PICK failed \in BOOLEAN :
            NextFamily(failed) /\ (failed => task.ev.op # "DELETE") /\ (~failed => Stop(f))
      <3>1. CASE Stop(f) BY <3>1 DEF Stop
      <3>2. CASE StopFails(f) /\ task.ev.op # "DELETE" BY <3>2 DEF StopFails
      <3> QED BY <1>6, <3>1, <3>2
    <2>3. /\ task' # None /\ task'.ev = task.ev /\ task'.spec = task.spec /\ task'.net = task.net
          /\ task'.failed = (task.failed \/ failed)
          /\ \A g : g # f => (Handling(g)' <=> Handling(g) \/ failed)
          /\ failed => \A g : Handling(g)'
          /\ \A g : ~Working(g, "serve")' /\ ~Working(g, "stop")'
      BY <1>1, <1>3, <2>1, <2>2, FamilyDone
    <2>4. Sub \notin DOMAIN conf[f] BY <1>1, <1>3, <1>4, TaskItem DEF ServeInv, StepInv
    <2>5. /\ \A g \in Families : up'[g] \subseteq up[g]
          /\ ~failed => \A nic \in up'[f] : nic # Nic[Prov] \/ interfaceBusy(nic)
      <3>1. CASE Stop(f) BY <1>1, <3>1 DEF Stop, StopServer, SubInv, DhcpTyped
      <3>2. CASE StopFails(f) /\ failed BY <3>2 DEF StopFails, dhcp
      <3> QED BY <1>6, <2>2, <3>1, <3>2
    <2>6. EventsInv' /\ TaskInv' /\ ConfInv' /\ UpInv'
      BY <1>2, <1>4, <2>1, <2>2, <2>3, <2>4, <2>5, MoveServe
    <2>7. StepInv' BY <2>3 DEF StepInv
    <2> QED BY <1>1, <2>6, <2>7 DEF ServeInv
  <1> QED BY <1>5, <1>6

LEMMA EndServe == ASSUME ServeInv, End PROVE ServeInv'
  <1>1. SubInv /\ SubInv' BY EndStep DEF ServeInv
  <1>2. task # None /\ task \in Task /\ task.todo = <<>> BY <1>1 DEF End, TaskAt, SubInv, TaskTyped
  <1>3. task.failed \in BOOLEAN BY <1>2 DEF Task
  <1>4. \A f : Handling(f) => task.failed BY <1>2 DEF Handling, ToSet
  <1>5. UNCHANGED <<lister, notes, infoMap, conf, up>> BY DEF End, cache
  <1>6. queue' = Handled(queue, task.ev, task.failed) /\ task' = None BY DEF End
  <1> DEFINE failed == task.failed
  <1>7. failed \/ \A f \in Families : ~Handling(f) BY <1>4
  <1>8. queue' = Handled(queue, task.ev, failed) /\ failed \in BOOLEAN BY <1>3, <1>6
  <1> HIDE DEF failed
  <1> QED BY <1>1, <1>2, <1>5, <1>6, <1>7, <1>8, FinishServe

LEMMA InformerServe ==
  ASSUME ServeInv, Deliver \/ (\E e \in queue.later : RetryTimer(e)) \/ PodWorker \/ UNCHANGED vars
  PROVE  ServeInv'
  <1>1. SubInv /\ SubInv' BY DeliverStep, RetryStep, PodWorkerStep, InvStep DEF ServeInv
  <1>2. UNCHANGED <<lister, task, infoMap, conf, up>>
    BY DEF Deliver, RetryTimer, PodWorker, PodTake, PodRead, PodWrite, vars, dhcp, cache
  <1>3. \A e : Due(e)' <=> Due(e)
    <2>1. CASE Deliver \/ \E e \in queue.later : RetryTimer(e) BY <1>1, <2>1, InformerDue
    <2>2. CASE PodWorker \/ UNCHANGED vars
      <3>1. UNCHANGED <<notes, queue>> BY <2>2 DEF PodWorker, PodTake, PodRead, PodWrite, vars
      <3> QED BY <3>1 DEF Due
    <2> QED BY <2>1, <2>2
  <1> QED BY <1>1, <1>2, <1>3, ServeKept

LEMMA WorkerServe == ServeInv /\ Worker => ServeInv'
  BY SkipServe, TakeServe, LookServe, ConfigureServe, ServerServe, WithdrawServe, StopServe, EndServe
     DEF Worker, FamilyStep

LEMMA ServeNext == EditsWait /\ ServeInv /\ [Next]_vars => ServeInv'
  BY EditServe, InformerServe, WorkerServe DEF Next

LEMMA ServeInit == Init => ServeInv
  <1> SUFFICES ASSUME Init PROVE ServeInv OBVIOUS
  <1>1. SubInv BY InvInit
  <1>2. \A e : ~Due(e) /\ ~Doing(e) BY DEF Init, Due, Doing, Waiting, EmptyQueue, ToSet
  <1>3. \A s, p : ~Busy(s, p) BY DEF Init, Busy
  <1>4. \A f \in Families : DOMAIN conf[f] = {} /\ up[f] = {} BY DEF Init, EmptyMap
  <1> QED BY <1>1, <1>2, <1>3, <1>4
          DEF ServeInv, EventsInv, Going, TaskInv, StepInv, ConfInv, UpInv

-----------------------------------------------------------------------------
(***************************************************************************)
(* No server is left over, and none is pulled away.                        *)
(***************************************************************************)
LEMMA NoOrphan == ServeInv => NoOrphanServer
  <1> SUFFICES ASSUME ServeInv, \A s \in Subnets : Settled(s),
                      NEW f \in Families, NEW p \in Attached, Nic[p] \in up[f]
               PROVE  \/ interfaceBusy(Nic[p])
                      \/ \E s \in Subnets : Wanted(s, f) /\ Nic[lister[s].prov] = Nic[p]
    BY DEF NoOrphanServer
  <1>1. SubInv BY DEF ServeInv
  <1>2. \A s \in Subnets : \A q : ~Coming(s, q) /\ ~Going(s, q)
    BY <1>1, SettledRests DEF Coming, Going
  <1>3. task = None BY <1>1, SettledRests, TaskItem
  <1>4. PICK q \in Providers : Serves(q, f) /\ Nic[q] = Nic[p] /\ (interfaceBusy(Nic[p]) \/ Held(q, f))
    BY DEF ServeInv, UpInv
  <1>5. ASSUME Held(q, f) PROVE \E s \in Subnets : Wanted(s, f) /\ lister[s].prov = q
    BY <1>2, <1>3, <1>4, <1>5 DEF Held, Has, Wanted, Serves
  <1> QED BY <1>4, <1>5

\* When edits of a subnet wait for each other, no server is left on an interface
\* where it has nobody to serve, however its stops fail: what keeps it is work that is
\* still under way.
THEOREM NoOrphanTheorem == ASSUME EditsWait PROVE Spec => []NoOrphanServer
  <1>1. ServeInv /\ [Next]_vars => ServeInv' BY ServeNext
  <1> QED BY <1>1, ServeInit, NoOrphan, PTL DEF Spec

\* The controller's own networks each have an interface of their own, which is not
\* the one the networks of Services share.
OwnInterfaces == \A p \in DOMAIN OrgMap \ Own, q \in Providers \ Own : Nic[p] = Nic[q] => p = q

\* On an interface that no other mapped network uses there is one network.
LEMMA AloneOnInterface ==
  ASSUME SubInv, OwnInterfaces, IsFiniteSet(Providers),
         NEW p \in Attached \ Own, NEW q \in Attached \ Own, Nic[p] = Nic[q], ~interfaceBusy(Nic[p])
  PROVE  p = q
  <1>1. DOMAIN infoMap \subseteq Providers /\ DOMAIN OrgMap \subseteq Providers
    BY MapOfElim, NetworkAssumption DEF SubInv, CacheTyped
  <1>2. CASE p \in DOMAIN OrgMap \/ q \in DOMAIN OrgMap
    BY <1>1, <1>2 DEF OwnInterfaces, Attached
  <1>3. CASE p \in DOMAIN infoMap /\ q \in DOMAIN infoMap
    <2> DEFINE both == {x \in DOMAIN infoMap : Nic[x] = Nic[p]}
    <2>1. IsFiniteSet(both) BY <1>1, FS_Subset
    <2>2. {p, q} \subseteq both BY <1>3
    <2>3. Cardinality({p, q}) <= Cardinality(both) /\ Cardinality(both) \in Nat
      BY <2>1, <2>2, FS_Subset, FS_CardinalityType
    <2>4. ~(Cardinality(both) > 1) BY DEF interfaceBusy
    <2> HIDE DEF both
    <2>5. p # q => Cardinality({p, q}) = 2
      <3>1. IsFiniteSet({q}) /\ Cardinality({q}) = 1 BY FS_Singleton
      <3>2. p # q => Cardinality({q} \cup {p}) = Cardinality({q}) + 1 BY <3>1, FS_AddElement
      <3>3. {q} \cup {p} = {p, q} OBVIOUS
      <3> QED BY <3>1, <3>2, <3>3
    <2> QED BY <2>3, <2>4, <2>5
  <1> QED BY <1>2, <1>3 DEF Attached

\* A server only goes down when the worker stops it.
LEMMA DownByStop ==
  ASSUME SubInv, [Next]_vars, NEW f \in Families, NEW nic \in up[f] \ up'[f]
  PROVE  Stop(f) /\ nic = Nic[Prov] /\ ~interfaceBusy(nic)
  <1>1. up \in [Families -> SUBSET Range(Nic)] BY DEF SubInv, DhcpTyped
  <1>2. up' # up OBVIOUS
  <1>3. PICK g \in Families : Start(g) \/ Stop(g)
    BY <1>2 DEF Next, Edit, Deliver, RetryTimer, Worker, Skip, Take, Look, End, FamilyStep, Unbuildable,
           Configure, Join, StartFails, Withdraw, StopFails, PodWorker, PodTake, PodRead, PodWrite,
           vars, dhcp
  <1>4. ~Start(g) BY <1>1 DEF Start
  <1>5. Stop(g) /\ up' = IF interfaceBusy(Nic[Prov]) THEN up ELSE [up EXCEPT ![g] = @ \ {Nic[Prov]}]
    BY <1>3, <1>4 DEF Stop, StopServer
  <1> QED BY <1>1, <1>5

LEMMA StopSpares ==
  ASSUME ServeInv, OwnInterfaces, IsFiniteSet(Providers), [Next]_vars
  PROVE  \A f \in Families : \A nic \in up[f] \ up'[f] : \A s \in DOMAIN conf[f] :
           Nic[conf[f][s].prov] = nic => ~Settled(s)
  <1> SUFFICES ASSUME NEW f \in Families, NEW nic \in up[f] \ up'[f], NEW s \in DOMAIN conf[f],
                      Nic[conf[f][s].prov] = nic, Settled(s)
               PROVE  FALSE
    OBVIOUS
  <1> DEFINE q == conf[f][s].prov
  <1>1. SubInv BY DEF ServeInv
  <1>2. Working(f, "stop") /\ nic = Nic[Prov] /\ ~interfaceBusy(nic) BY <1>1, DownByStop DEF Stop
  <1>3. task # None /\ Prov \in Providers /\ Prov \in Attached \ Own /\ Busy(Sub, Prov) /\ Sub \in Subnets
    BY <1>1, <1>2, NeededAsked, TaskItem
  <1>4. s \in Subnets /\ q \in Providers
    <2>1. conf[f] \in MapOf(Subnets, Config) BY <1>1 DEF SubInv, DhcpTyped
    <2>2. s \in Subnets /\ conf[f][s] \in Config BY <2>1, MapOfElim
    <2> QED BY <2>2 DEF Config
  <1>5. Serves(q, f) /\ (Kept(s, q, f) \/ Going(s, q) \/ Ending(s, q, f)) BY <1>4 DEF ServeInv, ConfInv
  <1>6. q = Prov BY <1>1, <1>2, <1>3, <1>5, AloneOnInterface DEF Serves
  <1>7. /\ Sub \notin DOMAIN conf[f]
        /\ \A t \in Subnets \ {Sub} : Has(t, Prov) /\ f \in lister[t].fams => Coming(t, Prov)
    BY <1>2, <1>3 DEF ServeInv, StepInv
  <1>8. s # Sub BY <1>7
  <1>9. ~Coming(s, q) /\ ~Going(s, q) /\ ~Ending(s, q, f) /\ ~Bringing(s, f)
    BY <1>1, <1>8, SettledRests DEF Coming, Going, Ending, Bringing
  <1>10. Has(s, q) /\ f \in lister[s].fams BY <1>5, <1>9 DEF Kept
  <1> QED BY <1>4, <1>6, <1>7, <1>8, <1>9, <1>10

\* When edits wait and the controller's own networks have their own interfaces, a
\* server that stops takes no subnet down with it, although it is stopped for one
\* provider's last user and networks share interfaces.
THEOREM NoCollateralTheorem ==
  ASSUME EditsWait, OwnInterfaces, IsFiniteSet(Providers)
  PROVE  Spec => NoCollateralStop
  <1>1. ServeInv /\ [Next]_vars => ServeInv' BY ServeNext
  <1>2. ServeInv /\ [Next]_vars =>
          [\A f \in Families : \A nic \in up[f] \ up'[f] : \A s \in DOMAIN conf[f] :
             Nic[conf[f][s].prov] = nic => ~Settled(s)]_vars
    BY StopSpares
  <1> QED BY <1>1, <1>2, ServeInit, PTL DEF Spec, NoCollateralStop

-----------------------------------------------------------------------------
(***************************************************************************)
(* The order of a subnet's events: a subnet that moves to another provider *)
(* leaves the old one before it is brought up under the new one.           *)
(***************************************************************************)
On(s) == lister[s] # None /\ lister[s].on

\* Some subnet may change its provider while DHCP is on.
Moves == \E s \in Subnets : \E a, b \in Specs[s] : a.on /\ b.on /\ a.prov # b.prov

\* A DELETE event does not come up for another turn after the subnet's ADD.
GoesOnce == MaxStopFaults = 0 \/ ~Moves

KnownInv == \A s \in Subnets : lister[s] \in Specs[s] \cup {None}

\* A DELETE starts no server and gives up as soon as one does not close.
ClosingInv ==
  /\ stopFaults \in Nat
  /\ task # None /\ task.ev.op = "DELETE" => ~task.failed /\ task.step # "serve"

\* While a subnet is on, a DELETE of its former provider is not retried or repeated,
\* is the first change of the subnet that the informer has to tell, and comes before
\* the subnet's ADD.
OrderInv ==
  \A s \in Subnets, q \in Providers : On(s) =>
    LET d == Item(s, "DELETE", q) IN
    /\ d \notin queue.later
    /\ d \in queue.running => d \notin queue.dirty
    /\ \A i \in DOMAIN notes : d \in Raised(notes[i]) =>
         /\ \A e \in Pending(queue) : e.sub = s => e.op = "UPDATE"
         /\ \A j \in 1 .. i - 1 : notes[j].sub # s
    /\ d \in queue.dirty => \A p \in Providers :
         /\ Item(s, "ADD", p) \notin queue.running \cup queue.later
         /\ Precedes(queue.order, d, Item(s, "ADD", p))

\* A subnet that has yet to leave a provider has yet to be brought up under its own.
MoveInv ==
  \A s \in Subnets, p \in Providers, q \in Providers :
    Has(s, p) /\ p \notin Own /\ (Going(s, q) \/ Doing(Item(s, "DELETE", q))) => Due(Item(s, "ADD", p))

\* What follows holds whatever becomes of the networks.
OrderedInv == SubInv /\ ClosingInv /\ OrderInv /\ MoveInv

\* Only a subnet that moves leaves a provider while DHCP is on.
MovedInv ==
  \A s \in Subnets, q \in Providers :
    On(s) /\ (Going(s, q) \/ Doing(Item(s, "DELETE", q))) => Moves

TurnInv == ServeInv /\ KnownInv /\ MovedInv /\ OrderedInv

\* A DELETE comes first among the events of a change.
LEMMA DeleteFirst ==
  ASSUME NEW n \in Note, n.old # n.new, Len(EventsOf(n)) = 2, NEW s, NEW q
  PROVE  EventsOf(n)[2] # Item(s, "DELETE", q)
  <1>1. n.sub \in Subnets /\ n.old \in SubnetSpec \cup {None} /\ n.new \in SubnetSpec \cup {None}
    BY DEF Note
  <1>2. \A op \in {"ADD", "UPDATE", "DELETE"}, spec \in SubnetSpec :
          /\ NewEvents(n.sub, spec, op) \in Seq(Event)
          /\ Len(NewEvents(n.sub, spec, op)) <= 1 /\ Len(NewEvents(n.sub, spec, op)) # 2
          /\ \A e \in ToSet(NewEvents(n.sub, spec, op)) : e.op = op
    <2> SUFFICES ASSUME NEW op \in {"ADD", "UPDATE", "DELETE"}, NEW spec \in SubnetSpec
                 PROVE  /\ NewEvents(n.sub, spec, op) \in Seq(Event)
                        /\ Len(NewEvents(n.sub, spec, op)) <= 1 /\ Len(NewEvents(n.sub, spec, op)) # 2
                        /\ \A e \in ToSet(NewEvents(n.sub, spec, op)) : e.op = op
      OBVIOUS
    <2>1. /\ NewEvents(n.sub, spec, op) \in Seq(Event) /\ Len(NewEvents(n.sub, spec, op)) <= 1
          /\ ToSet(NewEvents(n.sub, spec, op)) \subseteq {Item(n.sub, op, spec.prov)}
      BY <1>1, NewEventsSet
    <2>2. Len(NewEvents(n.sub, spec, op)) \in Nat BY <2>1
    <2>3. Len(NewEvents(n.sub, spec, op)) # 2 BY <2>1, <2>2
    <2>4. Item(n.sub, op, spec.prov).op = op BY DEF Item
    <2>5. \A e \in ToSet(NewEvents(n.sub, spec, op)) : e = Item(n.sub, op, spec.prov) BY <2>1
    <2>6. \A e \in ToSet(NewEvents(n.sub, spec, op)) : e.op = op BY <2>4, <2>5
    <2> QED BY <2>1, <2>3, <2>6
  <1>3. Len(<<>>) # 2 OBVIOUS
  <1>4. n.old # None /\ n.new # None BY <1>1, <1>2, <1>3 DEF EventsOf
  <1>5. n.old \in SubnetSpec /\ n.new \in SubnetSpec BY <1>1, <1>4
  <1>6. EventsOf(n) = OnUpdate(n.sub, n.old, n.new) BY <1>4 DEF EventsOf
  <1> DEFINE del == NewEvents(n.sub, n.old, "DELETE")
             add == NewEvents(n.sub, n.new, "ADD")
  <1>7. EventsOf(n) = del \o add BY <1>2, <1>3, <1>5, <1>6 DEF OnUpdate
  <1>8. /\ del \in Seq(Event) /\ Len(del) <= 1 /\ add \in Seq(Event) /\ Len(add) <= 1
        /\ \A e \in ToSet(add) : e.op = "ADD"
    BY <1>2, <1>5
  <1> HIDE DEF del, add
  <1>9. Len(del) \in Nat /\ Len(add) \in Nat /\ Len(del \o add) = Len(del) + Len(add) BY <1>8
  <1>10. Len(del) = 1 /\ Len(add) = 1
    <2>1. \A x, y \in Nat : x <= 1 /\ y <= 1 /\ x + y = 2 => x = 1 /\ y = 1 OBVIOUS
    <2>2. Len(del) + Len(add) = 2 BY <1>7, <1>9
    <2> QED BY <1>8, <1>9, <2>1, <2>2
  <1>11. (del \o add)[2] = add[1]
    <2>1. 2 \in 1 .. Len(del) + Len(add) /\ 2 - Len(del) = 1 /\ ~(2 <= Len(del)) BY <1>10
    <2>2. \A i \in 1 .. Len(del) + Len(add) :
            (del \o add)[i] = IF i <= Len(del) THEN del[i] ELSE add[i - Len(del)]
      BY <1>8
    <2> QED BY <2>1, <2>2
  <1>12. add[1] \in ToSet(add)
    <2>1. 1 \in DOMAIN add BY <1>8, <1>10
    <2> QED BY <2>1 DEF ToSet
  <1>13. Item(s, "DELETE", q).op = "DELETE" BY DEF Item
  <1> QED BY <1>7, <1>8, <1>11, <1>12, <1>13

LEMMA ItemParts == \A s, op, p : Item(s, op, p).sub = s /\ Item(s, op, p).op = op /\ Item(s, op, p).prov = p
  BY DEF Item

\* A subnet that is on and has a DELETE event has moved to another provider, and has
\* an ADD event, too.
LEMMA RaisedMoves ==
  ASSUME NEW n \in Note, n.old # n.new, n.new # None, n.new.on,
         NEW t, NEW q, Item(t, "DELETE", q) \in Raised(n)
  PROVE  /\ n.old # None /\ n.old.on /\ n.old.prov # n.new.prov
         /\ n.new.prov \notin Own => Item(n.sub, "ADD", n.new.prov) \in Raised(n)
  <1>1. \A u, p, r : Item(t, "DELETE", q) # Item(u, "ADD", p) /\ Item(t, "DELETE", q) # Item(u, "UPDATE", r)
    <2> SUFFICES ASSUME NEW u, NEW p
                 PROVE  /\ Item(t, "DELETE", q) # Item(u, "ADD", p)
                        /\ Item(t, "DELETE", q) # Item(u, "UPDATE", p)
      OBVIOUS
    <2>1. /\ Item(t, "DELETE", q).op = "DELETE" /\ Item(u, "ADD", p).op = "ADD"
          /\ Item(u, "UPDATE", p).op = "UPDATE"
      BY ItemParts
    <2> QED BY <2>1
  <1> DEFINE del == /\ n.old # None /\ n.old.prov \notin Own
                    /\ \/ n.new = None
                       \/ n.new # None /\ n.old.on /\ ~n.new.on /\ n.old.prov = n.new.prov
                       \/ n.new # None /\ n.old.prov # n.new.prov /\ (n.old.on \/ ~n.new.on)
             add == /\ n.new # None /\ n.new.prov \notin Own
                    /\ \/ n.old = None /\ n.new.on
                       \/ n.old # None /\ (n.old.prov # n.new.prov \/ (~n.old.on /\ n.new.on))
             upd == /\ n.new # None /\ n.new.prov \notin Own
                    /\ n.old # None /\ n.old.on = n.new.on /\ n.old.prov = n.new.prov
  <1>2. Raised(n) = (IF del THEN {Item(n.sub, "DELETE", n.old.prov)} ELSE {})
                      \cup (IF add THEN {Item(n.sub, "ADD", n.new.prov)} ELSE {})
                      \cup (IF upd THEN {Item(n.sub, "UPDATE", n.new.prov)} ELSE {})
    BY RaisedSet
  <1> HIDE DEF add, upd
  <1>3. del
    <2> HIDE DEF del
    <2> QED BY <1>1, <1>2
  <1>4. n.old # None /\ n.old.on /\ n.old.prov # n.new.prov BY <1>3
  <1>5. n.new.prov \notin Own => add BY <1>4 DEF add
  <1> QED BY <1>2, <1>4, <1>5

LEMMA EditTurn ==
  ASSUME OrderedInv, EditsWait, NEW s \in Subnets, NEW new \in Specs[s] \cup {None}, Edit(s, new)
  PROVE  OrderInv' /\ MoveInv'
  <1> DEFINE n == [sub |-> s, old |-> lister[s], new |-> new]
             R == Raised(n)
  <1>1. /\ n \in Note /\ n.old # n.new
        /\ \A e : Due(e)' <=> Due(e) \/ e \in R
        /\ \A t \in Subnets : lister'[t] = IF t = s THEN new ELSE lister[t]
        /\ \A t \in Subnets : \A p : t # s => (Has(t, p)' <=> Has(t, p))
        /\ \A p : Has(s, p)' <=> new # None /\ new.on /\ new.prov = p
    BY EditFacts DEF OrderedInv
  <1>2. n.sub = s /\ n.old = lister[s] /\ n.new = new OBVIOUS
  <1>3. /\ UNCHANGED <<queue, task>> /\ notes' = Append(notes, n)
        /\ Settled(s) \/ Reconfigures(lister[s], new)
    BY DEF Edit
  <1>4. SubInv BY DEF OrderedInv
  <1> HIDE DEF n
  <1>5. /\ \A t, op, p : Item(t, op, p) \in R => t = s /\ p \notin Own
        /\ \A p : Has(s, p)' /\ p \notin Own => Item(s, "ADD", p) \in R \/ Item(s, "UPDATE", p) \in R
        /\ \A t, q : Item(t, "DELETE", q) \in R /\ new # None /\ new.on =>
             /\ lister[s] # None /\ lister[s].on /\ lister[s].prov # new.prov
             /\ new.prov \notin Own => Item(s, "ADD", new.prov) \in R
    BY <1>1, <1>2, RaisedFits, RaisedMoves
  <1> DEFINE last == Len(notes) + 1
  <1>6. /\ DOMAIN notes' = DOMAIN notes \cup {last} /\ notes'[last] = n
        /\ \A i \in DOMAIN notes : notes'[i] = notes[i] /\ i # last /\ \A j \in 1 .. i - 1 : j \in DOMAIN notes
        /\ \A j \in 1 .. last - 1 : j \in DOMAIN notes
    BY <1>1, <1>3, <1>4 DEF SubInv, ListTyped
  <1>7. \A i \in DOMAIN notes : \A t, op, p : Item(t, op, p) \in Raised(notes[i]) => t = notes[i].sub
    <2>1. \A i \in DOMAIN notes : notes[i] \in Note /\ notes[i].old # notes[i].new
      BY <1>4 DEF SubInv, ListTyped
    <2> QED BY <2>1, RaisedFits
  <1> HIDE DEF R, last
  <1>8. OrderInv'
    <2> SUFFICES ASSUME NEW t \in Subnets, NEW q \in Providers, On(t)'
                 PROVE  LET d == Item(t, "DELETE", q) IN
                        /\ d \notin queue.later
                        /\ d \in queue.running => d \notin queue.dirty
                        /\ \A i \in DOMAIN notes' : d \in Raised(notes'[i]) =>
                             /\ \A e \in Pending(queue) : e.sub = t => e.op = "UPDATE"
                             /\ \A j \in 1 .. i - 1 : notes'[j].sub # t
                        /\ d \in queue.dirty => \A p \in Providers :
                             /\ Item(t, "ADD", p) \notin queue.running \cup queue.later
                             /\ Precedes(queue.order, d, Item(t, "ADD", p))
      BY <1>3 DEF OrderInv
    <2> DEFINE d == Item(t, "DELETE", q)
    <2>1. d.sub = t BY ItemParts
    <2>2. CASE t = s /\ Settled(s)
      <3>1. \A e \in Pending(queue) : e.sub # t BY <2>2 DEF Settled
      <3>2. d \notin queue.later /\ d \notin queue.running /\ d \notin queue.dirty
        BY <2>1, <3>1 DEF Pending
      <3>3. \A i \in DOMAIN notes' : d \in Raised(notes'[i]) => \A j \in 1 .. i - 1 : notes'[j].sub # t
        <4>1. \A i \in DOMAIN notes : notes[i].sub # t BY <2>2 DEF Settled
        <4> HIDE DEF d
        <4>2. \A i \in DOMAIN notes : d \notin Raised(notes'[i]) BY <1>6, <1>7, <4>1 DEF d
        <4> QED BY <1>6, <4>1, <4>2
      <3> HIDE DEF d
      <3> QED BY <3>1, <3>2, <3>3 DEF d
    <2>3. CASE ~(t = s /\ Settled(s))
      <3>1. On(t) /\ d \notin R
        <4>1. CASE t # s BY <1>1, <1>5, <4>1 DEF On
        <4>2. CASE t = s BY <1>1, <1>3, <1>5, <2>3, <4>2 DEF On, Reconfigures
        <4> QED BY <4>1, <4>2
      <3>2. /\ d \notin queue.later
            /\ d \in queue.running => d \notin queue.dirty
            /\ \A i \in DOMAIN notes : d \in Raised(notes[i]) =>
                 /\ \A e \in Pending(queue) : e.sub = t => e.op = "UPDATE"
                 /\ \A j \in 1 .. i - 1 : notes[j].sub # t
            /\ d \in queue.dirty => \A p \in Providers :
                 /\ Item(t, "ADD", p) \notin queue.running \cup queue.later
                 /\ Precedes(queue.order, d, Item(t, "ADD", p))
        BY <3>1 DEF OrderedInv, OrderInv
      <3> HIDE DEF d
      <3>3. \A i \in DOMAIN notes' : d \in Raised(notes'[i]) => i \in DOMAIN notes /\ d \in Raised(notes[i])
        BY <1>6, <3>1 DEF R
      <3>4. \A i \in DOMAIN notes : (\A j \in 1 .. i - 1 : notes[j].sub # t) =>
              \A j \in 1 .. i - 1 : notes'[j].sub # t
        BY <1>6
      <3> QED BY <3>2, <3>3, <3>4 DEF d
    <2> QED BY <2>2, <2>3
  <1>9. MoveInv'
    <2> SUFFICES ASSUME NEW t \in Subnets, NEW p \in Providers, NEW q \in Providers, Has(t, p)', p \notin Own,
                        Going(t, q)' \/ Doing(Item(t, "DELETE", q))'
                 PROVE  Due(Item(t, "ADD", p))'
      BY DEF MoveInv
    <2>1. Due(Item(t, "ADD", p)) => Due(Item(t, "ADD", p))' BY <1>1
    <2>2. Doing(Item(t, "DELETE", q))' <=> Doing(Item(t, "DELETE", q)) BY <1>3 DEF Doing
    <2>3. CASE t # s
      <3>1. Has(t, p) /\ (Going(t, q) \/ Doing(Item(t, "DELETE", q)))
        BY <1>1, <1>5, <2>2, <2>3 DEF Going
      <3> QED BY <2>1, <3>1 DEF OrderedInv, MoveInv
    <2>4. CASE t = s /\ Item(t, "DELETE", q) \in R
      <3>1. new # None /\ new.on /\ new.prov = p BY <1>1, <2>4
      <3> QED BY <1>1, <1>5, <2>4, <3>1
    <2>5. CASE t = s /\ (Going(t, q) \/ Doing(Item(t, "DELETE", q)))
      <3>1. ~Settled(s) BY <1>4, <2>5, SettledRests DEF Going
      <3>2. Has(s, p) BY <1>1, <1>3, <2>5, <3>1 DEF Reconfigures, Has
      <3> QED BY <2>1, <2>5, <3>2 DEF OrderedInv, MoveInv
    <2> QED BY <1>1, <2>2, <2>3, <2>4, <2>5 DEF Going
  <1> QED BY <1>8, <1>9

\* Steps that keep what is due and what is asked for keep what a move is about.
LEMMA MoveKept ==
  ASSUME OrderedInv, UNCHANGED <<lister, task>>, \A e : Due(e)' <=> Due(e)
  PROVE  MoveInv'
  <1>1. /\ \A s, p : (Has(s, p)' <=> Has(s, p)) /\ (Going(s, p)' <=> Going(s, p))
        /\ \A e : Doing(e)' <=> Doing(e)
    BY DEF Has, Going, Doing
  <1> QED BY <1>1 DEF OrderedInv, MoveInv

LEMMA DeliverTurn == ASSUME OrderedInv, Deliver PROVE OrderInv' /\ MoveInv'
  <1> DEFINE n == Head(notes)
             events == EventsOf(n)
  <1>1. SubInv BY DEF OrderedInv
  <1>2. /\ notes \in Seq(Note) /\ notes # <<>> /\ QueueOK(queue, Event)
        /\ \A i \in DOMAIN notes : notes[i] \in Note /\ notes[i].old # notes[i].new
    BY <1>1 DEF Deliver, SubInv, ListTyped, QueueTyped
  <1>3. n = notes[1] /\ 1 \in DOMAIN notes /\ n \in Note /\ n.old # n.new BY <1>2
  <1>4. /\ UNCHANGED <<lister, task>> /\ notes' = Tail(notes)
        /\ queue' = AddEach(queue, events)
    BY DEF Deliver
  <1>5. \A i \in DOMAIN notes' : /\ i \in Nat /\ i + 1 \in DOMAIN notes /\ notes'[i] = notes[i + 1]
                                 /\ 1 \in 1 .. (i + 1) - 1
                                 /\ \A j \in 1 .. i - 1 : /\ j + 1 \in 1 .. (i + 1) - 1
                                                          /\ notes'[j] = notes[j + 1]
    BY <1>2, <1>4
  <1>6. /\ events \in Seq(Event) /\ Len(events) <= 2
        /\ \A t, op, p : Item(t, op, p) \in Raised(n) => t = n.sub
        /\ \A t, q : Len(events) = 2 => events[2] # Item(t, "DELETE", q)
    BY <1>3, RaisedSet, RaisedFits, DeleteFirst
  <1>7. events # <<>> => events[1] \in Raised(n)
    <2> HIDE DEF n
    <2>1. events # <<>> => 1 \in DOMAIN events BY <1>6
    <2> QED BY <2>1 DEF Raised, ToSet
  <1>8. /\ queue'.dirty = queue.dirty \cup Raised(n) /\ queue'.later = queue.later
        /\ queue'.running = queue.running
    <2> HIDE DEF n
    <2> QED BY <1>2, <1>4, <1>6, AddEachSets DEF Raised
  <1>9. ToSet(queue.order) \subseteq queue.dirty BY <1>2 DEF QueueOK
  <1>10. \A e \in Raised(n) : e.sub = n.sub
    <2>1. \A e \in Raised(n) : \E op, p : e = Item(n.sub, op, p) BY <1>3, RaisedSet
    <2> QED BY <2>1, ItemParts
  <1> HIDE DEF n, events
  <1>11. OrderInv'
    <2> SUFFICES ASSUME NEW t \in Subnets, NEW q \in Providers, On(t)
                 PROVE  LET d == Item(t, "DELETE", q) IN
                        /\ d \notin queue'.later
                        /\ d \in queue'.running => d \notin queue'.dirty
                        /\ \A i \in DOMAIN notes' : d \in Raised(notes'[i]) =>
                             /\ \A e \in Pending(queue') : e.sub = t => e.op = "UPDATE"
                             /\ \A j \in 1 .. i - 1 : notes'[j].sub # t
                        /\ d \in queue'.dirty => \A p \in Providers :
                             /\ Item(t, "ADD", p) \notin queue'.running \cup queue'.later
                             /\ Precedes(queue'.order, d, Item(t, "ADD", p))
      BY <1>4 DEF OrderInv, On
    <2> DEFINE d == Item(t, "DELETE", q)
    <2>1. /\ d \notin queue.later
          /\ d \in queue.running => d \notin queue.dirty
          /\ \A i \in DOMAIN notes : d \in Raised(notes[i]) =>
               /\ \A e \in Pending(queue) : e.sub = t => e.op = "UPDATE"
               /\ \A j \in 1 .. i - 1 : notes[j].sub # t
          /\ d \in queue.dirty => \A p \in Providers :
               /\ Item(t, "ADD", p) \notin queue.running \cup queue.later
               /\ Precedes(queue.order, d, Item(t, "ADD", p))
      BY DEF OrderedInv, OrderInv
    <2>2. d.sub = t /\ d.op = "DELETE" /\ d \in Event BY ItemParts DEF Event, Item
    <2> HIDE DEF d
    <2>3. d \in queue'.running => d \notin queue'.dirty
      BY <1>3, <1>8, <2>1, <2>2 DEF Pending
    <2>4. ASSUME NEW i \in DOMAIN notes', d \in Raised(notes'[i])
          PROVE  (\A e \in Pending(queue') : e.sub = t => e.op = "UPDATE") /\ \A j \in 1 .. i - 1 : notes'[j].sub # t
      <3>1. (\A e \in Pending(queue) : e.sub = t => e.op = "UPDATE") /\ \A j \in 1 .. (i + 1) - 1 : notes[j].sub # t
        BY <1>5, <2>1, <2>4
      <3>2. n.sub # t BY <1>3, <1>5, <3>1
      <3> QED BY <1>5, <1>8, <1>10, <3>1, <3>2 DEF Pending
    <2>5. ASSUME d \in queue'.dirty, NEW p \in Providers
          PROVE  /\ Item(t, "ADD", p) \notin queue'.running \cup queue'.later
                 /\ Precedes(queue'.order, d, Item(t, "ADD", p))
      <3> DEFINE g == Item(t, "ADD", p)
      <3>1. g.sub = t /\ g.op = "ADD" /\ d # g BY ItemParts DEF d
      <3>2. /\ g \notin queue.running \cup queue.later
            /\ Precedes(queue.order, d, g)
            /\ d \in Raised(n) => g \notin ToSet(queue.order)
        <4>1. CASE d \in Raised(n)
          <5>1. \A e \in Pending(queue) : e.sub = t => e.op = "UPDATE" BY <1>3, <2>1, <4>1
          <5> HIDE DEF g
          <5>2. g \notin Pending(queue) /\ d \notin Pending(queue) BY <2>2, <3>1, <5>1
          <5> QED BY <1>9, <5>2 DEF Pending, Precedes, ToSet
        <4>2. CASE d \notin Raised(n) BY <1>8, <2>1, <2>5, <4>2
        <4> QED BY <4>1, <4>2
      <3> HIDE DEF g
      <3>3. Len(events) = 2 => events[2] # d BY <1>6 DEF d
      <3>4. Precedes(queue'.order, d, g) BY <1>2, <1>4, <1>6, <1>7, <3>1, <3>2, <3>3, AddEachPrecedes
      <3> QED BY <1>8, <3>2, <3>4 DEF g
    <2> QED BY <1>8, <2>1, <2>3, <2>4, <2>5 DEF d
  <1>12. MoveInv' BY <1>1, <1>4, InformerDue, MoveKept
  <1> QED BY <1>11, <1>12

LEMMA RetryTurn == ASSUME OrderedInv, NEW e \in queue.later, RetryTimer(e) PROVE OrderInv' /\ MoveInv'
  <1>1. SubInv /\ QueueOK(queue, Event) /\ e \in Event
    BY DEF OrderedInv, SubInv, QueueTyped, QueueOK, QueueOf
  <1>2. UNCHANGED <<lister, task, notes>> /\ queue' = Expire(queue, e) BY DEF RetryTimer
  <1>3. /\ queue'.dirty = queue.dirty \cup {e} /\ queue'.later = queue.later \ {e}
        /\ queue'.running = queue.running
    BY <1>1, <1>2, ExpireSets
  <1>4. OrderInv'
    <2> SUFFICES ASSUME NEW t \in Subnets, NEW q \in Providers, On(t)
                 PROVE  LET d == Item(t, "DELETE", q) IN
                        /\ d \notin queue'.later
                        /\ d \in queue'.running => d \notin queue'.dirty
                        /\ \A i \in DOMAIN notes : d \in Raised(notes[i]) =>
                             /\ \A x \in Pending(queue') : x.sub = t => x.op = "UPDATE"
                             /\ \A j \in 1 .. i - 1 : notes[j].sub # t
                        /\ d \in queue'.dirty => \A p \in Providers :
                             /\ Item(t, "ADD", p) \notin queue'.running \cup queue'.later
                             /\ Precedes(queue'.order, d, Item(t, "ADD", p))
      BY <1>2 DEF OrderInv, On
    <2> DEFINE d == Item(t, "DELETE", q)
    <2>1. /\ d \notin queue.later
          /\ d \in queue.running => d \notin queue.dirty
          /\ \A i \in DOMAIN notes : d \in Raised(notes[i]) =>
               /\ \A x \in Pending(queue) : x.sub = t => x.op = "UPDATE"
               /\ \A j \in 1 .. i - 1 : notes[j].sub # t
          /\ d \in queue.dirty => \A p \in Providers :
               /\ Item(t, "ADD", p) \notin queue.running \cup queue.later
               /\ Precedes(queue.order, d, Item(t, "ADD", p))
      BY DEF OrderedInv, OrderInv
    <2>2. \A p \in Providers : d # Item(t, "ADD", p) BY ItemParts
    <2> HIDE DEF d
    <2>3. d # e BY <2>1
    <2>4. d \in queue.dirty => \A p \in Providers :
            Precedes(queue'.order, d, Item(t, "ADD", p))
      <3> SUFFICES ASSUME d \in queue.dirty, NEW op \in {"ADD", "UPDATE"}, NEW p \in Providers
                   PROVE  Precedes(queue'.order, d, Item(t, "ADD", p))
        OBVIOUS
      <3> DEFINE g == Item(t, "ADD", p)
      <3>1. Precedes(queue.order, d, g) /\ d # g BY <2>1, <2>2
      <3> HIDE DEF g
      <3>2. Precedes(queue'.order, d, g) BY <1>1, <1>2, <2>3, <3>1, ExpirePrecedes
      <3> QED BY <3>2 DEF g
    <2>5. Pending(queue') \subseteq Pending(queue) BY <1>3 DEF Pending
    <2> QED BY <1>3, <2>1, <2>3, <2>4, <2>5 DEF d
  <1>5. MoveInv' BY <1>1, <1>2, InformerDue, MoveKept
  <1> QED BY <1>4, <1>5

\* Who is added has left: the first waiting event would be the DELETE.
LEMMA TakenFirst ==
  ASSUME OrderedInv, Take, NEW s \in Subnets, NEW p \in Providers, NextEvent = Item(s, "ADD", p),
         On(s), NEW q \in Providers
  PROVE  ~Going(s, q)
  <1> DEFINE d == Item(s, "DELETE", q)
             g == Item(s, "ADD", p)
  <1>1. SubInv /\ QueueOK(queue, Event) /\ queue.order # <<>> /\ queue.running = {} /\ task = None
    BY IdleType DEF OrderedInv, Take, SubInv, QueueTyped
  <1>2. Head(queue.order) = g /\ g \in queue.dirty BY <1>1, GetSets DEF NextEvent
  <1>3. /\ d \notin queue.later
        /\ \A i \in DOMAIN notes : d \in Raised(notes[i]) => \A e \in Pending(queue) : e.sub = s => e.op = "UPDATE"
        /\ d \in queue.dirty => Precedes(queue.order, d, g)
    BY DEF OrderedInv, OrderInv
  <1>4. g.sub = s /\ g.op = "ADD" BY ItemParts
  <1> HIDE DEF d, g
  <1>5. d \notin queue.dirty
    <2>1. queue.order \in Seq(Event) /\ ToSet(queue.order) = queue.dirty \ queue.running
      BY <1>1 DEF QueueOK, QueueOf
    <2> QED BY <1>1, <1>2, <1>3, <2>1, HeadPrecedes
  <1>6. \A n \in ToSet(notes) : d \notin Raised(n) BY <1>2, <1>3, <1>4 DEF ToSet, Pending
  <1> QED BY <1>3, <1>5, <1>6 DEF Going, Due, Waiting, d

LEMMA TakeTurn == ASSUME OrderedInv, Take PROVE OrderInv' /\ MoveInv'
  <1>1. SubInv /\ QueueOK(queue, Event) /\ queue.order # <<>> /\ queue.running = {} /\ task = None
    BY IdleType DEF OrderedInv, Take, SubInv, QueueTyped
  <1>2. UNCHANGED <<lister, notes>> /\ queue' = Get(queue) BY DEF Take
  <1> DEFINE e == Head(queue.order)
  <1>3. /\ e \in queue.dirty /\ queue'.dirty = queue.dirty \ {e} /\ queue'.later = queue.later
        /\ queue'.running = {e}
    BY <1>1, <1>2, GetSets
  <1>4. queue.order \in Seq(Event) /\ ToSet(queue.order) = queue.dirty BY <1>1 DEF QueueOK, QueueOf
  <1> HIDE DEF e
  <1>5. OrderInv'
    <2> SUFFICES ASSUME NEW t \in Subnets, NEW q \in Providers, On(t)
                 PROVE  LET d == Item(t, "DELETE", q) IN
                        /\ d \notin queue'.later
                        /\ d \in queue'.running => d \notin queue'.dirty
                        /\ \A i \in DOMAIN notes : d \in Raised(notes[i]) =>
                             /\ \A x \in Pending(queue') : x.sub = t => x.op = "UPDATE"
                             /\ \A j \in 1 .. i - 1 : notes[j].sub # t
                        /\ d \in queue'.dirty => \A p \in Providers :
                             /\ Item(t, "ADD", p) \notin queue'.running \cup queue'.later
                             /\ Precedes(queue'.order, d, Item(t, "ADD", p))
      BY <1>2 DEF OrderInv, On
    <2> DEFINE d == Item(t, "DELETE", q)
    <2>1. /\ d \notin queue.later
          /\ \A i \in DOMAIN notes : d \in Raised(notes[i]) =>
               /\ \A x \in Pending(queue) : x.sub = t => x.op = "UPDATE"
               /\ \A j \in 1 .. i - 1 : notes[j].sub # t
          /\ d \in queue.dirty => \A p \in Providers :
               /\ Item(t, "ADD", p) \notin queue.running \cup queue.later
               /\ Precedes(queue.order, d, Item(t, "ADD", p))
      BY DEF OrderedInv, OrderInv
    <2> HIDE DEF d
    <2>2. ASSUME d \in queue'.dirty, NEW p \in Providers
          PROVE  /\ Item(t, "ADD", p) \notin queue'.running \cup queue'.later
                 /\ Precedes(queue'.order, d, Item(t, "ADD", p))
      <3> DEFINE g == Item(t, "ADD", p)
      <3>1. g \notin queue.later /\ Precedes(queue.order, d, g) /\ d \in queue.dirty
        BY <1>3, <2>1, <2>2
      <3> HIDE DEF g
      <3>2. Precedes(queue'.order, d, g) BY <1>1, <1>2, <3>1, GetPrecedes
      <3>3. e = g => d \notin ToSet(queue.order) BY <1>1, <1>4, <3>1, HeadPrecedes DEF e
      <3> QED BY <1>3, <1>4, <3>1, <3>2, <3>3 DEF g
    <2>3. Pending(queue') \subseteq Pending(queue) BY <1>3 DEF Pending
    <2> QED BY <1>3, <2>1, <2>2, <2>3 DEF d
  <1>6. MoveInv'
    <2> SUFFICES ASSUME NEW t \in Subnets, NEW p \in Providers, NEW q \in Providers, Has(t, p), p \notin Own,
                        Going(t, q)' \/ Doing(Item(t, "DELETE", q))'
                 PROVE  Due(Item(t, "ADD", p))'
      BY <1>2 DEF MoveInv, Has
    <2>1. /\ Due(NextEvent) /\ \A x : Due(x)' => Due(x)
          /\ \A x : x # NextEvent => (Due(x)' <=> Due(x))
      BY <1>1, TakeDue
    <2>2. \A x : Doing(x)' => x = NextEvent BY DEF Take, Doing
    <2>3. Going(t, q) BY <2>1, <2>2 DEF Going
    <2>4. Due(Item(t, "ADD", p)) BY <2>3 DEF OrderedInv, MoveInv
    <2>5. NextEvent # Item(t, "ADD", p) BY <2>3, TakenFirst DEF Has, On
    <2> QED BY <2>1, <2>4, <2>5
  <1> QED BY <1>5, <1>6

LEMMA SkipTurn == ASSUME OrderedInv, Skip PROVE OrderInv' /\ MoveInv'
  <1> DEFINE e == Head(queue.order)
             failed == SyncFails(e)
             q1 == Get(queue)
  <1>1. /\ SubInv /\ QueueOK(queue, Event) /\ queue.order # <<>> /\ queue.running = {} /\ task = None
        /\ QueueOK(q1, Event) /\ e \in Event
    BY IdleType DEF OrderedInv, Skip, SubInv, QueueTyped, NextEvent
  <1>2. /\ UNCHANGED <<lister, notes>> /\ queue' = Handled(q1, e, failed) /\ failed \in BOOLEAN
    BY DEF Skip, NextEvent, SyncFails
  <1>3. \A t \in Subnets : On(t) => e.sub # t
    BY DEF Skip, SyncSkips, SyncFails, On, NextEvent
  <1>4. e \in queue.dirty /\ q1.dirty = queue.dirty \ {e} /\ q1.later = queue.later /\ q1.running = {e}
    BY <1>1, GetSets
  <1> HIDE DEF e, failed, q1
  <1>5. /\ queue'.dirty = queue.dirty \ {e} /\ queue'.running = {}
        /\ queue'.later \subseteq queue.later \cup {e}
    BY <1>1, <1>2, <1>4, HandledSets
  <1>6. OrderInv'
    <2> SUFFICES ASSUME NEW t \in Subnets, NEW q \in Providers, On(t)
                 PROVE  LET d == Item(t, "DELETE", q) IN
                        /\ d \notin queue'.later
                        /\ d \in queue'.running => d \notin queue'.dirty
                        /\ \A i \in DOMAIN notes : d \in Raised(notes[i]) =>
                             /\ \A x \in Pending(queue') : x.sub = t => x.op = "UPDATE"
                             /\ \A j \in 1 .. i - 1 : notes[j].sub # t
                        /\ d \in queue'.dirty => \A p \in Providers :
                             /\ Item(t, "ADD", p) \notin queue'.running \cup queue'.later
                             /\ Precedes(queue'.order, d, Item(t, "ADD", p))
      BY <1>2 DEF OrderInv, On
    <2> DEFINE d == Item(t, "DELETE", q)
    <2>1. /\ d \notin queue.later
          /\ \A i \in DOMAIN notes : d \in Raised(notes[i]) =>
               /\ \A x \in Pending(queue) : x.sub = t => x.op = "UPDATE"
               /\ \A j \in 1 .. i - 1 : notes[j].sub # t
          /\ d \in queue.dirty => \A p \in Providers :
               /\ Item(t, "ADD", p) \notin queue.running \cup queue.later
               /\ Precedes(queue.order, d, Item(t, "ADD", p))
      BY DEF OrderedInv, OrderInv
    <2>2. e # d /\ (\A op, p : e # Item(t, op, p)) /\ \A op \in {"ADD", "UPDATE"} : \A p : d # Item(t, "ADD", p)
      BY <1>3, ItemParts
    <2> HIDE DEF d
    <2>3. ASSUME d \in queue'.dirty, NEW p \in Providers
          PROVE  /\ Item(t, "ADD", p) \notin queue'.running \cup queue'.later
                 /\ Precedes(queue'.order, d, Item(t, "ADD", p))
      <3> DEFINE g == Item(t, "ADD", p)
      <3>1. g \notin queue.later /\ Precedes(queue.order, d, g) /\ d # g /\ e # g
        BY <1>5, <2>1, <2>2, <2>3
      <3> HIDE DEF g
      <3>2. Precedes(q1.order, d, g) BY <1>1, <3>1, GetPrecedes DEF q1
      <3>3. Precedes(queue'.order, d, g) BY <1>1, <1>2, <2>2, <3>1, <3>2, HandledPrecedes
      <3> QED BY <1>5, <3>1, <3>3 DEF g
    <2>4. Pending(queue') \subseteq Pending(queue) BY <1>4, <1>5 DEF Pending
    <2> QED BY <1>5, <2>1, <2>2, <2>3, <2>4 DEF d
  <1>7. MoveInv'
    <2>1. /\ UNCHANGED <<lister, task>> /\ \A x : Due(x)' => Due(x)
          /\ \A x : x # e => (Due(x)' <=> Due(x))
      BY <1>1, SkipFacts, SkipDue DEF e, NextEvent
    <2>2. \A t \in Subnets : \A x : On(t) /\ x.sub = t => x # e BY <1>3
    <2>3. \A t \in Subnets : \A p : Has(t, p) => On(t) BY DEF Has, On
    <2>4. \A t, p : Item(t, "ADD", p).sub = t BY ItemParts
    <2>5. \A t \in Subnets : \A p : Has(t, p) =>
            (Due(Item(t, "ADD", p)) => Due(Item(t, "ADD", p))')
      BY <2>1, <2>2, <2>3, <2>4
    <2>6. (\A s, p : Has(s, p)' <=> Has(s, p)) /\ \A x : Doing(x)' <=> Doing(x)
      BY <2>1 DEF Has, Doing
    <2>7. \A s, p : Going(s, p)' => Going(s, p) BY <2>1 DEF Going
    <2> QED BY <2>5, <2>6, <2>7 DEF OrderedInv, MoveInv
  <1> QED BY <1>6, <1>7

\* Only a DELETE that could not stop a server is retried, and none is after a move.
LEMMA FinishTurn ==
  ASSUME OrderedInv, task # None, NEW failed \in BOOLEAN,
         failed /\ task.ev.op = "DELETE" => ~On(Sub),
         queue' = Handled(queue, task.ev, failed), task' = None, UNCHANGED <<lister, notes>>
  PROVE  OrderInv' /\ MoveInv'
  <1> DEFINE e == task.ev
  <1>1. SubInv /\ QueueOK(queue, Event) /\ e \in Event /\ queue.running = {e}
    BY TaskItem DEF OrderedInv, SubInv, QueueTyped, TaskTyped, Task
  <1>2. queue' = Handled(queue, e, failed) OBVIOUS
  <1>3. failed /\ e.op = "DELETE" => ~On(e.sub) BY DEF Sub
  <1>4. \A d : Doing(d) <=> d = e BY DEF Doing
  <1> HIDE DEF e
  <1>5. /\ queue'.dirty = queue.dirty /\ queue'.running = {}
        /\ queue'.later = queue.later \cup (IF failed THEN {e} ELSE {})
    BY <1>1, <1>2, HandledSets
  <1>6. OrderInv'
    <2> SUFFICES ASSUME NEW t \in Subnets, NEW q \in Providers, On(t)
                 PROVE  LET d == Item(t, "DELETE", q) IN
                        /\ d \notin queue'.later
                        /\ d \in queue'.running => d \notin queue'.dirty
                        /\ \A i \in DOMAIN notes : d \in Raised(notes[i]) =>
                             /\ \A x \in Pending(queue') : x.sub = t => x.op = "UPDATE"
                             /\ \A j \in 1 .. i - 1 : notes[j].sub # t
                        /\ d \in queue'.dirty => \A p \in Providers :
                             /\ Item(t, "ADD", p) \notin queue'.running \cup queue'.later
                             /\ Precedes(queue'.order, d, Item(t, "ADD", p))
      BY DEF OrderInv, On
    <2> DEFINE d == Item(t, "DELETE", q)
    <2>1. /\ d \notin queue.later
          /\ d \in queue.running => d \notin queue.dirty
          /\ \A i \in DOMAIN notes : d \in Raised(notes[i]) =>
               /\ \A x \in Pending(queue) : x.sub = t => x.op = "UPDATE"
               /\ \A j \in 1 .. i - 1 : notes[j].sub # t
          /\ d \in queue.dirty => \A p \in Providers :
               /\ Item(t, "ADD", p) \notin queue.running \cup queue.later
               /\ Precedes(queue.order, d, Item(t, "ADD", p))
      BY DEF OrderedInv, OrderInv
    <2>2. d = e => e.sub = t /\ e.op = "DELETE" BY ItemParts
    <2>3. \A p \in Providers : d # Item(t, "ADD", p) BY ItemParts
    <2> HIDE DEF d
    <2>4. d \notin queue'.later BY <1>3, <1>5, <2>1, <2>2
    <2>5. ASSUME d \in queue'.dirty, NEW p \in Providers
          PROVE  /\ Item(t, "ADD", p) \notin queue'.running \cup queue'.later
                 /\ Precedes(queue'.order, d, Item(t, "ADD", p))
      <3> DEFINE g == Item(t, "ADD", p)
      <3>1. g \notin queue.running \cup queue.later /\ Precedes(queue.order, d, g) /\ d # g
        BY <1>5, <2>1, <2>3, <2>5
      <3> HIDE DEF g
      <3>2. e # d BY <1>1, <1>5, <2>1, <2>5
      <3>3. Precedes(queue'.order, d, g) BY <1>1, <1>2, <3>1, <3>2, HandledPrecedes
      <3> QED BY <1>1, <1>5, <3>1, <3>3 DEF g
    <2>6. Pending(queue') \subseteq Pending(queue) BY <1>1, <1>5 DEF Pending
    <2> QED BY <1>5, <2>1, <2>4, <2>5, <2>6 DEF d
  <1>7. MoveInv'
    <2>1. \A x : Due(x)' <=> Due(x) \/ (failed /\ x = e) BY <1>1, <1>2, FinishDue DEF e
    <2>2. /\ \A s, p : Has(s, p)' <=> Has(s, p)
          /\ \A s, p : Going(s, p)' => Going(s, p) \/ Doing(Item(s, "DELETE", p))
          /\ \A x : ~Doing(x)'
      BY <1>4, <2>1 DEF Has, Going, Doing
    <2> QED BY <2>1, <2>2 DEF OrderedInv, MoveInv
  <1> QED BY <1>6, <1>7

\* Within an item nothing changes about the order.
LEMMA WithinTurn ==
  ASSUME OrderedInv, UNCHANGED <<lister, notes, queue>>,
         task' = task \/ (task # None /\ task' # None /\ task'.ev = task.ev)
  PROVE  OrderInv' /\ MoveInv'
  <1>1. OrderInv' BY DEF OrderedInv, OrderInv, On
  <1>2. \A e : (Due(e)' <=> Due(e)) /\ (Doing(e)' <=> Doing(e)) BY DEF Due, Doing
  <1>3. \A s, p : (Has(s, p)' <=> Has(s, p)) /\ (Going(s, p)' <=> Going(s, p)) BY <1>2 DEF Has, Going
  <1> QED BY <1>1, <1>2, <1>3 DEF OrderedInv, MoveInv

LEMMA WorkTurn ==
  ASSUME OrderedInv, Look \/ (\E f \in Families : FamilyStep(f)) \/ End,
         task.ev.op = "DELETE" /\ On(Sub) => stopFaults' = stopFaults
  PROVE  OrderInv' /\ MoveInv'
  <1>1. SubInv /\ ClosingInv BY DEF OrderedInv
  <1>2. UNCHANGED <<lister, notes>> /\ task # None
    BY DEF Look, End, TaskAt, FamilyStep, Unbuildable, Configure, Join, Start, StartFails, Withdraw, Stop,
           StopFails, Working
  <1>3. CASE End
    <2> DEFINE failed == task.failed
    <2>1. failed \in BOOLEAN BY <1>1, <1>2 DEF SubInv, TaskTyped, Task
    <2>2. task.ev.op = "DELETE" => ~failed BY <1>1, <1>2 DEF ClosingInv
    <2>3. queue' = Handled(queue, task.ev, failed) /\ task' = None BY <1>3 DEF End
    <2> HIDE DEF failed
    <2> QED BY <1>2, <2>1, <2>2, <2>3, FinishTurn
  <1>4. CASE Look /\ task.ev.prov \notin Attached
    <2>1. task' = None /\ queue' = Handled(queue, task.ev, FALSE) BY <1>4 DEF Look
    <2> QED BY <1>2, <2>1, FinishTurn
  <1>5. CASE (\E f \in Families : StopFails(f)) /\ task.ev.op = "DELETE"
    <2>1. task' = None /\ queue' = Handled(queue, task.ev, TRUE) /\ stopFaults' = stopFaults + 1
      BY <1>5 DEF StopFails, CloseFails
    <2>2. ~On(Sub)
      <3>1. stopFaults \in Nat BY <1>1 DEF ClosingInv
      <3> QED BY <1>5, <2>1, <3>1
    <2> QED BY <1>2, <2>1, <2>2, FinishTurn
  <1>6. CASE /\ ~End /\ ~(Look /\ task.ev.prov \notin Attached)
             /\ ~((\E f \in Families : StopFails(f)) /\ task.ev.op = "DELETE")
    <2>1. UNCHANGED queue
      <3>1. CASE Look BY <1>6, <3>1 DEF Look
      <3>2. CASE \E f \in Families : StopFails(f) BY <1>6, <3>2 DEF StopFails
      <3>3. CASE \E f \in Families : FamilyStep(f) /\ ~StopFails(f)
        BY <3>3 DEF FamilyStep, Unbuildable, Configure, Join, Start, StartFails, Withdraw, Stop
      <3> QED BY <1>6, <3>1, <3>2, <3>3
    <2>2. task' # None /\ task'.ev = task.ev
      <3>1. CASE Look BY <1>1, <1>6, <3>1, LookMoves
      <3>2. CASE \E f \in Families : FamilyStep(f)
        <4>1. PICK f \in Families : FamilyStep(f) BY <3>2
        <4>2. PICK step \in {"build", "serve", "stop"} : Working(f, step)
          BY <4>1 DEF FamilyStep, Unbuildable, Configure, Join, Start, StartFails, Withdraw, Stop, StopFails
        <4>3. CASE \E failed \in BOOLEAN : NextFamily(failed)
          BY <1>1, <2>1, <4>2, <4>3, FamilyDone
        <4>4. CASE \E next \in {"serve", "stop"} : task' = [task EXCEPT !.step = next]
          BY <1>1, <1>2, <2>1, <4>4, NoneAssumption DEF SubInv, TaskTyped, Task
        <4> QED BY <1>6, <4>1, <4>3, <4>4
                DEF FamilyStep, Unbuildable, Configure, Join, Start, StartFails, Withdraw, Stop, StopFails
      <3> QED BY <1>6, <3>1, <3>2
    <2> QED BY <1>2, <2>1, <2>2, WithinTurn
  <1> QED BY <1>3, <1>4, <1>5, <1>6

\* A family's step counts a server that does not close, and a DELETE stops there.
LEMMA FamilyCloses ==
  ASSUME SubInv, ClosingInv, NEW f \in Families, FamilyStep(f)
  PROVE  ClosingInv'
  <1>1. task \in Task /\ task # None
    BY DEF FamilyStep, Unbuildable, Configure, Join, Start, StartFails, Withdraw, Stop, StopFails, Working, TaskAt,
           SubInv, TaskTyped
  <1>2. stopFaults' \in Nat
    <2>1. CASE StopFails(f) BY <2>1 DEF StopFails, CloseFails, ClosingInv
    <2>2. CASE ~StopFails(f)
      BY <2>2 DEF FamilyStep, Unbuildable, Configure, Join, Start, StartFails, Withdraw, Stop, faults, ClosingInv
    <2> QED BY <2>1, <2>2
  <1>3. CASE Unbuildable(f) \/ Configure(f)
    <2>1. task.ev.op # "DELETE" BY <1>3 DEF Unbuildable, Configure, Needed
    <2>2. task'.ev = task.ev BY <1>1, <1>3 DEF Unbuildable, Configure, NextFamily, Task
    <2> QED BY <1>2, <2>1, <2>2 DEF ClosingInv
  <1>4. CASE Join(f) \/ Start(f) \/ StartFails(f)
    <2>1. task.ev.op # "DELETE" BY <1>1, <1>4 DEF Join, Start, StartFails, Working, TaskAt, ClosingInv
    <2>2. task'.ev = task.ev BY <1>1, <1>4 DEF Join, Start, StartFails, NextFamily, Task
    <2> QED BY <1>2, <2>1, <2>2 DEF ClosingInv
  <1>5. CASE Withdraw(f) \/ Stop(f)
    <2>1. /\ task'.ev = task.ev /\ task'.step \in {"build", "stop"}
          /\ task'.failed = task.failed \/ task'.failed = (task.failed \/ FALSE)
      BY <1>1, <1>5 DEF Withdraw, Stop, NextFamily, Task
    <2> QED BY <1>1, <1>2, <2>1 DEF ClosingInv
  <1>6. CASE StopFails(f)
    <2>1. task' = None \/ (task.ev.op # "DELETE" /\ task'.ev = task.ev)
      BY <1>1, <1>6 DEF StopFails, NextFamily, Task
    <2> QED BY <1>2, <2>1 DEF ClosingInv
  <1> QED BY <1>3, <1>4, <1>5, <1>6 DEF FamilyStep

LEMMA ClosingKept ==
  ASSUME SubInv, ClosingInv, Deliver \/ Worker \/ PodWorker \/ (\E e \in queue.later : RetryTimer(e))
  PROVE  ClosingInv'
  <1>1. CASE \E f \in Families : FamilyStep(f) BY <1>1, FamilyCloses
  <1>2. CASE ~\E f \in Families : FamilyStep(f)
    <2>1. UNCHANGED stopFaults
      BY <1>2 DEF Deliver, Worker, PodWorker, RetryTimer, Skip, Take, Look, End, PodTake, PodRead, PodWrite, faults
    <2>2. CASE Take BY <2>1, <2>2 DEF Take, ClosingInv
    <2>3. CASE Look
      <3>1. task \in Task /\ task # None BY <2>3 DEF Look, TaskAt, SubInv, TaskTyped
      <3>2. \/ task' = None
            \/ task'.ev = task.ev /\ task'.failed = task.failed /\ task'.step = "build"
        BY <2>3, <3>1 DEF Look, Task
      <3> QED BY <2>1, <3>1, <3>2 DEF ClosingInv
    <2>4. CASE ~Take /\ ~Look
      <3>1. task' = task \/ task' = None
        BY <1>2, <2>4 DEF Deliver, Worker, PodWorker, RetryTimer, Skip, End, PodTake, PodRead, PodWrite
      <3> QED BY <2>1, <3>1 DEF ClosingInv
    <2> QED BY <2>2, <2>3, <2>4
  <1> QED BY <1>1, <1>2

\* The controller's steps, edits aside, keep the order.
LEMMA OrderedSteps ==
  ASSUME OrderedInv, SubInv',
         Deliver \/ Worker \/ PodWorker \/ (\E e \in queue.later : RetryTimer(e)),
         task # None /\ task.ev.op = "DELETE" /\ On(Sub) => stopFaults' = stopFaults
  PROVE  OrderedInv'
  <1>1. ClosingInv' BY ClosingKept DEF OrderedInv
  <1>2. CASE PodWorker
    <2>1. UNCHANGED <<lister, notes, queue, task>> BY <1>2 DEF PodWorker, PodTake, PodRead, PodWrite
    <2> QED BY <1>1, <2>1, WithinTurn DEF OrderedInv
  <1>3. CASE Look \/ (\E f \in Families : FamilyStep(f)) \/ End
    <2>1. task # None
      BY <1>3 DEF Look, End, TaskAt, FamilyStep, Unbuildable, Configure, Join, Start, StartFails, Withdraw, Stop,
                  StopFails, Working
    <2> QED BY <1>1, <1>3, <2>1, WorkTurn DEF OrderedInv
  <1>4. CASE Skip \/ Take \/ Deliver \/ \E e \in queue.later : RetryTimer(e)
    BY <1>1, <1>4, SkipTurn, TakeTurn, DeliverTurn, RetryTurn DEF OrderedInv
  <1> QED BY <1>2, <1>3, <1>4 DEF Worker

LEMMA OrderedEdit ==
  ASSUME OrderedInv, SubInv', EditsWait, NEW s \in Subnets, NEW new \in Specs[s] \cup {None}, Edit(s, new)
  PROVE  OrderedInv'
  <1>1. UNCHANGED <<task, stopFaults>> BY DEF Edit, faults
  <1>2. ClosingInv' BY <1>1 DEF OrderedInv, ClosingInv
  <1> QED BY <1>2, EditTurn DEF OrderedInv

LEMMA OrderedInit == Init => OrderedInv
  <1> SUFFICES ASSUME Init PROVE OrderedInv OBVIOUS
  <1>1. SubInv BY InvInit
  <1>2. ClosingInv BY DEF Init, ClosingInv
  <1>3. OrderInv BY DEF Init, OrderInv, On
  <1>4. MoveInv BY DEF Init, MoveInv, Has
  <1> QED BY <1>1, <1>2, <1>3, <1>4 DEF OrderedInv

\* What leaves a provider was due or under way already, unless an edit tells of it.
LEMMA MovedKept ==
  ASSUME MovedInv, lister' = lister, \A e : Due(e)' \/ Doing(e)' => Due(e) \/ Doing(e)
  PROVE  MovedInv'
  <1>1. \A s, p : Going(s, p)' \/ Doing(Item(s, "DELETE", p))' => Going(s, p) \/ Doing(Item(s, "DELETE", p))
    BY DEF Going
  <1> QED BY <1>1 DEF MovedInv, On, Moves

LEMMA MovedEdit ==
  ASSUME TurnInv, EditsWait, NEW s \in Subnets, NEW new \in Specs[s] \cup {None}, Edit(s, new)
  PROVE  KnownInv' /\ MovedInv'
  <1> DEFINE n == [sub |-> s, old |-> lister[s], new |-> new]
  <1>1. /\ n \in Note /\ n.old # n.new
        /\ \A e : Due(e)' <=> Due(e) \/ e \in Raised(n)
        /\ \A t \in Subnets : lister'[t] = IF t = s THEN new ELSE lister[t]
    BY EditFacts DEF TurnInv, ServeInv
  <1>2. n.sub = s /\ n.old = lister[s] /\ n.new = new OBVIOUS
  <1>3. /\ \A e : Doing(e)' <=> Doing(e)
        /\ Settled(s) \/ Reconfigures(lister[s], new)
    BY DEF Edit, Doing
  <1> HIDE DEF n
  <1>4. KnownInv' BY <1>1 DEF TurnInv, KnownInv
  <1>5. MovedInv'
    <2> SUFFICES ASSUME NEW t \in Subnets, NEW q \in Providers, On(t)',
                        Going(t, q)' \/ Doing(Item(t, "DELETE", q))'
                 PROVE  Moves
      BY DEF MovedInv, Moves
    <2>1. On(t) /\ (Going(t, q) \/ Doing(Item(t, "DELETE", q))) => Moves BY DEF TurnInv, MovedInv
    <2>2. CASE Item(t, "DELETE", q) \in Raised(n)
      <3>1. t = s BY <1>1, <1>2, <2>2, RaisedFits
      <3>2. new # None /\ new.on BY <1>1, <3>1 DEF On
      <3>3. lister[s] # None /\ lister[s].on /\ lister[s].prov # new.prov
        BY <1>1, <1>2, <2>2, <3>2, RaisedMoves
      <3>4. lister[s] \in Specs[s] /\ new \in Specs[s] BY <3>2, <3>3 DEF TurnInv, KnownInv
      <3> QED BY <3>2, <3>3, <3>4 DEF Moves
    <2>3. CASE Going(t, q) \/ Doing(Item(t, "DELETE", q))
      <3>1. t = s => ~Settled(s) BY <2>3, SettledRests DEF Going, TurnInv, ServeInv
      <3>2. On(t) BY <1>1, <1>3, <3>1 DEF On, Reconfigures
      <3> QED BY <2>1, <2>3, <3>2
    <2> QED BY <1>1, <1>3, <2>2, <2>3 DEF Going
  <1> QED BY <1>4, <1>5

LEMMA MovedSteps ==
  ASSUME TurnInv, Deliver \/ Worker \/ PodWorker \/ (\E e \in queue.later : RetryTimer(e)) \/ UNCHANGED vars
  PROVE  KnownInv' /\ MovedInv'
  <1>1. SubInv /\ MovedInv /\ KnownInv BY DEF TurnInv, ServeInv
  <1>2. UNCHANGED lister
    BY DEF Deliver, Worker, PodWorker, RetryTimer, Skip, Take, Look, End, PodTake, PodRead, PodWrite, FamilyStep,
           Unbuildable, Configure, Join, Start, StartFails, Withdraw, Stop, StopFails, vars
  <1>3. \A e : Due(e)' \/ Doing(e)' => Due(e) \/ Doing(e)
    <2>1. CASE Deliver \/ \E e \in queue.later : RetryTimer(e)
      <3>1. UNCHANGED task BY <2>1 DEF Deliver, RetryTimer
      <3> QED BY <1>1, <2>1, <3>1, InformerDue DEF Doing
    <2>2. CASE PodWorker \/ UNCHANGED vars
      <3>1. UNCHANGED <<notes, queue, task>> BY <2>2 DEF PodWorker, PodTake, PodRead, PodWrite, vars
      <3> QED BY <3>1 DEF Due, Doing
    <2>3. CASE Skip
      <3>1. UNCHANGED task BY <2>3 DEF Skip
      <3> QED BY <1>1, <2>3, <3>1, SkipDue DEF Doing
    <2>4. CASE Take
      <3>1. \A e : Doing(e)' => e = NextEvent BY <2>4 DEF Take, Doing
      <3> QED BY <1>1, <2>4, <3>1, TakeDue
    <2>5. CASE Look \/ (\E f \in Families : FamilyStep(f)) \/ End
      <3>1. task # None
        BY <2>5 DEF Look, End, TaskAt, FamilyStep, Unbuildable, Configure, Join, Start, StartFails, Withdraw, Stop,
                    StopFails, Working
      <3>2. \/ UNCHANGED queue /\ task'.ev = task.ev
            \/ task' = None /\ \E failed \in BOOLEAN : queue' = Handled(queue, task.ev, failed)
        <4>1. task \in Task BY <1>1, <3>1 DEF SubInv, TaskTyped
        <4> QED BY <2>5, <4>1 DEF Look, End, FamilyStep, Unbuildable, Configure, Join, Start, StartFails, Withdraw,
                                  Stop, StopFails, NextFamily, Task
      <3>3. UNCHANGED notes
        BY <2>5 DEF Look, End, FamilyStep, Unbuildable, Configure, Join, Start, StartFails, Withdraw, Stop, StopFails
      <3> QED BY <1>1, <3>1, <3>2, <3>3, FinishDue DEF Due, Doing
    <2> QED BY <2>1, <2>2, <2>3, <2>4, <2>5 DEF Worker
  <1> QED BY <1>1, <1>2, <1>3, MovedKept DEF KnownInv

\* A DELETE of a subnet that is on always closes its server.
LEMMA ClosesAfterMove ==
  ASSUME TurnInv, GoesOnce, Worker, task # None, task.ev.op = "DELETE", On(Sub)
  PROVE  stopFaults' = stopFaults
  <1>1. Moves
    <2>1. /\ Sub \in Subnets /\ Prov \in Providers /\ Doing(Item(Sub, "DELETE", Prov))
      BY TaskItem DEF TurnInv, ServeInv
    <2> QED BY <2>1 DEF TurnInv, MovedInv
  <1>2. ~\E f \in Families : StopFails(f)
    <2>1. MaxStopFaults = 0 /\ stopFaults \in Nat BY <1>1 DEF GoesOnce, TurnInv, OrderedInv, ClosingInv
    <2>2. ~(stopFaults < MaxStopFaults) BY <2>1
    <2> QED BY <2>2 DEF StopFails, CloseFails
  <1> QED BY <1>2 DEF Worker, Skip, Take, Look, End, FamilyStep, Unbuildable, Configure, Join, Start, StartFails,
                      Withdraw, Stop, faults

LEMMA TurnNext == EditsWait /\ GoesOnce /\ TurnInv /\ [Next]_vars => TurnInv'
  <1> SUFFICES ASSUME EditsWait, GoesOnce, TurnInv, [Next]_vars PROVE TurnInv'
    OBVIOUS
  <1>1. ServeInv' BY ServeNext DEF TurnInv
  <1>2. SubInv' BY <1>1 DEF ServeInv
  <1>3. CASE \E s \in Subnets : \E new \in Specs[s] \cup {None} : Edit(s, new)
    BY <1>1, <1>2, <1>3, OrderedEdit, MovedEdit DEF TurnInv
  <1>4. CASE UNCHANGED vars
    <2>1. UNCHANGED <<lister, notes, queue, task, stopFaults>> BY <1>4 DEF vars, faults
    <2>2. OrderInv' /\ MoveInv' BY <2>1, WithinTurn DEF TurnInv
    <2>3. ClosingInv' BY <2>1 DEF TurnInv, OrderedInv, ClosingInv
    <2> QED BY <1>1, <1>2, <1>4, <2>2, <2>3, MovedSteps DEF TurnInv, OrderedInv
  <1>5. CASE Deliver \/ Worker \/ PodWorker \/ \E e \in queue.later : RetryTimer(e)
    <2>1. task # None /\ task.ev.op = "DELETE" /\ On(Sub) => stopFaults' = stopFaults
      <3>1. ~Worker => UNCHANGED stopFaults
        BY <1>5 DEF Deliver, PodWorker, RetryTimer, PodTake, PodRead, PodWrite, faults
      <3> QED BY <3>1, ClosesAfterMove
    <2>2. OrderedInv' BY <1>2, <1>5, <2>1, OrderedSteps DEF TurnInv
    <2> QED BY <1>1, <1>5, <2>2, MovedSteps DEF TurnInv
  <1> QED BY <1>3, <1>4, <1>5 DEF Next

LEMMA TurnInit == Init => TurnInv
  <1> SUFFICES ASSUME Init PROVE TurnInv OBVIOUS
  <1>1. KnownInv BY DEF Init, KnownInv
  <1>2. MovedInv BY DEF Init, MovedInv, On
  <1> QED BY <1>1, <1>2, ServeInit, OrderedInit DEF TurnInv

-----------------------------------------------------------------------------
(***************************************************************************)
(* A subnet is served as it asks, or its turn is still to come.            *)
(***************************************************************************)
Current(s, p, f) ==
  /\ s \in DOMAIN conf[f]
  /\ conf[f][s] = [prov |-> p, rev |-> lister[s].rev, addr |-> GetNetworkStatus(p)[f]]
  /\ Nic[p] \in up[f] /\ (f = "v4" => p \in serverGauge[f])

ServedInv ==
  \A s \in Subnets, p \in Providers, f \in Families :
    Has(s, p) /\ f \in lister[s].fams /\ Serves(p, f) =>
      Coming(s, p) \/ Bringing(s, f) \/ Current(s, p, f)

\* The same for the subnet gauge, which the end of an item sets.
NamedInv ==
  \A s \in Subnets, p \in Providers : Has(s, p) /\ p \in Attached \ Own =>
    \/ Coming(s, p)
    \/ Busy(s, p) /\ task.ev.op # "DELETE"
    \/ s \in DOMAIN subnetGauge /\ subnetGauge[s] = p

RightInv == TurnInv /\ ServedInv /\ NamedInv

\* A change of a subnet announces its event; the others are not concerned.
LEMMA EditServed ==
  ASSUME RightInv, EditsWait, NEW s \in Subnets, NEW new \in Specs[s] \cup {None}, Edit(s, new)
  PROVE  ServedInv' /\ NamedInv'
  <1> DEFINE n == [sub |-> s, old |-> lister[s], new |-> new]
  <1>1. /\ n \in Note /\ n.old # n.new
        /\ \A e : Due(e)' <=> Due(e) \/ e \in Raised(n)
        /\ \A t \in Subnets : lister'[t] = IF t = s THEN new ELSE lister[t]
        /\ \A t \in Subnets : \A p : t # s => (Has(t, p)' <=> Has(t, p))
        /\ \A p : Has(s, p)' <=> new # None /\ new.on /\ new.prov = p
    BY EditFacts DEF RightInv, TurnInv, ServeInv
  <1>2. n.sub = s /\ n.new = new OBVIOUS
  <1>3. /\ UNCHANGED <<task, conf, up, serverGauge, subnetGauge, infoMap>>
        /\ \A t, p : Busy(t, p)' <=> Busy(t, p)
        /\ \A t, f : Bringing(t, f)' <=> Bringing(t, f)
    BY DEF Edit, dhcp, cache, Busy, Bringing, Handling, Sub, Prov
  <1> HIDE DEF n
  <1>4. \A p : Has(s, p)' /\ p \notin Own => Coming(s, p)'
    BY <1>1, <1>2, RaisedFits DEF Coming
  <1>5. \A t, p : Coming(t, p) => Coming(t, p)' BY <1>1 DEF Coming
  <1>6. \A t \in Subnets : \A p, f : t # s /\ Current(t, p, f) => Current(t, p, f)'
    <2>1. \A p : GetNetworkStatus(p)' = GetNetworkStatus(p) BY <1>3, NetworksKept
    <2> QED BY <1>1, <1>3, <2>1 DEF Current
  <1>7. ServedInv'
    <2> SUFFICES ASSUME NEW t \in Subnets, NEW p \in Providers, NEW f \in Families, Has(t, p)',
                        f \in lister'[t].fams, Serves(p, f)'
                 PROVE  Coming(t, p)' \/ Bringing(t, f)' \/ Current(t, p, f)'
      BY DEF ServedInv
    <2>1. Serves(p, f) /\ p \notin Own BY <1>3, NetworksKept DEF Serves
    <2>2. CASE t = s BY <1>4, <2>1, <2>2
    <2>3. CASE t # s
      <3>1. Coming(t, p) \/ Bringing(t, f) \/ Current(t, p, f)
        BY <1>1, <2>1, <2>3 DEF RightInv, ServedInv
      <3> QED BY <1>3, <1>5, <1>6, <2>3, <3>1
    <2> QED BY <2>2, <2>3
  <1>8. NamedInv'
    <2> SUFFICES ASSUME NEW t \in Subnets, NEW p \in Providers, Has(t, p)', (p \in Attached)', p \notin Own
                 PROVE  \/ Coming(t, p)'
                        \/ Busy(t, p)' /\ task'.ev.op # "DELETE"
                        \/ t \in DOMAIN subnetGauge' /\ subnetGauge'[t] = p
      BY DEF NamedInv
    <2>1. p \in Attached BY <1>3, NetworksKept
    <2> QED BY <1>1, <1>3, <1>4, <1>5, <2>1 DEF RightInv, NamedInv
  <1> QED BY <1>7, <1>8

\* Steps that change nothing that is served.
LEMMA ServedKept ==
  ASSUME RightInv, UNCHANGED <<lister, conf, up, serverGauge, infoMap>>,
         \A s \in Subnets, p \in Providers, f \in Families : Has(s, p) /\ Serves(p, f) =>
           /\ Coming(s, p) => Coming(s, p)' \/ Bringing(s, f)'
           /\ Bringing(s, f) => Coming(s, p)' \/ Bringing(s, f)'
  PROVE  ServedInv'
  <1>1. \A s, p : Has(s, p)' <=> Has(s, p) BY DEF Has
  <1>2. \A s, p, f : Current(s, p, f)' <=> Current(s, p, f)
    <2>1. \A p : GetNetworkStatus(p)' = GetNetworkStatus(p) BY NetworksKept
    <2> QED BY <2>1 DEF Current
  <1> SUFFICES ASSUME NEW s \in Subnets, NEW p \in Providers, NEW f \in Families, Has(s, p),
                      f \in lister[s].fams, Serves(p, f)
               PROVE  Coming(s, p)' \/ Bringing(s, f)' \/ Current(s, p, f)'
    BY <1>1, NetworksKept DEF ServedInv
  <1>3. Coming(s, p) \/ Bringing(s, f) \/ Current(s, p, f) BY DEF RightInv, ServedInv
  <1> QED BY <1>2, <1>3

\* Steps that leave the subnet gauge alone.
LEMMA NamedKept ==
  ASSUME RightInv, UNCHANGED <<lister, subnetGauge, infoMap>>,
         \A s \in Subnets, p \in Providers : Has(s, p) /\ p \in Attached =>
           /\ Coming(s, p) => Coming(s, p)' \/ (Busy(s, p)' /\ task'.ev.op # "DELETE")
           /\ Busy(s, p) /\ task.ev.op # "DELETE" =>
                Coming(s, p)' \/ (Busy(s, p)' /\ task'.ev.op # "DELETE")
  PROVE  NamedInv'
  <1>1. \A s, p : Has(s, p)' <=> Has(s, p) BY DEF Has
  <1> SUFFICES ASSUME NEW s \in Subnets, NEW p \in Providers, Has(s, p), p \in Attached \ Own
               PROVE  \/ Coming(s, p)'
                      \/ Busy(s, p)' /\ task'.ev.op # "DELETE"
                      \/ s \in DOMAIN subnetGauge' /\ subnetGauge'[s] = p
    BY <1>1, NetworksKept DEF NamedInv
  <1>2. \/ Coming(s, p)
        \/ Busy(s, p) /\ task.ev.op # "DELETE"
        \/ s \in DOMAIN subnetGauge /\ subnetGauge[s] = p
    BY DEF RightInv, NamedInv
  <1> QED BY <1>2

LEMMA QuietServed ==
  ASSUME RightInv, Deliver \/ (\E e \in queue.later : RetryTimer(e)) \/ PodWorker \/ UNCHANGED vars
  PROVE  ServedInv' /\ NamedInv'
  <1>1. SubInv BY DEF RightInv, TurnInv, ServeInv
  <1>2. UNCHANGED <<lister, task, conf, up, serverGauge, subnetGauge, infoMap>>
    BY DEF Deliver, RetryTimer, PodWorker, PodTake, PodRead, PodWrite, vars, dhcp, cache
  <1>3. \A e : Due(e)' <=> Due(e)
    <2>1. CASE Deliver \/ \E e \in queue.later : RetryTimer(e) BY <1>1, <2>1, InformerDue
    <2>2. CASE PodWorker \/ UNCHANGED vars
      <3>1. UNCHANGED <<notes, queue>> BY <2>2 DEF PodWorker, PodTake, PodRead, PodWrite, vars
      <3> QED BY <3>1 DEF Due
    <2> QED BY <2>1, <2>2
  <1>4. /\ \A s, p : (Coming(s, p)' <=> Coming(s, p)) /\ (Busy(s, p)' <=> Busy(s, p))
        /\ \A s, f : Bringing(s, f)' <=> Bringing(s, f)
    BY <1>2, <1>3 DEF Coming, Busy, Bringing, Handling, Sub, Prov
  <1> QED BY <1>2, <1>4, ServedKept, NamedKept

LEMMA SkipServed == ASSUME RightInv, Skip PROVE ServedInv' /\ NamedInv'
  <1>1. /\ task = None /\ UNCHANGED <<lister, task>>
        /\ \A s \in Subnets, p \in Providers : Coming(s, p) /\ Has(s, p) => Coming(s, p)'
    BY SkipFacts DEF RightInv, TurnInv, ServeInv
  <1>2. UNCHANGED <<conf, up, serverGauge, subnetGauge, infoMap>> BY DEF Skip, dhcp, cache
  <1> QED BY <1>1, <1>2, ServedKept, NamedKept DEF Bringing, Busy

LEMMA TakeServed == ASSUME RightInv, Take PROVE ServedInv' /\ NamedInv'
  <1>1. NextEvent \in Event BY TakeDue DEF RightInv, TurnInv, ServeInv
  <1> PICK s \in Subnets, p \in Providers, op \in {"ADD", "UPDATE", "DELETE"} :
        NextEvent = Item(s, op, p)
    BY <1>1 DEF Event, Item
  <1>2. /\ task = None /\ UNCHANGED lister
        /\ task'.ev.op = op
        /\ \A t, q : Busy(t, q)' <=> t = s /\ q = p
        /\ \A t, q : t # s \/ q # p => (Coming(t, q) => Coming(t, q)')
        /\ Coming(s, p) => Coming(s, p)' \/ op # "DELETE"
        /\ \A f \in Families : op # "DELETE" => Bringing(s, f)'
    BY TakeFacts DEF RightInv, TurnInv, ServeInv
  <1>3. UNCHANGED <<conf, up, serverGauge, subnetGauge, infoMap>> BY DEF Take, dhcp, cache
  <1>4. \A t \in Subnets, q \in Providers : Coming(t, q) =>
          Coming(t, q)' \/ (Busy(t, q)' /\ task'.ev.op # "DELETE" /\ \A f \in Families : Bringing(t, f)')
    BY <1>2
  <1> QED BY <1>2, <1>3, <1>4, ServedKept, NamedKept DEF Bringing, Busy

\* Done with an item, a subnet is served unless its turn comes again.
LEMMA FinishServed ==
  ASSUME RightInv, task # None, NEW failed \in BOOLEAN,
         queue' = Handled(queue, task.ev, failed), task' = None,
         UNCHANGED <<lister, notes, infoMap, conf, up, serverGauge>>,
         failed \/ Prov \notin Attached \/ \A f \in Families : ~Handling(f)
  PROVE  /\ ServedInv'
         /\ UNCHANGED subnetGauge /\ (failed \/ Prov \notin Attached) => NamedInv'
         /\ \A t, q : Coming(t, q) => Coming(t, q)'
  <1> PICK s \in Subnets, p \in Providers, op \in {"ADD", "UPDATE", "DELETE"} :
        Sub = s /\ Prov = p /\ task.ev.op = op
    BY TaskItem DEF RightInv, TurnInv, ServeInv
  <1>1. /\ \A t, q : Coming(t, q) => Coming(t, q)'
        /\ failed /\ op # "DELETE" => Coming(s, p)'
        /\ op # "DELETE" => Has(s, p)
        /\ \A t, f : Bringing(t, f) => t = s /\ op # "DELETE" /\ Handling(f)
    <2>1. op # "DELETE" => Has(s, p) BY TaskItem DEF RightInv, TurnInv, ServeInv, TaskInv
    <2> QED BY <2>1, FinishFacts DEF RightInv, TurnInv, ServeInv
  <1>2. \A t, q : Busy(t, q) => t = s /\ q = p BY DEF Busy
  <1>3. \A q : Has(s, q) /\ op # "DELETE" => q = p BY <1>1 DEF Has
  <1>4. \A f \in Families : Serves(p, f) /\ Handling(f) => failed BY DEF Serves
  <1>5. ServedInv' BY <1>1, <1>3, <1>4, ServedKept
  <1>6. UNCHANGED subnetGauge /\ (failed \/ Prov \notin Attached) => NamedInv' BY <1>1, <1>2, NamedKept
  <1> QED BY <1>1, <1>5, <1>6

\* What the worker knows of a subnet that it is to bring up and that has nothing coming.
LEMMA TaskKnows ==
  ASSUME RightInv, task # None, NEW p \in Providers, Has(Sub, p), p \notin Own, ~Coming(Sub, p)
  PROVE  task.ev.op # "DELETE" /\ p = Prov /\ task.spec = lister[Sub]
  <1>1. /\ Sub \in Subnets /\ Prov \in Providers /\ task.ev.op \in {"ADD", "UPDATE", "DELETE"}
        /\ Doing(Item(Sub, task.ev.op, Prov)) /\ Busy(Sub, Prov)
    BY TaskItem DEF RightInv, TurnInv, ServeInv
  <1>2. task.ev.op # "DELETE" BY <1>1 DEF RightInv, TurnInv, OrderedInv, MoveInv, Coming
  <1>3. Has(Sub, Prov) /\ (task.spec = lister[Sub] \/ Coming(Sub, Prov))
    BY <1>1, <1>2 DEF RightInv, TurnInv, ServeInv, TaskInv
  <1>4. p = Prov BY <1>3 DEF Has
  <1> QED BY <1>2, <1>3, <1>4

\* A step within an item concerns one family.
LEMMA WithinServed ==
  ASSUME RightInv, task # None, task' # None, UNCHANGED <<lister, notes, queue, infoMap, subnetGauge>>,
         task'.ev = task.ev, NEW f \in Families,
         \A g \in Families : g # f =>
           /\ conf'[g] = conf[g] /\ up'[g] = up[g] /\ serverGauge[g] \subseteq serverGauge'[g]
           /\ Handling(g) => Handling(g)',
         \A s \in Subnets, p \in Providers :
           Asks(s, p, f) /\ Serves(p, f) /\ ~Coming(s, p) /\ (Bringing(s, f) \/ Current(s, p, f)) =>
             (Handling(f)' /\ s = Sub /\ task.ev.op # "DELETE") \/ Current(s, p, f)'
  PROVE  ServedInv' /\ NamedInv'
  <1>1. /\ \A t, q : Busy(t, q)' <=> Busy(t, q)
        /\ \A t, q : Has(t, q)' <=> Has(t, q)
        /\ \A t, q : Coming(t, q)' <=> Coming(t, q)
    BY MoveFacts
  <1>2. NamedInv' BY <1>1, NamedKept
  <1>3. \A t : t = Sub /\ task.ev.op # "DELETE" => \A g : Handling(g)' => Bringing(t, g)'
    BY DEF Bringing, Sub
  <1>4. ServedInv'
    <2> SUFFICES ASSUME NEW s \in Subnets, NEW p \in Providers, NEW g \in Families, Has(s, p),
                        g \in lister[s].fams, Serves(p, g), ~Coming(s, p)
                 PROVE  Bringing(s, g)' \/ Current(s, p, g)'
      BY <1>1, NetworksKept DEF ServedInv
    <2>1. Bringing(s, g) \/ Current(s, p, g) BY DEF RightInv, ServedInv
    <2>2. CASE g = f BY <1>3, <2>1, <2>2 DEF Asks
    <2>3. CASE g # f
      <3>1. Bringing(s, g) => Bringing(s, g)' BY <1>3, <2>3 DEF Bringing
      <3>2. GetNetworkStatus(p)' = GetNetworkStatus(p) BY NetworksKept
      <3>3. Current(s, p, g) => Current(s, p, g)' BY <2>3, <3>2 DEF Current
      <3> QED BY <2>1, <3>1, <3>3
    <2> QED BY <2>2, <2>3
  <1> QED BY <1>2, <1>4

LEMMA LookServed == ASSUME RightInv, Look PROVE ServedInv' /\ NamedInv'
  <1>1. SubInv /\ task # None BY DEF RightInv, TurnInv, ServeInv, Look, TaskAt
  <1>2. UNCHANGED <<lister, notes, infoMap, conf, up, serverGauge, subnetGauge>>
    BY DEF Look, dhcp, cache
  <1>3. CASE task.ev.prov \notin Attached
    <2>1. task' = None /\ queue' = Handled(queue, task.ev, FALSE) BY <1>3 DEF Look
    <2> QED BY <1>1, <1>2, <1>3, <2>1, FinishServed DEF Prov
  <1>4. CASE task.ev.prov \in Attached
    <2>1. /\ queue' = queue /\ task' # None /\ task'.ev = task.ev
          /\ \A f : Handling(f)' <=> Handling(f)
      BY <1>1, <1>4, LookMoves
    <2>2. /\ \A t, q : Busy(t, q)' <=> Busy(t, q)
          /\ \A t, q : Coming(t, q)' <=> Coming(t, q)
      BY <1>1, <1>2, <2>1, MoveFacts
    <2>3. \A t, f : Bringing(t, f)' <=> Bringing(t, f) BY <1>1, <2>1 DEF Bringing, Sub
    <2> QED BY <1>2, <2>1, <2>2, <2>3, ServedKept, NamedKept
  <1> QED BY <1>3, <1>4

LEMMA ConfigureServed == ASSUME RightInv, NEW f \in Families, Configure(f) PROVE ServedInv' /\ NamedInv'
  <1>1. SubInv /\ ServeInv /\ Working(f, "build") BY DEF RightInv, TurnInv, ServeInv, Configure
  <1>2. UNCHANGED <<lister, notes, queue, infoMap, up, serverGauge, subnetGauge>> BY DEF Configure, cache
  <1>3. /\ task # None /\ task' # None /\ task'.ev = task.ev
        /\ \A g : Handling(g)' <=> Handling(g)
    <2>1. task' = [task EXCEPT !.step = "serve"] BY DEF Configure
    <2> QED BY <1>1, <1>2, <2>1, FamilyStays
  <1>4. Handling(f)
    <2>1. task.todo \in Seq(Families) /\ task.todo # <<>> /\ Head(task.todo) = f
      BY <1>1, <1>3 DEF Working, SubInv, TaskTyped, Task
    <2> QED BY <2>1, TailSet DEF Handling
  <1>5. /\ \A g \in Families : g # f => conf'[g] = conf[g]
        /\ DOMAIN conf'[f] = DOMAIN conf[f] \cup {Sub}
        /\ \A s \in DOMAIN conf[f] : s # Sub => conf'[f][s] = conf[f][s]
    BY <1>1, ConfStored
  <1>6. \A s \in Subnets, p \in Providers :
           Asks(s, p, f) /\ Serves(p, f) /\ ~Coming(s, p) /\ (Bringing(s, f) \/ Current(s, p, f)) =>
             (Handling(f)' /\ s = Sub /\ task.ev.op # "DELETE") \/ Current(s, p, f)'
    <2> SUFFICES ASSUME NEW s \in Subnets, NEW p \in Providers, Asks(s, p, f), Serves(p, f), ~Coming(s, p),
                        Bringing(s, f) \/ Current(s, p, f)
                 PROVE  (Handling(f)' /\ s = Sub /\ task.ev.op # "DELETE") \/ Current(s, p, f)'
      OBVIOUS
    <2>1. CASE s = Sub BY <1>3, <1>4, <2>1, TaskKnows DEF Asks, Serves
    <2>2. CASE s # Sub
      <3>1. Current(s, p, f) BY <2>2 DEF Bringing
      <3>2. GetNetworkStatus(p)' = GetNetworkStatus(p) BY <1>2, NetworksKept
      <3> QED BY <1>2, <1>5, <2>2, <3>1, <3>2 DEF Current
    <2> QED BY <2>1, <2>2
  <1> QED BY <1>2, <1>3, <1>5, <1>6, WithinServed

LEMMA WithdrawServed == ASSUME RightInv, NEW f \in Families, Withdraw(f) PROVE ServedInv' /\ NamedInv'
  <1>1. SubInv /\ ServeInv /\ Working(f, "build") /\ ~Needed(f)
    BY DEF RightInv, TurnInv, ServeInv, Withdraw
  <1>2. UNCHANGED <<lister, notes, queue, infoMap, up, serverGauge, subnetGauge>> BY DEF Withdraw, cache
  <1>3. /\ task # None /\ task' # None /\ task'.ev = task.ev
        /\ \A g : g # f => (Handling(g)' <=> Handling(g))
    <2>1. CASE NextFamily(FALSE)
      <3>1. \A g : g # f => (Handling(g)' <=> Handling(g) \/ FALSE) BY <1>1, <1>2, <2>1, FamilyDone
      <3> QED BY <1>1, <1>2, <2>1, <3>1, FamilyDone
    <2>2. CASE task' = [task EXCEPT !.step = "stop"] BY <1>1, <1>2, <2>2, FamilyStays
    <2> QED BY <2>1, <2>2 DEF Withdraw
  <1>4. /\ \A g \in Families : g # f => conf'[g] = conf[g]
        /\ DOMAIN conf'[f] = DOMAIN conf[f] \ {Sub}
        /\ \A s \in DOMAIN conf'[f] : conf'[f][s] = conf[f][s]
    BY <1>1, ConfDropped
  <1>5. \A s \in Subnets, p \in Providers :
           Asks(s, p, f) /\ Serves(p, f) /\ ~Coming(s, p) /\ (Bringing(s, f) \/ Current(s, p, f)) =>
             (Handling(f)' /\ s = Sub /\ task.ev.op # "DELETE") \/ Current(s, p, f)'
    <2> SUFFICES ASSUME NEW s \in Subnets, NEW p \in Providers, Asks(s, p, f), Serves(p, f), ~Coming(s, p),
                        Bringing(s, f) \/ Current(s, p, f)
                 PROVE  Current(s, p, f)'
      OBVIOUS
    <2>1. s # Sub BY <1>1, <1>3, TaskKnows DEF Asks, Serves, Needed
    <2>2. Current(s, p, f) BY <2>1 DEF Bringing
    <2>3. GetNetworkStatus(p)' = GetNetworkStatus(p) BY <1>2, NetworksKept
    <2> QED BY <1>2, <1>4, <2>1, <2>2, <2>3 DEF Current
  <1> QED BY <1>2, <1>3, <1>4, <1>5, WithinServed

LEMMA ServerServed ==
  ASSUME RightInv, NEW f \in Families, Join(f) \/ Start(f) \/ StartFails(f) \/ Unbuildable(f)
  PROVE  ServedInv' /\ NamedInv'
  <1>1. SubInv /\ ServeInv BY DEF RightInv, TurnInv, ServeInv
  <1>2. UNCHANGED <<lister, notes, queue, infoMap, conf, subnetGauge>>
    BY DEF Join, Start, StartFails, Unbuildable, dhcp, cache
  <1>3. PICK step \in {"build", "serve", "stop"} : Working(f, step)
    BY DEF Join, Start, StartFails, Unbuildable
  <1>4. PICK failed \in BOOLEAN : NextFamily(failed) /\ (~failed => Join(f) \/ Start(f))
    <2>1. CASE StartFails(f) \/ Unbuildable(f) BY <2>1 DEF StartFails, Unbuildable
    <2>2. CASE ~(StartFails(f) \/ Unbuildable(f)) BY <2>2 DEF Join, Start
    <2> QED BY <2>1, <2>2
  <1>5. /\ task # None /\ task' # None /\ task'.ev = task.ev
        /\ \A g : g # f => (Handling(g)' <=> Handling(g) \/ failed)
        /\ failed => \A g : Handling(g)'
    BY <1>1, <1>2, <1>3, <1>4, FamilyDone
  <1>6. /\ \A g \in Families : up[g] \subseteq up'[g] /\ serverGauge[g] \subseteq serverGauge'[g]
        /\ \A g \in Families : g # f => up'[g] = up[g]
        /\ Join(f) \/ Start(f) => Nic[Prov] \in up'[f] /\ (f = "v4" => Prov \in serverGauge'[f])
    <2>1. CASE Start(f) BY <1>1, <2>1 DEF Start, SubInv, DhcpTyped
    <2>2. CASE Join(f) BY <1>1, <2>2 DEF Join, SubInv, DhcpTyped
    <2>3. CASE ~(Join(f) \/ Start(f)) BY <2>3 DEF StartFails, Unbuildable, dhcp
    <2> QED BY <2>1, <2>2, <2>3
  <1>7. \A s \in Subnets, p \in Providers :
           Asks(s, p, f) /\ Serves(p, f) /\ ~Coming(s, p) /\ (Bringing(s, f) \/ Current(s, p, f)) =>
             (Handling(f)' /\ s = Sub /\ task.ev.op # "DELETE") \/ Current(s, p, f)'
    <2> SUFFICES ASSUME NEW s \in Subnets, NEW p \in Providers, Asks(s, p, f), Serves(p, f), ~Coming(s, p),
                        Bringing(s, f) \/ Current(s, p, f)
                 PROVE  (Handling(f)' /\ s = Sub /\ task.ev.op # "DELETE") \/ Current(s, p, f)'
      OBVIOUS
    <2>1. GetNetworkStatus(p)' = GetNetworkStatus(p) BY <1>2, NetworksKept
    <2>2. CASE Current(s, p, f) BY <1>2, <1>6, <2>1, <2>2 DEF Current
    <2>3. CASE Bringing(s, f) /\ failed BY <1>5, <2>3 DEF Bringing
    <2>4. CASE Bringing(s, f) /\ ~failed
      <3>1. s = Sub /\ Working(f, "serve") /\ (Join(f) \/ Start(f)) BY <1>4, <2>4 DEF Bringing, Join, Start
      <3>2. p = Prov /\ task.spec = lister[s] BY <1>5, <3>1, TaskKnows DEF Asks, Serves
      <3>3. s \in DOMAIN conf[f] /\ conf[f][s] = Configuration(f)
        BY <1>1, <1>5, <3>1, TaskItem DEF ServeInv, StepInv
      <3>4. task.net = GetNetworkStatus(p) BY <1>1, <3>1, <3>2, NeededAsked
      <3> QED BY <1>2, <1>6, <2>1, <3>1, <3>2, <3>3, <3>4 DEF Current, Configuration
    <2> QED BY <2>2, <2>3, <2>4
  <1> QED BY <1>2, <1>5, <1>6, <1>7, WithinServed

\* A server is stopped on behalf of a provider that no subnet uses any more, on an
\* interface that is its own.
LEMMA StopServed ==
  ASSUME RightInv, OwnInterfaces, IsFiniteSet(Providers), NEW f \in Families, Stop(f) \/ StopFails(f)
  PROVE  ServedInv' /\ NamedInv'
  <1>1. SubInv /\ ServeInv /\ Working(f, "stop") BY DEF RightInv, TurnInv, ServeInv, Stop, StopFails
  <1>2. UNCHANGED <<lister, notes, infoMap, conf, subnetGauge>> BY DEF Stop, StopFails, dhcp, cache
  <1>3. /\ task # None /\ Sub \in Subnets /\ Prov \in Providers /\ Prov \in Attached \ Own
        /\ Busy(Sub, Prov)
    BY <1>1, NeededAsked, TaskItem
  <1>4. CASE StopFails(f) /\ task.ev.op = "DELETE"
    <2>1. task' = None /\ queue' = Handled(queue, task.ev, TRUE) /\ UNCHANGED <<up, serverGauge>>
      BY <1>4 DEF StopFails, dhcp
    <2> QED BY <1>2, <1>3, <2>1, FinishServed
  <1>5. CASE Stop(f) \/ (StopFails(f) /\ task.ev.op # "DELETE")
    <2>1. UNCHANGED queue /\ \E failed \in BOOLEAN : NextFamily(failed)
      BY <1>5 DEF Stop, StopFails
    <2>2. PICK failed \in BOOLEAN : NextFamily(failed) BY <2>1
    <2>3. /\ task' # None /\ task'.ev = task.ev
          /\ \A g : g # f => (Handling(g)' <=> Handling(g) \/ failed)
      BY <1>1, <2>1, <2>2, FamilyDone
    <2>4. /\ ~Needed(f)
          /\ \A t \in Subnets \ {Sub} : Has(t, Prov) /\ f \in lister[t].fams => Coming(t, Prov)
      BY <1>1, <1>3 DEF ServeInv, StepInv
    <2>5. /\ \A g \in Families : g # f => up'[g] = up[g] /\ serverGauge'[g] = serverGauge[g]
          /\ \A nic \in up[f] : nic # Nic[Prov] \/ interfaceBusy(nic) => nic \in up'[f]
          /\ \A p \in serverGauge[f] : p # Prov => p \in serverGauge'[f]
      <3>1. CASE Stop(f) BY <1>1, <3>1 DEF Stop, StopServer, SubInv, DhcpTyped
      <3>2. CASE StopFails(f) BY <3>2 DEF StopFails, dhcp
      <3> QED BY <1>5, <3>1, <3>2
    <2>6. \A s \in Subnets, p \in Providers :
             Asks(s, p, f) /\ Serves(p, f) /\ ~Coming(s, p) /\ (Bringing(s, f) \/ Current(s, p, f)) =>
               (Handling(f)' /\ s = Sub /\ task.ev.op # "DELETE") \/ Current(s, p, f)'
      <3> SUFFICES ASSUME NEW s \in Subnets, NEW p \in Providers, Asks(s, p, f), Serves(p, f), ~Coming(s, p),
                          Bringing(s, f) \/ Current(s, p, f)
                   PROVE  Current(s, p, f)'
        OBVIOUS
      <3>1. Has(s, p) /\ f \in lister[s].fams /\ p \in Attached \ Own BY DEF Asks, Serves
      <3>2. s # Sub
        <4>1. s = Sub => f \in task.spec.fams /\ task.ev.op # "DELETE" BY <1>3, <3>1, TaskKnows
        <4> QED BY <2>4, <4>1 DEF Needed
      <3>3. Current(s, p, f) BY <3>2 DEF Bringing
      <3>4. p # Prov BY <2>4, <3>1, <3>2
      <3>5. Nic[p] # Nic[Prov] \/ interfaceBusy(Nic[p]) BY <1>1, <1>3, <3>1, <3>4, AloneOnInterface
      <3>6. GetNetworkStatus(p)' = GetNetworkStatus(p) BY <1>2, NetworksKept
      <3> QED BY <1>2, <2>5, <3>3, <3>4, <3>5, <3>6 DEF Current
    <2> QED BY <1>2, <1>3, <2>1, <2>3, <2>5, <2>6, WithinServed
  <1> QED BY <1>4, <1>5

LEMMA EndServed == ASSUME RightInv, End PROVE ServedInv' /\ NamedInv'
  <1>1. SubInv /\ task # None /\ task \in Task /\ task.todo = <<>>
    BY DEF RightInv, TurnInv, ServeInv, End, TaskAt, SubInv, TaskTyped
  <1> DEFINE failed == task.failed
  <1>2. failed \in BOOLEAN /\ queue' = Handled(queue, task.ev, failed) /\ task' = None
    BY <1>1 DEF Task, End
  <1>3. failed \/ \A f \in Families : ~Handling(f) BY <1>1 DEF Handling, ToSet
  <1>4. UNCHANGED <<lister, notes, infoMap, conf, up, serverGauge>> BY DEF End, cache
  <1> HIDE DEF failed
  <1>5. ServedInv' /\ \A t, q : Coming(t, q) => Coming(t, q)' BY <1>1, <1>2, <1>3, <1>4, FinishServed
  <1>6. /\ subnetGauge' = IF task.ev.op = "DELETE" THEN Drop(subnetGauge, Sub) ELSE Put(subnetGauge, Sub, Prov)
    BY DEF End, Report
  <1>7. NamedInv'
    <2> SUFFICES ASSUME NEW s \in Subnets, NEW p \in Providers, Has(s, p), p \in Attached \ Own, ~Coming(s, p)
                 PROVE  s \in DOMAIN subnetGauge' /\ subnetGauge'[s] = p
      BY <1>4, <1>5, NetworksKept DEF NamedInv, Has
    <2>1. CASE s = Sub
      <3>1. task.ev.op # "DELETE" /\ p = Prov BY <1>1, <2>1, TaskKnows
      <3> QED BY <1>6, <2>1, <3>1 DEF Put
    <2>2. CASE s # Sub
      <3>1. s \in DOMAIN subnetGauge /\ subnetGauge[s] = p BY <2>2 DEF RightInv, NamedInv, Busy
      <3> QED BY <1>6, <2>2, <3>1 DEF Put, Drop, Restrict
    <2> QED BY <2>1, <2>2
  <1> QED BY <1>5, <1>7

LEMMA RightNext ==
  EditsWait /\ OwnInterfaces /\ IsFiniteSet(Providers) /\ GoesOnce /\ RightInv /\ [Next]_vars => RightInv'
  <1> SUFFICES ASSUME EditsWait, OwnInterfaces, IsFiniteSet(Providers), GoesOnce, RightInv, [Next]_vars
               PROVE  RightInv'
    OBVIOUS
  <1>1. TurnInv' BY TurnNext DEF RightInv
  <1>2. ServedInv' /\ NamedInv'
    <2>1. CASE Worker
      BY <2>1, SkipServed, TakeServed, LookServed, ConfigureServed, ServerServed, WithdrawServed,
         StopServed, EndServed
         DEF Worker, FamilyStep
    <2> QED BY <2>1, EditServed, QuietServed DEF Next
  <1> QED BY <1>1, <1>2 DEF RightInv

LEMMA RightInit == Init => RightInv
  BY TurnInit DEF RightInv, ServedInv, NamedInv, Init, Has

LEMMA SettledRight == RightInv => SettledIsServed
  <1> SUFFICES ASSUME RightInv, NEW s \in Subnets, Settled(s) PROVE Right(s)
    BY DEF SettledIsServed
  <1>1. SubInv /\ ServeInv BY DEF RightInv, TurnInv, ServeInv
  <1>2. /\ \A p : ~Coming(s, p) /\ ~Going(s, p) /\ ~Busy(s, p)
        /\ \A p, f : ~Bringing(s, f) /\ ~Ending(s, p, f)
    BY <1>1, SettledRests DEF Coming, Going, Busy, Bringing, Ending
  <1>3. \A f \in Families : Wanted(s, f) =>
          LET p == lister[s].prov IN p \in Providers /\ Has(s, p) /\ f \in lister[s].fams /\ Serves(p, f)
    BY <1>1 DEF Wanted, Has, Serves, SubInv, ListTyped, SubnetSpec
  <1>4. ASSUME NEW f \in Families, Wanted(s, f)
        PROVE  /\ s \in DOMAIN conf[f]
               /\ conf[f][s] = [prov |-> lister[s].prov, rev |-> lister[s].rev,
                                addr |-> GetNetworkStatus(lister[s].prov)[f]]
               /\ Nic[lister[s].prov] \in up[f]
    BY <1>2, <1>3, <1>4 DEF RightInv, ServedInv, Current
  <1>5. ASSUME NEW f \in Families, s \in DOMAIN conf[f] PROVE Wanted(s, f)
    <2> DEFINE p == conf[f][s].prov
    <2>1. p \in Providers
      <3>1. conf[f] \in MapOf(Subnets, Config) BY <1>1 DEF SubInv, DhcpTyped
      <3>2. conf[f][s] \in Config BY <1>5, <3>1, MapOfElim
      <3> QED BY <3>2 DEF Config
    <2>2. Serves(p, f) /\ Kept(s, p, f) BY <1>1, <1>2, <1>5, <2>1 DEF ServeInv, ConfInv
    <2> QED BY <1>2, <2>2 DEF Kept, Serves, Has, Wanted
  <1>6. ASSUME NEW f \in Families, Wanted(s, f)
        PROVE  s \in DOMAIN subnetGauge /\ subnetGauge[s] = lister[s].prov
    BY <1>2, <1>3, <1>6 DEF RightInv, NamedInv, Serves
  <1> QED BY <1>4, <1>5, <1>6 DEF Right

\* A subnet about which nothing is under way is served as it asks, under its current
\* provider and in exactly its families, whatever happens to others and however often
\* servers fail to start, when its edits wait for each other, the controller's own
\* networks have their own interfaces, and a subnet that may move to another provider
\* does not have a server that fails to stop on the way.
THEOREM SettledTheorem ==
  ASSUME EditsWait, OwnInterfaces, IsFiniteSet(Providers), GoesOnce
  PROVE  Spec => []SettledIsServed
  <1>1. RightInv /\ [Next]_vars => RightInv' BY RightNext
  <1> QED BY <1>1, RightInit, SettledRight, PTL DEF Spec

-----------------------------------------------------------------------------
(***************************************************************************)
(* The server gauge of an IPv4 controller.                                 *)
(***************************************************************************)
\* A provider that is reported has a user, or one that is about to leave.
InfoInv == \A f \in Families : \A p \in serverGauge[f] : Serves(p, f) /\ Held(p, f)

\* Steps that leave the gauge alone keep what holds a provider.
LEMMA InfoKept ==
  ASSUME ServeInv, InfoInv, UNCHANGED <<serverGauge, infoMap>>,
         \A f \in Families, p \in Providers : Serves(p, f) /\ Held(p, f) => Held(p, f)'
  PROVE  InfoInv'
  <1>1. \A f \in Families : serverGauge[f] \subseteq Providers BY DEF ServeInv, SubInv, DhcpTyped
  <1> QED BY <1>1, NetworksKept DEF InfoInv

LEMMA EditInfo ==
  ASSUME ServeInv, InfoInv, EditsWait, NEW s \in Subnets, NEW new \in Specs[s] \cup {None}, Edit(s, new)
  PROVE  InfoInv'
  <1> DEFINE n == [sub |-> s, old |-> lister[s], new |-> new]
  <1>1. /\ n \in Note /\ n.old # n.new
        /\ \A e : Due(e)' <=> Due(e) \/ e \in Raised(n)
        /\ \A t \in Subnets : lister'[t] = IF t = s THEN new ELSE lister[t]
        /\ \A t \in Subnets : \A p : t # s => (Has(t, p)' <=> Has(t, p))
        /\ \A p : Has(s, p)' <=> new # None /\ new.on /\ new.prov = p
    BY EditFacts DEF ServeInv
  <1>2. n.sub = s /\ n.old = lister[s] /\ n.new = new OBVIOUS
  <1>3. UNCHANGED <<serverGauge, infoMap, task>> BY DEF Edit, dhcp, cache
  <1> HIDE DEF n
  <1>4. /\ \A t, p : (Coming(t, p) => Coming(t, p)') /\ (Going(t, p) => Going(t, p)')
        /\ \A p : Has(s, p)' /\ p \notin Own => Coming(s, p)'
        /\ \A p : Has(s, p) /\ p \notin Own => Has(s, p)' \/ Going(s, p)'
    BY <1>1, <1>2, RaisedFits DEF Coming, Going, Has
  <1>5. \A f, p : Held(p, f) /\ p \notin Own => Held(p, f)'
    BY <1>1, <1>3, <1>4 DEF Held, Handling, Prov
  <1> QED BY <1>3, <1>5, InfoKept DEF Serves

LEMMA QuietInfo ==
  ASSUME ServeInv, InfoInv, Deliver \/ (\E e \in queue.later : RetryTimer(e)) \/ PodWorker \/ UNCHANGED vars
  PROVE  InfoInv'
  <1>1. SubInv BY DEF ServeInv
  <1>2. UNCHANGED <<lister, task, serverGauge, infoMap>>
    BY DEF Deliver, RetryTimer, PodWorker, PodTake, PodRead, PodWrite, vars, dhcp, cache
  <1>3. \A e : Due(e)' <=> Due(e)
    <2>1. CASE Deliver \/ \E e \in queue.later : RetryTimer(e) BY <1>1, <2>1, InformerDue
    <2>2. CASE PodWorker \/ UNCHANGED vars
      <3>1. UNCHANGED <<notes, queue>> BY <2>2 DEF PodWorker, PodTake, PodRead, PodWrite, vars
      <3> QED BY <3>1 DEF Due
    <2> QED BY <2>1, <2>2
  <1>4. \A s, p : (Has(s, p)' <=> Has(s, p)) /\ (Coming(s, p)' <=> Coming(s, p)) /\ (Going(s, p)' <=> Going(s, p))
    BY <1>2, <1>3 DEF Has, Coming, Going
  <1>5. \A f, p : Held(p, f) => Held(p, f)' BY <1>2, <1>4 DEF Held, Handling, Prov
  <1> QED BY <1>2, <1>5, InfoKept

LEMMA SkipInfo == ASSUME ServeInv, InfoInv, Skip PROVE InfoInv'
  <1>1. /\ task = None /\ UNCHANGED lister
        /\ \A s \in Subnets, p \in Providers :
             (Going(s, p)' <=> Going(s, p)) /\ (Coming(s, p) /\ Has(s, p) => Coming(s, p)')
    BY SkipFacts DEF ServeInv
  <1>2. UNCHANGED <<serverGauge, infoMap>> BY DEF Skip, dhcp, cache
  <1>3. \A s, p : Has(s, p)' <=> Has(s, p) BY <1>1 DEF Has
  <1>4. \A f \in Families, p \in Providers : Held(p, f) => Held(p, f)' BY <1>1, <1>3 DEF Held
  <1> QED BY <1>2, <1>4, InfoKept

LEMMA TakeInfo == ASSUME ServeInv, InfoInv, Take PROVE InfoInv'
  <1>1. NextEvent \in Event BY TakeDue DEF ServeInv
  <1> PICK s \in Subnets, p \in Providers, op \in {"ADD", "UPDATE", "DELETE"} :
        NextEvent = Item(s, op, p)
    BY <1>1 DEF Event, Item
  <1>2. /\ task = None /\ UNCHANGED lister
        /\ task' # None /\ task'.ev.prov = p
        /\ \A f \in Families : Handling(f)'
        /\ \A t, q : Has(t, q)' <=> Has(t, q)
        /\ \A t, q : t # s \/ q # p => (Coming(t, q) => Coming(t, q)') /\ (Going(t, q) => Going(t, q)')
    BY TakeFacts DEF ServeInv
  <1>3. UNCHANGED <<serverGauge, infoMap>> BY DEF Take, dhcp, cache
  <1>4. ASSUME NEW f \in Families, NEW q \in Providers, Held(q, f) PROVE Held(q, f)'
    <2>1. CASE q = p BY <1>2, <2>1 DEF Held, Prov
    <2>2. CASE q # p BY <1>2, <1>4, <2>2 DEF Held
    <2> QED BY <2>1, <2>2
  <1> QED BY <1>3, <1>4, InfoKept

LEMMA FinishInfo ==
  ASSUME ServeInv, InfoInv, task # None, NEW failed \in BOOLEAN,
         queue' = Handled(queue, task.ev, failed), task' = None,
         UNCHANGED <<lister, notes, infoMap, serverGauge>>,
         failed \/ Prov \notin Attached \/ \A f \in Families : ~Handling(f)
  PROVE  InfoInv'
  <1> PICK s \in Subnets, p \in Providers, op \in {"ADD", "UPDATE", "DELETE"} :
        Sub = s /\ Prov = p /\ task.ev.op = op
    BY TaskItem DEF ServeInv
  <1>1. /\ \A t, q : Coming(t, q) => Coming(t, q)'
        /\ \A t, q : Going(t, q) => Going(t, q)'
        /\ failed /\ op # "DELETE" => Coming(s, p)'
        /\ failed /\ op = "DELETE" => Going(s, p)'
        /\ \A t, q : Has(t, q)' <=> Has(t, q)
        /\ op # "DELETE" => Has(s, p)
    <2>1. op # "DELETE" => Has(s, p) BY TaskItem DEF ServeInv, TaskInv
    <2> QED BY <2>1, FinishFacts DEF ServeInv
  <1>2. \A f \in Families : Serves(p, f) /\ Handling(f) => failed BY DEF Serves
  <1>3. ASSUME NEW f \in Families, NEW q \in Providers, Serves(q, f), Held(q, f) PROVE Held(q, f)'
    <2>1. CASE \E t \in Subnets : Going(t, q) \/ (Has(t, q) /\ (f \in lister[t].fams \/ Coming(t, q)))
      BY <1>1, <2>1 DEF Held
    <2>2. CASE p = q /\ Handling(f)
      <3>1. failed BY <1>2, <1>3, <2>2
      <3> QED BY <1>1, <2>2, <3>1 DEF Held
    <2> QED BY <1>3, <2>1, <2>2 DEF Held
  <1> QED BY <1>3, InfoKept

\* Within an item, a provider on the gauge that loses its excuse has a user.
LEMMA WithinInfo ==
  ASSUME ServeInv, InfoInv, task # None, task' # None, UNCHANGED <<lister, notes, queue, infoMap>>,
         task'.ev = task.ev,
         \A f \in Families : \A p \in serverGauge'[f] :
           \/ p \in serverGauge[f] /\ (p # Prov \/ (Handling(f) => Handling(f)'))
           \/ (p \in serverGauge[f] \/ Serves(p, f)) /\ \E s \in Subnets : Asks(s, p, f)
  PROVE  InfoInv'
  <1>1. \A t, q : (Has(t, q)' <=> Has(t, q)) /\ (Coming(t, q)' <=> Coming(t, q)) /\ (Going(t, q)' <=> Going(t, q))
    BY MoveFacts
  <1> SUFFICES ASSUME NEW f \in Families, NEW p \in serverGauge'[f] PROVE Serves(p, f) /\ Held(p, f)'
    BY NetworksKept DEF InfoInv
  <1>2. Serves(p, f) /\ (Held(p, f) \/ \E s \in Subnets : Asks(s, p, f)) BY DEF InfoInv
  <1>3. (\E s \in Subnets : Asks(s, p, f)) => Held(p, f)' BY <1>1 DEF Asks, Held
  <1>4. ASSUME \A s \in Subnets : ~Asks(s, p, f) PROVE Held(p, f)'
    <2>1. Held(p, f) /\ (p # Prov \/ (Handling(f) => Handling(f)')) BY <1>2, <1>4
    <2>2. (\E s \in Subnets : Going(s, p)) \/ (Prov = p /\ Handling(f)) BY <1>4, <2>1 DEF Held, Asks
    <2>3. Prov' = Prov BY DEF Prov
    <2> QED BY <1>1, <2>1, <2>2, <2>3 DEF Held
  <1> QED BY <1>2, <1>3, <1>4

LEMMA WorkInfo ==
  ASSUME ServeInv, InfoInv, Families \subseteq {"v4"}, Look \/ (\E f \in Families : FamilyStep(f)) \/ End
  PROVE  InfoInv'
  <1>1. SubInv BY DEF ServeInv
  <1>2. UNCHANGED <<lister, notes, infoMap>> /\ task # None
    BY DEF Look, End, TaskAt, FamilyStep, Unbuildable, Configure, Join, Start, StartFails, Withdraw, Stop,
           StopFails, Working, cache
  <1>3. CASE End
    <2> DEFINE failed == task.failed
    <2>1. failed \in BOOLEAN BY <1>1, <1>2 DEF SubInv, TaskTyped, Task
    <2>2. failed \/ \A f \in Families : ~Handling(f) BY <1>3 DEF End, Handling, ToSet
    <2>3. queue' = Handled(queue, task.ev, failed) /\ task' = None /\ UNCHANGED serverGauge
      BY <1>3 DEF End
    <2> HIDE DEF failed
    <2> QED BY <1>2, <2>1, <2>2, <2>3, FinishInfo
  <1>4. CASE Look
    <2>1. UNCHANGED serverGauge BY <1>4 DEF Look, dhcp
    <2>2. CASE task.ev.prov \in Attached BY <1>1, <1>2, <1>4, <2>1, <2>2, LookMoves, WithinInfo
    <2>3. CASE task.ev.prov \notin Attached
      <3>1. task' = None /\ queue' = Handled(queue, task.ev, FALSE) BY <1>4, <2>3 DEF Look
      <3> QED BY <1>2, <2>1, <2>3, <3>1, FinishInfo DEF Prov
    <2> QED BY <2>2, <2>3
  <1>5. CASE \E f \in Families : FamilyStep(f)
    <2> PICK f \in Families : FamilyStep(f) BY <1>5
    <2>1. \A g \in Families : g = f BY DEF FamilyStep
    <2>2. CASE Configure(f)
      <3>1. Working(f, "build") /\ UNCHANGED <<queue, serverGauge>> /\ task' = [task EXCEPT !.step = "serve"]
        BY <2>2 DEF Configure
      <3>2. task' # None /\ task'.ev = task.ev /\ \A g : Handling(g)' <=> Handling(g)
        BY <1>1, <3>1, FamilyStays
      <3> QED BY <1>2, <3>1, <3>2, WithinInfo
    <2>3. CASE Withdraw(f) /\ ~OtherUsers(Sub, Prov, f)
      <3>1. Working(f, "build") /\ UNCHANGED <<queue, serverGauge>> /\ task' = [task EXCEPT !.step = "stop"]
        BY <2>3 DEF Withdraw
      <3>2. task' # None /\ task'.ev = task.ev /\ \A g : Handling(g)' <=> Handling(g)
        BY <1>1, <3>1, FamilyStays
      <3> QED BY <1>2, <3>1, <3>2, WithinInfo
    <2>4. CASE Withdraw(f) /\ OtherUsers(Sub, Prov, f)
      <3>1. Working(f, "build") /\ UNCHANGED <<queue, serverGauge>> /\ NextFamily(FALSE)
        BY <2>4 DEF Withdraw
      <3>2. task' # None /\ task'.ev = task.ev BY <1>1, <3>1, FamilyDone
      <3>3. \E s \in Subnets : Asks(s, Prov, f) BY <2>4 DEF OtherUsers, Asks, Has
      <3> QED BY <1>2, <2>1, <3>1, <3>2, <3>3, WithinInfo
    <2>5. CASE StopFails(f) /\ task.ev.op = "DELETE"
      <3>1. task' = None /\ queue' = Handled(queue, task.ev, TRUE) /\ UNCHANGED serverGauge
        BY <2>5 DEF StopFails, dhcp
      <3> QED BY <1>2, <3>1, FinishInfo
    <2>6. CASE Unbuildable(f) \/ StartFails(f) \/ (StopFails(f) /\ task.ev.op # "DELETE")
      <3>1. UNCHANGED <<queue, serverGauge>> /\ NextFamily(TRUE)
        BY <2>6 DEF Unbuildable, StartFails, StopFails, dhcp
      <3>2. PICK step \in {"build", "serve", "stop"} : Working(f, step)
        BY <2>6 DEF Unbuildable, StartFails, StopFails
      <3>3. task' # None /\ task'.ev = task.ev /\ \A g : Handling(g)'
        BY <1>1, <3>1, <3>2, FamilyDone
      <3> QED BY <1>2, <3>1, <3>3, WithinInfo
    <2>7. CASE Stop(f)
      <3>1. Working(f, "stop") /\ UNCHANGED queue /\ NextFamily(FALSE) BY <2>7 DEF Stop
      <3>2. task' # None /\ task'.ev = task.ev BY <1>1, <3>1, FamilyDone
      <3>3. serverGauge'[f] = serverGauge[f] \ {Prov}
        BY <1>1, <2>7 DEF Stop, StopServer, SubInv, DhcpTyped
      <3> QED BY <1>2, <2>1, <3>1, <3>2, <3>3, WithinInfo
    <2>8. CASE Join(f) \/ Start(f)
      <3>1. Working(f, "serve") /\ UNCHANGED queue /\ NextFamily(FALSE) BY <2>8 DEF Join, Start
      <3>2. task' # None /\ task'.ev = task.ev BY <1>1, <3>1, FamilyDone
      <3>3. Needed(f) /\ f \in DOMAIN task.net BY <1>1, <1>2, <3>1, TaskItem DEF ServeInv, StepInv
      <3>4. Sub \in Subnets /\ Serves(Prov, f) /\ Asks(Sub, Prov, f)
        BY <3>1, <3>3, NeededAsked DEF Serves
      <3>5. serverGauge'[f] \subseteq serverGauge[f] \cup {Prov}
        <4>1. CASE Join(f) BY <4>1 DEF Join
        <4>2. CASE Start(f) BY <1>1, <4>2 DEF Start, SubInv, DhcpTyped
        <4> QED BY <2>8, <4>1, <4>2
      <3> QED BY <1>2, <2>1, <3>1, <3>2, <3>4, <3>5, WithinInfo
    <2> QED BY <2>2, <2>3, <2>4, <2>5, <2>6, <2>7, <2>8 DEF FamilyStep
  <1> QED BY <1>3, <1>4, <1>5

LEMMA InfoNext == EditsWait /\ Families \subseteq {"v4"} /\ ServeInv /\ InfoInv /\ [Next]_vars => InfoInv'
  <1> SUFFICES ASSUME EditsWait, Families \subseteq {"v4"}, ServeInv, InfoInv, [Next]_vars PROVE InfoInv'
    OBVIOUS
  <1>1. CASE Worker BY <1>1, SkipInfo, TakeInfo, WorkInfo DEF Worker
  <1> QED BY <1>1, EditInfo, QuietInfo DEF Next

LEMMA GaugeAgrees == RightInv /\ InfoInv /\ Families \subseteq {"v4"} => ServerGaugeAgrees
  <1> SUFFICES ASSUME RightInv, InfoInv, Families \subseteq {"v4"}, \A s \in Subnets : Settled(s),
                      NEW f \in Families
               PROVE  serverGauge[f] = {p \in Attached : \E s \in Subnets : Wanted(s, f) /\ lister[s].prov = p}
    BY DEF ServerGaugeAgrees
  <1>1. SubInv BY DEF RightInv, TurnInv, ServeInv
  <1>2. /\ \A s \in Subnets : \A q : ~Coming(s, q) /\ ~Going(s, q)
        /\ task = None
    BY <1>1, SettledRests, TaskItem DEF Coming, Going
  <1>3. ASSUME NEW p \in serverGauge[f]
        PROVE  p \in Attached /\ \E s \in Subnets : Wanted(s, f) /\ lister[s].prov = p
    <2>1. Serves(p, f) /\ Held(p, f) BY DEF InfoInv
    <2> QED BY <1>2, <2>1 DEF Held, Has, Wanted, Serves
  <1>4. ASSUME NEW s \in Subnets, Wanted(s, f) PROVE lister[s].prov \in serverGauge[f]
    <2> DEFINE p == lister[s].prov
    <2>1. p \in Providers /\ Has(s, p) /\ f \in lister[s].fams /\ Serves(p, f)
      BY <1>1, <1>4 DEF Wanted, Has, Serves, SubInv, ListTyped, SubnetSpec
    <2>2. Current(s, p, f) BY <1>2, <2>1 DEF RightInv, ServedInv, Bringing
    <2> QED BY <2>2 DEF Current
  <1> QED BY <1>3, <1>4

\* On an IPv4 controller, under the same conditions, the server gauge has exactly the
\* providers with a subnet to serve once nothing is under way, although it is cleared
\* by the provider and the server by the interface that providers share.
THEOREM ServerGaugeTheorem ==
  ASSUME EditsWait, OwnInterfaces, IsFiniteSet(Providers), GoesOnce, Families \subseteq {"v4"}
  PROVE  Spec => []ServerGaugeAgrees
  <1>1. RightInv /\ [Next]_vars => RightInv' BY RightNext
  <1>2. ServeInv /\ [Next]_vars => ServeInv' BY ServeNext
  <1>3. InfoInv /\ ServeInv /\ [Next]_vars => InfoInv' BY InfoNext
  <1>4. Init => InfoInv BY DEF Init, InfoInv
  <1>5. RightInv /\ InfoInv => ServerGaugeAgrees BY GaugeAgrees
  <1> QED BY <1>1, <1>2, <1>3, <1>4, <1>5, RightInit, ServeInit, PTL DEF Spec
=============================================================================
