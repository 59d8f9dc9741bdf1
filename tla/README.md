# Verification of dcloud-dhcp-controller

TLA+ modules, TLC runs and TLAPS proofs for `dcloud-dhcp-controller`, the
Kubernetes controller that answers DHCP for KubeVirt virtual machines with the
addresses kube-ovn gave them.  `src/` below is the repository.

## 1. The system

One process, elected leader among its replicas, runs these parts.

| part | state | operations | code |
|---|---|---|---|
| DHCP allocator, one for v4 and one for v6 | `subnets` (name -> configuration), `leases` (MAC -> address and subnet), four indexes between pods, MACs and subnets, `servers` (interface -> socket); one RW mutex | add, update, delete a subnet; add, delete a pod's leases; look-ups; a handler goroutine per packet; start and stop a server on an interface | `src/pkg/dhcp/v4/dhcp.go`, `v6/dhcp.go` |
| subnet controller | informer store, work queue | from changes of Subnet objects to configurations, servers, gauges; tells the pod controller | `src/pkg/controller/subnet` |
| pod controller | informer store, work queue | from the network status annotation of pods to leases and gauges | `src/pkg/controller/pod` |
| service controller | informer store, work queue | from load-balancer Services to additional networks in the network cache; updates or removes the subnets on them | `src/pkg/controller/service` |
| worker | the queue's items | take, sync, retry with a rate limit, recover a panic | `src/pkg/controller/worker.go` |
| network cache | `orgMap` (own interfaces), `infoMap` (from Services); a reentrant mutex | look up, set, update, delete, count an interface's users | `src/pkg/cache/network_cache.go` |
| pod cache | the controller's own pod | look up | `src/pkg/cache/pod_cache.go` |
| metrics | server, subnet and lease gauges | update, delete, serve | `src/pkg/metrics/metrics.go` |
| application | leadership, context of the services, leader label | elect, start, stop | `src/pkg/app/app.go` |
| option and configuration building | none | pure functions | `src/pkg/util/network.go` |

**How they interact.**  Informers call the event handlers, which put events in
the queues.  Each controller has one worker.  The subnet worker calls both
allocators and the metrics and queues an UPDATE for each pod of a subnet
(`NotifyPods`); the pod worker adds and deletes leases, reads the subnet's
configuration and sets lease gauges; the service worker changes the network
cache, queues UPDATEs with the subnet controller and, on deletion, runs
`DeleteNetworkProvider` itself.  DHCP servers run a goroutine per packet.

**What is hard about it.**  Events are values that the queue deduplicates and
retries out of order, while the object they are about is read from the lister,
which is ahead of them; servers are shared by the subnets of a provider and
interfaces by providers; several pods carry one MAC address while a virtual
machine migrates; a packet handler reads under two locks; the service worker
acts on the subnet worker's state; services outlive the lease of leadership.
`PROJECT.json` lists each such hazard at its line with the property that would
catch it, or why none does yet.

**What makes each part correct.**

- *Allocator*: the indexes never drift apart from the leases; a lease lives
  exactly as long as somebody carries its MAC address; a reply never mixes
  subnets; a subnet's index finds all its pods.
- *Subnet controller*: what is settled is served as it asks, in the families it
  asks, and what does not ask is not; a server stops with its last subnet and
  not before; failures are overcome; gauges agree.
- *Pod controller*: leases follow the annotations of the living pods, gauges
  follow the leases; a process that starts anew gets both back.
- *Service controller*: an additional network exists while its Service does,
  and its subnets are served meanwhile; its lock is given back.
- *Application*: at most one replica leads; the label marks it and no other; in
  the end one leads and serves.
- *Options*: what is parsed and built is what the user wrote.

## 2. Modules

| module | models | state and actions against the code |
|---|---|---|
| `GoMaps` | Go maps and `map[string]sets.String` indexes | a map is a function on its present keys; `AddTo` and `TakeFrom` are the insert and delete idioms of `AddPodDHCPLease` and `DeletePodDHCPLease` |
| `LeaseTable` | abstract specification | who carries which MAC, who joined which subnet, the lease of each MAC; `Bind` and `Release` |
| `DhcpAllocator` | the store and the packet handlers of both `dhcp.go` | the six maps under their Go names; one action per method, since each holds the mutex throughout; `Receive`, `ReadLease`/`NoLease`, `Answer`/`NoAnswer` are `dhcpHandler` cut at its two reads |
| `DhcpServer` | `AddAndRun`, `DelAndStop` and the goroutine each server gets to watch the context | below |
| `WorkQueue` | client-go's rate-limiting queue as `worker.go` uses it | `order`, `dirty`, `running` (the queue's processing set), `later` (items in the delay heap); `Handled` is the end of `Worker.handler` |
| `SubnetController` | `pkg/controller/subnet` with the informer before it, the allocators' `subnets` and `servers` under it, the network cache it reads and the pod worker's gauge refresh beside it | below |
| `ServiceController` | extends `SubnetController`: `pkg/controller/service` and the network cache it changes | below |
| `PodController` | extends `DhcpAllocator`: `pkg/controller/pod`, the lease gauges, restarts | below |
| `LeaderElection` | `pkg/app` and `main.go` | below |
| `DhcpOptions` | `pkg/util/network.go` as pure operators | below |
| `*Proofs` | theorems and their lemmas | section 5 |
| `MC*` | constants for TLC | |

`SubnetController` has three goroutines.

- *Informer*: `Edit` stores an object, `Deliver` later calls the event handler,
  in order.  The two are apart because the informer updates the store before
  the handler runs, and the worker may read the store in between.
- *Subnet worker*: `Take` (or `Skip`, when `sync` returns without touching
  anything) dequeues an event and reads the lister once; `Look` copies the
  provider's network out of the cache, or finishes the item when there is none.
  Then, per family in order, `Unbuildable`, or `Configure` followed by `Join`,
  `Start` or `StartFails`; or `Withdraw` followed, if no other subnet uses the
  provider, by `Stop` or `StopFails`.  `End` writes the subnet gauge, notifies
  the pods and finishes the item.  `task` holds the local variables of that
  call chain.  An edit, or a step of the service worker, may come in between
  any two; `Look` and `Stop` wait for the network cache's lock.
- *Pod worker*: `PodTake`, then per family `PodRead` (`GetSubnet`) and
  `PodWrite` (the gauge).

`DhcpServer` looks at one allocator's servers from inside, where
`SubnetController` sees only which interfaces have one (`up`).  A server is an
identifier that is used once; `servers` is the map, `started` remembers where a
server was started, `open` and `cancelled` are the state of its socket and of
its own context, and `watch` is where its goroutine is: `created`, `waiting` in
its select, `stopping` (it saw the end of the services' context and will call
`DelAndStop`), `gone`.  `AddAndRun` and `DelAndStop` hold the mutex throughout,
so each is one action, or two where the socket may fail to close (`StopFails`,
`WatcherFails`); either way the socket may turn out closed.  A goroutine is
created before it reaches its select (`Selects`); by then the context may be
over, and Go picks one of two ready branches at random.  The workers' calls
are not stopped by the end of the context, because client-go lets a queue that
shuts down be emptied.

`ServiceController` adds a second informer and worker.  A Service's
specification is its annotation as written (`Qualified` completes it with the
namespace, or says that it has no such form), its kind, whether it selects this
controller, and its load balancer's addresses.  For a usable Service the worker
stores the network (`SvcStore`: `SetNetworkStatus` or `UpdateNetworkStatus`),
then reads the provider's subnets (`SvcList`) and queues an UPDATE for each
(`SvcNotify`), on every ADD and UPDATE of the Service and every retry, whether or
not its addresses changed: the comparison that is to prevent it never finds two
networks equal (section 4).  `SvcList` tells all subnets of the provider; the code
passes over those that are being deleted (`service.go:133`), and a subnet that
lingers so, with a deletion time, is not in the model.  For a deletion it takes the
cache's lock (`SvcDelete`), picks the provider's subnets in any order and runs
`DeleteNetworkProvider` for each (`SvcWithdraw`, `SvcStop`, `SvcReport`) and removes
the network (`SvcRemove`); `SvcStopFails` gives the lock back and is retried.  `OtherUsers`, `StopServer`,
`CloseFails` and `Report` are those of the subnet worker, since the code calls
the same methods.

`PodController` puts the pod worker on one allocator; the other family's steps
follow with another `IPs` and touch another allocator.  `Attach` and `Delete`
are what happens to pods, `PodTake` to `PodEnd` and `HandlerDeletePod` what the
worker does, cut between `AddPodDHCPLease`, `GetSubnet` and the gauge.
`ChangeSubnet` and `NotifyPods` are the subnet worker's part.  `SubnetNames` is
`getSubnetNameByProvider`: the set of answers, since the index lists subnets in
the order of a Go map.  It is a set of constants where the code asks the lister
(`pod.go:46`): a pod handled before its subnet is listed, which has no annotation
with the subnet's name, is not in the model.  `Restart` empties the process and
leaves the pods.

`LeaderElection` has a process per replica with two goroutines: the elector
(`phase`) and `OnStartedLeading` (`services`).  Time is counted in units of the
5 seconds of `RetryPeriod`: 12 of them are the lease's duration, a leader gives
up 4 after its last renewal (one wait, and the 3 of `RenewDeadline`).  The
election itself is client-go's (v0.30.4), modelled as an environment: a lease
is acquired when it is free or `LeaseDuration` old, renewed in `Tick`, given
back in `Release`.  A process that stops leading returns from `Run` and ends;
its container starts again as a process with a new identity (`Gone` stands for
the identities of ended ones).  The deployment has one replica and a rolling
update, so two pods may live at a time.

In `DhcpOptions` a string is a sequence of words and of the parser's special
characters.  `ParseDHCPOptions` folds `Step`, the loop's body, over it; `BuildV4`
and `BuildV6` build the fields of a configuration.  `Write` and `Render` are the
user: entries in each way of writing them.

Data is abstracted to what the properties tell apart.  A subnet's specification
is whether DHCP is on, its DHCP provider, the families of its CIDR, and `rev`,
which stands for the fields whose change raises an UPDATE (options, gateway,
CIDR).  A configuration is the subnet or provider it was built for and a
revision.  An allocator call with an empty or unparsable argument returns an
error and changes nothing; such calls are left out.  The failures kept are the
ones that matter later: no address of the family (`Unbuildable`), a socket that
does not open (`StartFails`) or close (`StopFails`).

## 3. Runs

| run | question | instance | states |
|---|---|---|---|
| `allocator_store` | do the indexes stay inverse, does the store implement the lease table, does a survivor keep its lease, are replies coherent? | v4, 2 pods, 2 MACs, 2 subnets, an address and nil, 1 handler | 36 thousand |
| `pods` | do leases follow pods and gauges leases, does a subnet's index find every pod behind a lease? | 3 pods (source and target of a migration, another machine whose status does not parse), 1 MAC, 1 subnet in 2 revisions, 2 subnet changes, 1 restart | 1.16 million |
| `dhcp_servers` | is a socket ever lost, does a server ever lack the watcher that stops it, does a watcher ever linger, does the end of the context close the servers? | 2 interfaces, 3 servers, 1 socket that fails to close, sockets that die at any time | 10 thousand |
| `subnet_settled` | is a settled subnet served and reported right, and no server left over or pulled away? | v4, 2 subnets, 3 attached providers (2 on one interface) and OVN's own, 5 edits, deletions, 1 failed start | 737 thousand |
| `subnet_live` | do coalesced reconfigurations lose anything, do lease gauges follow, is everything that exists served in the end? | dual stack on an interface without IPv6, 2 subnets, 3 edits, of one subnet at any speed, 1 failed start, 1 failed stop | 722 thousand |
| `networks` | do networks follow their Services and subnets the networks, with two workers on one state? | v4, 2 subnets that may move, 2 edits of them, 3 Services, 2 networks on one interface, 3 edits, 2 addresses, 1 failed stop | 1.08 million |
| `leader` | is there ever a second leader, a labelled candidate, or a cluster without a serving leader for ever? | 2 replicas, 3 failing calls or outages, 2 terminations or crashes | 178 thousand |
| `options` | is what is parsed and built what was written? | 4 kinds of subnet, up to 3 of 5 options, lists of 1 or 2 items, 3 notations | 78 thousand |
| `subnet_deleted`, `subnet_reordered`, `network_gone`, `lookup` | disagreements, section 4 | 1 or 2 subnets, 2 to 4 edits; 1 pod | |

**Bounds.**  The allocator run has no bound but the sizes of the sets: two pods
and two MAC addresses allow sharing, swapping and moving; one handler suffices
because handlers only read, and never each other.  In `pods` the third pod is
there for what a deletion may take from another machine; a status with a
network that is skipped before one that is bound meets the early `continue`;
two subnet changes are a configuration and its change or removal.  Three
servers on two interfaces give an interface a second server while the watcher
of its first is still there, and another interface beside it; one failure to
close meets every caller of `DelAndStop`.  The subnet runs bound the number of
edits and of failures (`MaxEdits`, `MaxStartFaults`, `MaxStopFaults`).  Two
subnets are enough for one to use what another leaves; five edits create both,
move one away and bring it back, or delete it, while the other changes.  Two
providers on one interface reach the interface count; the third has its
interface alone.  In `networks` three edits of Services bring a network, change
or lose its address and end it, or let a second one contend for it, or bring the
two networks of an interface and end one; two edits of subnets enable both, or
enable one and disable it or move it to the other network.  So the service worker
removes one network while the subnet worker is busy with the other, and the count
of an interface rises and falls between a worker's check and its `Stop`.  In
`leader` an outage, for however many calls, counts as one fault, so that a leader can be cut off until it gives up
and another call can fail after it.  Runs end in states where edits are used up
and nothing is under way: these configurations do not check deadlock; `leader`
does.

**`EditsWait`.**  A subnet is edited only once its last edit has been dealt
with, other subnets' edits running beside it: without it `subnet_reordered`
shows the property false.  Reconfigurations that keep DHCP on and the provider
unchanged need not wait; `subnet_live` has them at any speed.  `subnet_settled`
has no failing stop, since one makes a change of provider go wrong (section 4).
So the runs mark how far the property goes.

**What `networks` asks of users.**  The guards of `SubnetEdit`, `ServiceEdit` and
`SubnetSteps` keep out edits, and one failure, for which the code does the wrong
thing; without each of them TLC finds the properties violated.

| guard | what the code does without it |
|---|---|
| `Resting` in `ServiceEdit`: a Service gives a provider up while the provider's subnets rest; `~Removing` in `SubnetEdit`: and they stay so until the network is gone | a subnet worker past its look-up configures and serves the subnet on a network that is gone; one that takes a subnet off finds the interface's count lowered by the removal and stops the server of the other network's subnets; a subnet that moves or is turned off meanwhile keeps its configuration, since its DELETE finds no network (`service.go:184`) |
| `Holders` in `ServiceEdit`: a Service gives a provider up that nobody else has | deleting a refused Service deletes the network of the one that has it (`service.go:65`) |
| `~Removing` in `ServiceEdit`: nobody asks for a provider until its network is gone | when a server fails to close (`service.go:185`), the retried DELETE takes the network away that the next Service has stored |
| `ToldOfAnother`: a subnet does not move between `SvcList` and `SvcNotify` | the UPDATE names the old provider, and the moved subnet is configured from it (`service.go:136`) |
| `TakesAfterMove`: closing a server does not fail when a subnet is taken off a provider after a move | the retried DELETE comes after the ADD and removes the new configuration by the subnet's name (`subnet.go:237`) |
| the constants: annotations name the namespace and a Service keeps the one it has | `service.go:178`, `event_handler.go:64` |

All else is free: the subnets and Services of other networks, on the same
interface too, are edited and handled while a network is being removed, so that
there the two workers do interleave.

**Fairness** (`LiveSpec`) is weak fairness of the informer's delivery, of each
worker as a whole and of every retry timer.  The Go scheduler runs runnable
goroutines and client-go's delay heap releases an item when its time has come;
the order in which items are handled is the queue's own.  No fairness is
assumed of users.  Failures are not fair either: they are bounded, which says
that a socket opens or closes eventually.  A family without an address fails
for ever, and in `subnet_live` it does.  In `DhcpServer` each watcher goroutine
is weakly fair: it is runnable, and the mutex it takes is never held for ever.
Nobody is obliged to start or stop a server, nor the context to end.

`FairLeaderSpec` is weak fairness of time, of each goroutine and of the
acquisition of a free lease by some candidate (client-go tries every
`RetryPeriod`), and of the restart of a container; terminations, crashes and
failing calls are bounded.

**What `StoppedWithContext` leaves out.**  A watcher that reaches its select
after the end of the context may take the branch that stops nothing, and a
watcher whose `DelAndStop` fails does not try again; the property says so by
starting from a waiting watcher and excusing failures to close.  The process
exits after it lost the leadership, so a socket left this way is short-lived.

**Mutants.**  Each property of a passing run has a mutant of a mapped
definition that breaks it; the mutated forms stand before the definitions, with
a comment "A slip in ...".

## 4. Where the code and its words disagree

1. `subnet_deleted`: `sync` returns the lister's NotFound for the DELETE event
   of a deleted Subnet (`src/pkg/controller/subnet/controller.go:105`), so the
   deletion is retried for ever and never done.  Configuration, server and
   gauge stay; a subnet created again under the name is torn down by the retry.
2. `subnet_reordered`: one worker is to keep the sequence of subnet events
   (`src/pkg/app/app.go:221`), but the queue drops an event equal to a waiting
   one: enable, disable, enable ends with DELETE.
3. `network_gone`: when a Service goes, its provider's subnets are taken down
   one by one, and each finds the others in the lister
   (`src/pkg/controller/subnet/subnet.go:245`); with two of them the server of
   the vanished network is never stopped, though an event says so
   (`src/pkg/controller/service/service.go:189`).
4. `lookup`: `getSubnetNameByProvider` filters the provider's subnets by address
   and then indexes the list before filtering
   (`src/pkg/controller/pod/pod.go:66`): the lease may name a subnet that does
   not contain its address.

Seen on the way, each at its line among the hazards, with no run of its own: a
DELETE that failed is retried after the ADD of the new provider and removes the
configuration by the subnet's name alone (`subnet.go:237`); a failed ADD retried
after a change of provider serves the old one; the DHCPv6 handler updates the
DHCPv4 server gauge (`subnet.go:107`); DHCPv6 NTP servers are parsed and dropped
(`network.go:133`); `app.go:224` says that several coroutines handle pod events,
and starts one; "no need to update any configuration" (`service.go:110`) is never
said, because the network kept in the cache has empty DNS slices
(`network_cache.go:18`) and the one built from it has nil slices
(`service.go:151`), which `reflect.DeepEqual` tells apart.

Because of 1, `SettledIsServed` and `NoOrphanServer` speak of subnets about
which nothing is pending; a deleted subnet whose DELETE is retried is pending
for ever, and `EventuallyServed` speaks of subnets that exist.  `GaugesComplete`
excuses machines one of whose pods has gone: the deletion of a migration's
source removes the target's gauges (`pod.go:227`), and nothing brings them back
before the subnet is reconfigured.

## 5. Proofs

`DhcpAllocatorProofs` proves, for every set of pods, MAC addresses, subnets,
revisions and handlers, finite or not, and from the two assumptions that
`Family` and `Agree` have their values:

| theorem | property | argument |
|---|---|---|
| `TypeInvariance` | `TypeOK` | inductive as it stands: the lemmas on `Put`, `Restrict`, `AddTo` and `TakeFrom` give the type of each new map |
| `IndexInvariance` | `IndexesMirror` | inductive with `TypeOK`. Each pair of indexes is kept inverse by adding a pair to both (`MirrorAddTo`) and by taking a pod out of its members' sets and dropping it (`MirrorTakeFrom`). `DeleteLeaves`: the leases that go are those whose MAC address leaves the index |
| `SurvivorTheorem` | `SurvivorKeepsLease` | with inverse indexes on both sides of the step, the six look-ups of `HasPodDHCPLease` come down to three (`KnownLease`), and no step of another pod disturbs them |
| `CoherentReplies` | `ReplyCoherent` | strengthened by `ConfOwn`, the configuration stored under a name is that subnet's; the handler looks up by the lease it holds |
| `NotifyTheorem` | `NotifyReachesHolders` | inductive with `TypeOK` and `IndexesMirror`. Under `Agree` a binding leaves the other carriers' lease as it is, so their subnet index still fits |
| `TableRefinement` | `ImplementsTable` | initial states map to initial states; `AddPodDHCPLease` to `Bind`, `DeletePodDHCPLease` to `Release` (the carriers that remain are those the inverse index names), everything else to a stutter |

`DhcpServerProofs` proves, for every set of interfaces and of servers and every
bound on failures:

| theorem | property | argument |
|---|---|---|
| `ServerTypes` | `TypeOK` | inductive as it stands; `StopType` serves the two callers of `DelAndStop` |
| `SocketTheorem` | `NoStraySocket` | inductive with `TypeOK`: a new socket gets the entry of a free interface, and an entry goes only with its socket |
| `GuardTheorem` | `WatcherGuards` | strengthened by `NoneStopping`, that no watcher is about to stop a server before the context has ended; different interfaces have different servers, so that waking one watcher leaves the others |

`IndexesMirror` is what the others need: deletion decides which leases go by
looking at one index for the members of the other, and is right only while the
two are inverse.

`LibraryProofs` has what the proofs share.  Of `GoMaps`: what each map idiom
keeps of a type and which members it leaves.  Of `WorkQueue`: each operation of
the queue keeps every waiting item in `order` exactly once (`AddOK` to
`HandledOK`), loses nothing that is pending but the item that was handled
(`AddPending` to `HandledPending`), does to the sets of waiting items what its
name says (`AddSets` to `HandledSets`), and keeps one item before another
(`AddPrecedes` to `GetPrecedes`).  `AddEach` is written out for the at most two
events a change raises, so that it can be proved about.

`PodControllerProofs` proves, for every finite set of pods and any statuses,
subnets and bounds:

| theorem | property | argument |
|---|---|---|
| `PodStoreTheorem` | `IndexesMirror`, `NotifyReachesHolders` of `PodSpec` | `StoreStep`: every step of the pod controller is a step of `DhcpAllocator`, a stutter, or a restart, which leads to its initial states; so the invariants proved of the store carry over |
| `PodTypes` | `PodTypeOK` | inductive with the queue's invariant; `StoreStep` gives the store's part |
| `LeasesTheorem` | `LeasesFollow` | inductive is `Leasing`: from the moment a pod has gone a DELETE is under way until nothing of it is left and the worker is not at it; from the moment it has a status an ADD is, until everything the status asks for is bound; what is no longer to do of the worker's item is bound, and what is bound is asked for and known by all four indexes |
| `GaugesCurrentTheorem` | `GaugesCurrent` | inductive with `Leasing` is `GaugeInv`, of three parts: each gauge is of a lease some pod carries, and shows it with its subnet's configuration of now, or is about to be written again (`Coming`) or to go with a deleted pod (`Ending`); each carried lease of a configured subnet has a gauge or is about to get one; what the worker has bound is the lease, and what it has read of the subnet is current, or the subnet's change is still to be notified, or the pod's UPDATE waits |
| `GaugesCompleteTheorem` | `GaugesComplete` | the second part of `GaugeInv`, when nothing is coming any more |

`LeasesTheorem` has two conditions, which the code relies on and does not check:
`Agree`, that pods which share a MAC address report one lease for it, and
`DistinctMacs`, that no pod asks for two leases under one MAC address.  Without
either, the later binding takes the lease from the earlier.  The gauges need
only `Agree`.  Both invariants are needed because three actors write what a
gauge repeats: the subnet worker changes the configuration and only then
notifies, the pod worker reads and only then reports, and another pod of the
machine takes all its gauges with it.  `CarrierNotified`, that a lease's
subnet finds every carrier, is where `NotifyReachesHolders` is used.

`SubnetControllerProofs` proves, for all subnets, providers, networks and numbers
of edits and failures:

| theorem | property | argument |
|---|---|---|
| `SubnetTypes` | `TypeOK` | inductive with what the workers have read (`TaskTyped`, `PodTyped`): the subnet unless the event is a DELETE, the network before the first family, the configuration of the pod worker's own subnet |
| `GaugeTheorem` | `LeaseGaugeFresh` | inductive is `GaugeInv`: a gauge shows the configuration, or the subnet's pods are *announced* (they wait in the pod queue, or the subnet worker owes them a report: it is past `look`, or a DELETE of an attached network is pending), or the pod worker has still to write it; and what the pod worker has read is right or the pods are announced again |

The theorem needs the second half: a worker that fails to close a socket during
a DELETE leaves without a report, after it removed a configuration, and only its
retry reports; that the retry does so rests on the network still being attached
in `SubnetController`.  It holds without `EditsWait`.

`SubnetServedProofs` proves what is served, for all subnets, networks, families and
bounds, from conditions on the environment that each stand in the theorem:

| theorem | property | conditions |
|---|---|---|
| `NoOrphanTheorem` | `NoOrphanServer` | `EditsWait` |
| `NoCollateralTheorem` | `NoCollateralStop` | and `OwnInterfaces`, finitely many providers |
| `SettledTheorem` | `SettledIsServed` | and `GoesOnce` |
| `ServerGaugeTheorem` | `ServerGaugeAgrees` | and no family but v4 |

`EditsWait` is the restriction of the runs (`subnet_reordered` shows what it keeps
out; reconfigurations need not wait).  `OwnInterfaces` says that the controller's
own attached networks each have an interface of their own: they are the network
status of one pod, and the networks of Services copy the default network's
interface (`service.go:101`), which OVN's own provider has.  `GoesOnce` says that no
server fails to stop, or else no subnet changes its provider: with both, TLC
finds the retried DELETE that removes the new provider's configuration (section
4).  The server gauge is for v4 because the DHCPv6 handler writes the v4 gauge.

The argument goes in layers, each inductive over those before.  `ServeInv`: every
event that is due fits the subnet in the lister (`EventsInv`); what the worker has
read is current or the subnet's turn comes again (`TaskInv`); before it starts a
server the subnet is configured, and before it stops one nobody who needs it has
been served yet, but has an event due (`StepInv`: the worker looked for other users
earlier, and they may have come since); a configuration is asked for or about to
go (`ConfInv`); a server has a user, or one whose leaving is under way (`UpInv`).
From the last the orphan and the collateral theorems follow.  `OrderedInv` is the
order of a subnet's events: of a subnet that moves, the DELETE of the old provider
comes before the ADD of the new (`OrderInv`, `MoveInv`), through queue,
deduplication and retries, as long as no DELETE fails after a move
(`ClosingInv`).  It speaks of no network, so it holds whatever becomes of them.
That order is what lets a DELETE by the subnet's name alone remove the right thing.
`TurnInv` joins the two with the edits there may be (`KnownInv`, `MovedInv`).
`RightInv` adds that what a subnet asks for is there or still to be brought
(`ServedInv`) and reported under its provider (`NamedInv`), and `InfoInv` that a
provider in the server gauge has a user or one about to leave.

`ServiceControllerProofs` proves of `SystemSpec`, for all Services and subnets:

| theorem | property | argument |
|---|---|---|
| `ServiceTypes` | `SvcTypeOK` | two workers on one state keep its types, and the network cache's lock is held exactly while a network is being removed, failures included; the steps of the subnet controller are those of `SubnetControllerProofs` |
| `NetworksFollowTheorem` | `NetworksFollow` | inductive is `FollowInv`: a removal is due or under way only for a provider nobody asks for (`GoneInv`); a usable Service's network is there with its addresses, or an event of it is under way (`StoredInv`); a network that is there is asked for, or its removal is under way (`BackedInv`) |
| `NetworksServedTheorem` | `NetworksServed` | inductive is `NetInv`, described below; once all is calm its disjuncts "or it is under way" are false |
| `ServicesStopTheirOwn` | `NoCollateralStop` of `SystemSpec` | from `NetInv`: the server that `Stop` or `SvcStop` closes is on an interface of one network, and a subnet configured there that has nothing under way would be one of the users that `ReadyInv` and `WithdrawInv` exclude |

`NetworksFollowTheorem` asks that a provider is annotated in one form (`OneForm`)
and a Service may drop its annotation but not change it (`KeepsAnnotation`), as
the runs do (section 3); that Services are finitely many; and that the process
starts with an empty cache, as `NewNetworkCache` does.

The other two also ask for `EditsWait` and `OwnInterfaces`, explained above, and
finitely many providers; that
no Service is annotated with a provider of OVN itself (`Foreign`), whose subnets
the event handler filters out; and for the full form of the annotation (`InFull`,
which implies `OneForm`), since `HandlerDelete` looks the subnets up by the
annotation as it is written (`service.go:178`).  The instance of the run
`networks` meets all of them.  Subnets may move between networks, and networks of
Services may share interfaces.  Servers may fail to start at any time, and to stop
at any time but after a move; that and the care users take is in `SubnetSteps`,
`SubnetEdit` and `ServiceEdit` (section 3).

`NetInv` is about what two workers owe each other.  `OrderedInv` carries over: the
service worker's UPDATE comes after what waits already (`NotifyOrder`).  For the
subnet worker: what is due about a subnet fits it (`FitInv`), where an UPDATE may
also find the subnet gone or turned off; what it has read of the subnet and of the
network is current, or an UPDATE waits, or the service worker is about to queue
one (`ReadInv`); before it starts a server the subnet is configured, and before it
stops one whoever needs it has its turn later (`ReadyInv`); a configuration is of
an attached network and asked for, or about to go (`BelongInv`); and what a
subnet needs is served, or the worker is at it (`MetInv`, `NameInv`).
These speak of *current* networks, so a subnet that waits to be told of one
(`Telling`) counts as having an event due, from the moment `SvcStore` changes the
cache until `SvcNotify` has reached it: `TellInv` keeps what the service worker
tells true meanwhile.  For the service worker: while a network is being removed,
from the edit of the Service to the end of `HandlerDelete`, nothing about its
subnets is under way (`RestInv`), while everything about other networks' subnets
may be; and what is configured from that network is on the list of `HandlerDelete`
or among the families it has still to do, and nobody else needs the server it is about to
stop (`WithdrawInv`).  `SvcRemove` then finds nothing configured from the network
it takes away, which is what makes `BelongInv` inductive.

`LeaderElectionProofs` proves for every set of replicas and every bound:

| theorem | property | argument |
|---|---|---|
| `OneLeaderTheorem` | `OneLeader` | inductive is `LeaderHoldsLease`: a leader is the lease's holder, and the lease is as old as the leader's last renewal, at most `GiveUpAfter`, which is less than `LeaseDuration`; nobody can acquire what is held and young |
| `LeaderTypes` | `LeaderTypeOK` | `Typed` is inductive; `Bounded` adds the clocks: `Tick` moves a leader's clock only below `GiveUpAfter` |
| `UnmarkedTheorem` | `CandidateUnmarked` | strengthened by the types: a process that is down or a candidate has no `OnStartedLeading` that could still add the label |

The proofs assume of the constants what the modules name: `FamOrder` lists
families, the maps of networks are maps, the set of pods and of replicas is
finite, and `None` is no value of the types it is added to (`NoneAssumption`,
`TaskAssumption`, `SvcNoneAssumption`).  Assumed of the environment: the queue
is client-go's, the informer delivers changes of an object in order, the elector
is client-go's.

Only model-checked: `DhcpOptions`, a fold over data, which would need induction; liveness
(`EventuallyServed`, `WatcherEnds`, `StoppedWithContext`, `LeadershipSettles`),
which the prover does not reach.

## 6. Not modelled, and what is left

Left out for good: Kubernetes wiring, kubeconfig, HTTP, logging, Kubernetes
events, the pod cache, the wire format of DHCP packets, the labels of gauges
that no property tells apart, the panics of a failed start-up.  The queue's
shutdown is left out because the process ends with its leadership; a panic in
`sync` because none is reachable in what is modelled.

What could follow: the two families of a pod's leases in one model; an abstract `Served`
relation between subnets and servers that `SubnetController` implements once it
is calm.
