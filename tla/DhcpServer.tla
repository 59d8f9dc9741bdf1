----------------------------- MODULE DhcpServer -----------------------------
(***************************************************************************)
(* The servers of one DHCP allocator (AddAndRun and DelAndStop of          *)
(* pkg/dhcp/v4/dhcp.go; the v6 package has the same): which interface has  *)
(* a server, which sockets are open, and for each server the goroutine     *)
(* that waits for the services' context to end.                            *)
(*                                                                         *)
(* AddAndRun and DelAndStop hold the allocator's mutex throughout.  Their  *)
(* callers, the subnet and service workers, go on for a while after the    *)
(* context has ended: a queue that shuts down is emptied first.  A call    *)
(* that finds a server already there, or none to stop, changes nothing.    *)
(***************************************************************************)
EXTENDS Naturals, GoMaps

CONSTANTS Nics,
          Ids,             \* servers that may be started: a bound
          MaxCloseFaults   \* a bound on sockets that fail to close

ASSUME FaultsAssumption == MaxCloseFaults \in Nat

VARIABLES done,        \* the services' context has ended
          servers,     \* interface -> its server
          started,     \* every server ever started -> its interface
          open,        \* servers whose socket is open
          cancelled,   \* servers whose cancelFunc was called
          watch,       \* each server's watcher: where its goroutine is
          closeFaults

vars == <<done, servers, started, open, cancelled, watch, closeFaults>>

Init ==
  /\ done = FALSE /\ servers = EmptyMap /\ started = EmptyMap
  /\ open = {} /\ cancelled = {} /\ watch = EmptyMap /\ closeFaults = 0

\* A slip in AddAndRun: it does not look whether the interface has a server.
AddOverwrites(nic, i) ==
  /\ i \notin DOMAIN started
  /\ servers' = Put(servers, nic, i)
  /\ started' = Put(started, i, nic)
  /\ open' = open \cup {i}
  /\ watch' = Put(watch, i, "created")
  /\ UNCHANGED <<done, cancelled, closeFaults>>

\* Another: no goroutine watches the context.
AddUnwatched(nic, i) ==
  /\ nic \notin DOMAIN servers /\ i \notin DOMAIN started
  /\ servers' = Put(servers, nic, i)
  /\ started' = Put(started, i, nic)
  /\ open' = open \cup {i}
  /\ UNCHANGED <<done, cancelled, watch, closeFaults>>

AddAndRun(nic, i) ==
  /\ nic \notin DOMAIN servers /\ i \notin DOMAIN started
  /\ servers' = Put(servers, nic, i)
  /\ started' = Put(started, i, nic)
  /\ open' = open \cup {i}
  /\ watch' = Put(watch, i, "created")
  /\ UNCHANGED <<done, cancelled, closeFaults>>

\* Serve gives up on a read error: it closes the socket and nobody is told.
ServeEnds(i) ==
  /\ i \in open
  /\ open' = open \ {i}
  /\ UNCHANGED <<done, servers, started, cancelled, watch, closeFaults>>

\* A watcher that waits for server i's own context wakes up and leaves.
Woken(i) == [w \in DOMAIN watch |-> IF w = i /\ watch[w] = "waiting" THEN "gone" ELSE watch[w]]

\* A slip in DelAndStop: cancelFunc is not called.
StopForgetsCancel(nic) ==
  /\ nic \in DOMAIN servers
  /\ open' = open \ {servers[nic]}
  /\ servers' = Drop(servers, nic)
  /\ UNCHANGED <<done, started, cancelled, watch, closeFaults>>

\* DelAndStop; a socket that is closed already counts as closed.
DelAndStop(nic) ==
  /\ nic \in DOMAIN servers
  /\ open' = open \ {servers[nic]}
  /\ cancelled' = cancelled \cup {servers[nic]}
  /\ watch' = Woken(servers[nic])
  /\ servers' = Drop(servers, nic)
  /\ UNCHANGED <<done, started, closeFaults>>

\* A slip in DelAndStop: cancelFunc is called before the socket is closed.
CancelThenFail(nic) ==
  /\ closeFaults < MaxCloseFaults
  /\ nic \in DOMAIN servers /\ servers[nic] \in open
  /\ closeFaults' = closeFaults + 1
  /\ open' \in {open, open \ {servers[nic]}}
  /\ cancelled' = cancelled \cup {servers[nic]}
  /\ watch' = Woken(servers[nic])
  /\ UNCHANGED <<done, servers, started>>

\* DelAndStop fails to close the socket, which may be closed all the same.
StopFails(nic) ==
  /\ closeFaults < MaxCloseFaults
  /\ nic \in DOMAIN servers /\ servers[nic] \in open
  /\ closeFaults' = closeFaults + 1
  /\ open' \in {open, open \ {servers[nic]}}
  /\ UNCHANGED <<done, servers, started, cancelled, watch>>

\* A slip in the watcher: it waits for its own server's context only.
WakeAndLeave ==
  /\ ~done /\ done' = TRUE
  /\ watch' = [i \in DOMAIN watch |-> IF watch[i] = "waiting" THEN "gone" ELSE watch[i]]
  /\ UNCHANGED <<servers, started, open, cancelled, closeFaults>>

\* The context ends.  It closes its own channel before those of the contexts
\* derived from it, so a watcher that waits wakes up to stop its server.
ContextEnds ==
  /\ ~done /\ done' = TRUE
  /\ watch' = [i \in DOMAIN watch |-> IF watch[i] = "waiting" THEN "stopping" ELSE watch[i]]
  /\ UNCHANGED <<servers, started, open, cancelled, closeFaults>>

\* The goroutine gets to its select.  When the context is over, so is the one
\* derived from it, and select takes either branch.
Selects(i) ==
  /\ i \in DOMAIN watch /\ watch[i] = "created"
  /\ \E next \in {"waiting", "stopping", "gone"} :
       /\ next = "waiting" => ~done /\ i \notin cancelled
       /\ next = "stopping" => done
       /\ next = "gone" => done \/ i \in cancelled
       /\ watch' = [watch EXCEPT ![i] = next]
  /\ UNCHANGED <<done, servers, started, open, cancelled, closeFaults>>

\* The watcher stops whatever server its interface has now, or finds none.
WatcherStops(i) ==
  LET nic == started[i] IN
  /\ i \in DOMAIN watch /\ watch[i] = "stopping"
  /\ IF nic \in DOMAIN servers
     THEN /\ open' = open \ {servers[nic]}
          /\ cancelled' = cancelled \cup {servers[nic]}
          /\ servers' = Drop(servers, nic)
     ELSE UNCHANGED <<open, cancelled, servers>>
  /\ watch' = [watch EXCEPT ![i] = "gone"]
  /\ UNCHANGED <<done, started, closeFaults>>

\* The watcher fails to close the socket, logs it and leaves.
WatcherFails(i) ==
  LET nic == started[i] IN
  /\ closeFaults < MaxCloseFaults
  /\ i \in DOMAIN watch /\ watch[i] = "stopping"
  /\ nic \in DOMAIN servers /\ servers[nic] \in open
  /\ closeFaults' = closeFaults + 1
  /\ open' \in {open, open \ {servers[nic]}}
  /\ watch' = [watch EXCEPT ![i] = "gone"]
  /\ UNCHANGED <<done, servers, started, cancelled>>

Watcher(i) == Selects(i) \/ WatcherStops(i) \/ WatcherFails(i)

Next ==
  \/ \E nic \in Nics, i \in Ids : AddAndRun(nic, i)
  \/ \E nic \in Nics : DelAndStop(nic) \/ StopFails(nic)
  \/ \E i \in Ids : ServeEnds(i) \/ Watcher(i)
  \/ ContextEnds

Spec == Init /\ [][Next]_vars

\* Go runs every goroutine that can run, and the mutex is not held for ever.
LiveSpec == Spec /\ \A i \in Ids : WF_vars(Watcher(i))

(***************************************************************************)
(* Properties.                                                             *)
(***************************************************************************)
\* The maps have the types of their Go fields; servers belong where they run.
TypeOK ==
  /\ done \in BOOLEAN /\ closeFaults \in Nat
  /\ servers \in MapOf(Nics, Ids) /\ started \in MapOf(Ids, Nics)
  /\ watch \in MapOf(Ids, {"created", "waiting", "stopping", "gone"})
  /\ DOMAIN watch = DOMAIN started
  /\ open \subseteq DOMAIN started /\ cancelled \subseteq DOMAIN started
  /\ \A nic \in DOMAIN servers :
       servers[nic] \in DOMAIN started /\ started[servers[nic]] = nic

\* The allocator never loses track of a socket: an open one is its interface's
\* server, so it can be stopped and is the only one to answer there, whichever
\* of the workers and watchers starts, stops, fails or comes too late.
NoStraySocket == \A i \in open : started[i] \in DOMAIN servers /\ servers[started[i]] = i

\* While the context lasts, every server has a watcher that will stop it when
\* the context ends, and a server that failed to close keeps its watcher.
WatcherGuards ==
  ~done => \A nic \in DOMAIN servers :
    /\ servers[nic] \notin cancelled
    /\ watch[servers[nic]] \in {"created", "waiting"}

Watching(i, where) == i \in DOMAIN watch /\ watch[i] = where

\* The goroutine of a server that was stopped ends (no leak while interfaces
\* come and go).
WatcherEnds ==
  \A i \in Ids : [](i \in DOMAIN started \ Range(servers) => <>Watching(i, "gone"))

\* Once a watcher waits, the end of the context closes its server's socket,
\* unless a socket fails to close, which the watcher does not try again.
\* (A server whose watcher comes to its select after the end may stay open.)
StoppedWithContext ==
  \A i \in Ids :
    [](Watching(i, "waiting") => [](done => <>(i \notin open \/ closeFaults > 0)))
=============================================================================
