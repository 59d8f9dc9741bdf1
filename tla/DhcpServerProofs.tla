-------------------------- MODULE DhcpServerProofs --------------------------
(***************************************************************************)
(* Safety of the servers of an allocator for every set of interfaces and   *)
(* servers and every number of sockets that fail to close.                 *)
(***************************************************************************)
EXTENDS DhcpServer, LibraryProofs

Where == {"created", "waiting", "stopping", "gone"}

\* A server is taken from its interface and its watcher changes (DelAndStop by
\* a worker or a watcher): the types hold.
LEMMA StopType ==
  ASSUME TypeOK, NEW nic \in DOMAIN servers,
         servers' = Drop(servers, nic), open' = open \ {servers[nic]},
         cancelled' = cancelled \cup {servers[nic]},
         UNCHANGED <<done, started>>, closeFaults' \in Nat,
         watch' \in [DOMAIN watch -> Where]
  PROVE  TypeOK'
  <1>1. servers' \in MapOf(Nics, Ids) BY DropType DEF TypeOK
  <1>2. watch' \in MapOf(Ids, Where) /\ DOMAIN watch' = DOMAIN started'
    <2>1. DOMAIN watch \subseteq Ids BY MapOfElim DEF TypeOK
    <2> QED BY <2>1, MapOfIntro DEF TypeOK
  <1>3. \A n \in DOMAIN servers' : servers'[n] = servers[n] /\ n \in DOMAIN servers
    BY DEF Drop, Restrict
  <1> QED BY <1>1, <1>2, <1>3 DEF TypeOK, Where

\* One step keeps the types.
LEMMA ServerTypeStep == TypeOK /\ [Next]_vars => TypeOK'
  <1> SUFFICES ASSUME TypeOK, [Next]_vars PROVE TypeOK'
    OBVIOUS
  <1>0. /\ watch \in [DOMAIN watch -> Where]
        /\ DOMAIN watch \subseteq Ids /\ DOMAIN started \subseteq Ids
    BY MapOfElim DEF TypeOK, MapOf, Where
  <1>1. ASSUME NEW nic \in Nics, NEW i \in Ids, AddAndRun(nic, i) PROVE TypeOK'
    <2>1. servers' \in MapOf(Nics, Ids) BY <1>1, PutType DEF AddAndRun, TypeOK
    <2>2. started' \in MapOf(Ids, Nics) BY <1>1, PutType DEF AddAndRun, TypeOK
    <2>3. watch' \in MapOf(Ids, Where) BY <1>1, PutType DEF AddAndRun, TypeOK, Where
    <2>4. /\ DOMAIN watch' = DOMAIN started' /\ DOMAIN started' = DOMAIN started \cup {i}
          /\ open' \subseteq DOMAIN started' /\ cancelled' \subseteq DOMAIN started'
      BY <1>1 DEF Put, AddAndRun, TypeOK
    <2>5. ASSUME NEW n \in DOMAIN servers'
          PROVE  servers'[n] \in DOMAIN started' /\ started'[servers'[n]] = n
      <3>1. CASE n = nic BY <1>1, <3>1 DEF Put, AddAndRun
      <3>2. CASE n # nic
        <4>1. n \in DOMAIN servers /\ servers'[n] = servers[n]
          BY <1>1, <3>2 DEF Put, AddAndRun
        <4>2. servers[n] \in DOMAIN started /\ started[servers[n]] = n
          BY <4>1 DEF TypeOK
        <4> QED BY <1>1, <4>1, <4>2 DEF Put, AddAndRun
      <3> QED BY <3>1, <3>2
    <2> QED BY <1>1, <2>1, <2>2, <2>3, <2>4, <2>5 DEF AddAndRun, TypeOK, Where
  <1>2. ASSUME NEW nic \in Nics, DelAndStop(nic) PROVE TypeOK'
    <2>1. watch' \in [DOMAIN watch -> Where] BY <1>0, <1>2 DEF DelAndStop, Woken, Where
    <2> QED BY <1>2, <2>1, StopType DEF DelAndStop, TypeOK
  <1>3. ASSUME NEW nic \in Nics, StopFails(nic) PROVE TypeOK'
    BY <1>3 DEF StopFails, TypeOK
  <1>4. ASSUME NEW i \in Ids, ServeEnds(i) PROVE TypeOK'
    BY <1>4 DEF ServeEnds, TypeOK
  <1>5. ASSUME NEW i \in Ids, Selects(i) PROVE TypeOK'
    <2>1. watch' \in [DOMAIN watch -> Where] BY <1>0, <1>5 DEF Selects, Where
    <2>2. watch' \in MapOf(Ids, Where) BY <1>0, <2>1, MapOfIntro
    <2> QED BY <1>5, <2>1, <2>2 DEF Selects, TypeOK, Where
  <1>6. ASSUME NEW i \in Ids, WatcherStops(i) PROVE TypeOK'
    <2>1. watch' \in [DOMAIN watch -> Where] BY <1>0, <1>6 DEF WatcherStops, Where
    <2>2. watch' \in MapOf(Ids, Where) BY <1>0, <2>1, MapOfIntro
    <2>3. CASE started[i] \in DOMAIN servers
      BY <1>6, <2>1, <2>3, StopType DEF WatcherStops, TypeOK
    <2>4. CASE started[i] \notin DOMAIN servers
      BY <1>6, <2>1, <2>2, <2>4 DEF WatcherStops, TypeOK, Where
    <2> QED BY <2>3, <2>4
  <1>7. ASSUME NEW i \in Ids, WatcherFails(i) PROVE TypeOK'
    <2>1. watch' \in [DOMAIN watch -> Where] BY <1>0, <1>7 DEF WatcherFails, Where
    <2>2. watch' \in MapOf(Ids, Where) BY <1>0, <2>1, MapOfIntro
    <2> QED BY <1>7, <2>1, <2>2 DEF WatcherFails, TypeOK, Where
  <1>8. CASE ContextEnds
    <2>1. watch' \in [DOMAIN watch -> Where] BY <1>0, <1>8 DEF ContextEnds, Where
    <2>2. watch' \in MapOf(Ids, Where) BY <1>0, <2>1, MapOfIntro
    <2> QED BY <1>8, <2>1, <2>2 DEF ContextEnds, TypeOK, Where
  <1>9. CASE UNCHANGED vars
    BY <1>9 DEF vars, TypeOK
  <1> QED BY <1>1, <1>2, <1>3, <1>4, <1>5, <1>6, <1>7, <1>8, <1>9 DEF Next, Watcher

\* Type correctness: a registered server was started on the interface it is
\* registered for, and every server ever started has a watcher somewhere.
THEOREM ServerTypes == Spec => []TypeOK
  <1>1. Init => TypeOK
    <2>1. /\ EmptyMap \in MapOf(Nics, Ids) /\ EmptyMap \in MapOf(Ids, Nics)
          /\ EmptyMap \in MapOf(Ids, {"created", "waiting", "stopping", "gone"})
      BY EmptyMapType
    <2>2. DOMAIN EmptyMap = {} BY DEF EmptyMap
    <2> SUFFICES ASSUME Init PROVE TypeOK
      OBVIOUS
    <2>3. servers = EmptyMap /\ started = EmptyMap /\ watch = EmptyMap BY DEF Init
    <2>4. done \in BOOLEAN /\ closeFaults \in Nat /\ open = {} /\ cancelled = {} BY DEF Init
    <2> QED BY <2>1, <2>2, <2>3, <2>4 DEF TypeOK
  <1> QED BY <1>1, ServerTypeStep, PTL DEF Spec

-----------------------------------------------------------------------------
\* One step leaves no open socket without its entry in servers.
LEMMA SocketStep == TypeOK /\ NoStraySocket /\ [Next]_vars => NoStraySocket'
  <1> SUFFICES ASSUME TypeOK, NoStraySocket, [Next]_vars,
                      NEW j \in open'
               PROVE  started'[j] \in DOMAIN servers' /\ servers'[started'[j]] = j
    BY DEF NoStraySocket
  \* An interface keeps its server while it keeps its entry.
  <1>1. ASSUME NEW nic \in Nics, NEW i \in Ids, AddAndRun(nic, i)
        PROVE  started'[j] \in DOMAIN servers' /\ servers'[started'[j]] = j
    <2>1. CASE j = i BY <1>1, <2>1 DEF Put, AddAndRun
    <2>2. CASE j # i
      <3>1. j \in open /\ j \in DOMAIN started BY <1>1, <2>2 DEF AddAndRun, TypeOK
      <3>2. started'[j] = started[j] BY <1>1, <2>2, <3>1 DEF Put, AddAndRun
      <3>3. started[j] \in DOMAIN servers /\ servers[started[j]] = j
        BY <3>1 DEF NoStraySocket
      <3> QED BY <1>1, <3>2, <3>3 DEF Put, AddAndRun
    <2> QED BY <2>1, <2>2
  <1>2. ASSUME NEW nic, nic \in DOMAIN servers, open' = open \ {servers[nic]},
               servers' = Drop(servers, nic), UNCHANGED started
        PROVE  started'[j] \in DOMAIN servers' /\ servers'[started'[j]] = j
    <2>1. /\ j \in open /\ j # servers[nic]
          /\ started[j] \in DOMAIN servers /\ servers[started[j]] = j
      BY <1>2 DEF NoStraySocket
    <2> QED BY <1>2, <2>1 DEF Drop, Restrict
  <1>3. ASSUME open' \subseteq open, UNCHANGED <<servers, started>>
        PROVE  started'[j] \in DOMAIN servers' /\ servers'[started'[j]] = j
    BY <1>3 DEF NoStraySocket
  <1>4. CASE \E nic \in Nics, i \in Ids : AddAndRun(nic, i) BY <1>1, <1>4
  <1>5. CASE \E nic \in Nics : DelAndStop(nic) BY <1>2, <1>5 DEF DelAndStop
  <1>6. CASE \E i \in Ids : WatcherStops(i) BY <1>2, <1>3, <1>6 DEF WatcherStops
  <1>7. CASE \/ \E nic \in Nics : StopFails(nic)
             \/ \E i \in Ids : ServeEnds(i) \/ Selects(i) \/ WatcherFails(i)
             \/ ContextEnds \/ UNCHANGED vars
    BY <1>3, <1>7 DEF StopFails, ServeEnds, Selects, WatcherFails, ContextEnds, vars
  <1> QED BY <1>4, <1>5, <1>6, <1>7 DEF Next, Watcher

\* Every open socket is the registered server of its interface, so there is at
\* most one per interface and DelAndStop reaches it, through failed stops,
\* servers that die and watchers that come late.
THEOREM SocketTheorem == Spec => []NoStraySocket
  <1>1. Init => NoStraySocket
    BY DEF Init, NoStraySocket
  <1> QED BY <1>1, ServerTypes, SocketStep, PTL DEF Spec

-----------------------------------------------------------------------------
(***************************************************************************)
(* WatcherGuards needs to know that no watcher was told to stop, and none  *)
(* gave up its server, before the context ended.                           *)
(***************************************************************************)
NoneStopping == ~done => \A i \in DOMAIN watch : watch[i] # "stopping"

\* One step leaves no server without a watcher while the context lasts.
LEMMA GuardStep ==
  TypeOK /\ NoneStopping /\ WatcherGuards /\ [Next]_vars => (NoneStopping /\ WatcherGuards)'
  <1> SUFFICES ASSUME TypeOK, NoneStopping, WatcherGuards, [Next]_vars, ~done'
               PROVE  /\ \A i \in DOMAIN watch' : watch'[i] # "stopping"
                      /\ \A n \in DOMAIN servers' :
                           /\ servers'[n] \notin cancelled'
                           /\ watch'[servers'[n]] \in {"created", "waiting"}
    BY DEF NoneStopping, WatcherGuards
  <1>0. /\ ~done /\ ~ContextEnds
        /\ \A i \in DOMAIN watch : watch[i] # "stopping"
        /\ \A n \in DOMAIN servers : /\ servers[n] \notin cancelled /\ servers[n] \in DOMAIN watch
                                     /\ watch[servers[n]] \in {"created", "waiting"}
                                     /\ started[servers[n]] = n
    <2>1. ~done
      BY DEF Next, vars, AddAndRun, DelAndStop, StopFails, ServeEnds, Watcher, Selects,
             WatcherStops, WatcherFails, ContextEnds
    <2> QED BY <2>1 DEF ContextEnds, NoneStopping, WatcherGuards, TypeOK
  <1> DEFINE Goal == /\ \A i \in DOMAIN watch' : watch'[i] # "stopping"
                     /\ \A n \in DOMAIN servers' :
                          /\ servers'[n] \notin cancelled'
                          /\ watch'[servers'[n]] \in {"created", "waiting"}
  <1>1. ASSUME NEW nic \in Nics, NEW i \in Ids, AddAndRun(nic, i) PROVE Goal
    <2>1. \A w \in DOMAIN watch' : watch'[w] # "stopping"
      BY <1>0, <1>1 DEF Put, AddAndRun
    <2>2. ASSUME NEW n \in DOMAIN servers'
          PROVE  servers'[n] \notin cancelled' /\ watch'[servers'[n]] \in {"created", "waiting"}
      <3>1. CASE n = nic
        <4>1. i \notin cancelled BY <1>1 DEF AddAndRun, TypeOK
        <4> QED BY <1>1, <3>1, <4>1 DEF Put, AddAndRun
      <3>2. CASE n # nic
        <4>1. n \in DOMAIN servers /\ servers'[n] = servers[n]
          BY <1>1, <3>2 DEF Put, AddAndRun
        <4>2. servers[n] # i BY <1>0, <1>1, <4>1 DEF AddAndRun, TypeOK
        <4> QED BY <1>0, <1>1, <4>1, <4>2 DEF Put, AddAndRun
      <3> QED BY <3>1, <3>2
    <2> QED BY <2>1, <2>2
  <1>2. ASSUME NEW nic \in Nics, DelAndStop(nic) PROVE Goal
    <2>1. \A w \in DOMAIN watch' : watch'[w] # "stopping"
      BY <1>0, <1>2 DEF DelAndStop, Woken
    <2>2. ASSUME NEW n \in DOMAIN servers'
          PROVE  servers'[n] \notin cancelled' /\ watch'[servers'[n]] \in {"created", "waiting"}
      <3>1. n \in DOMAIN servers /\ n # nic /\ servers'[n] = servers[n]
        BY <1>2 DEF Drop, Restrict, DelAndStop
      <3>2. servers[n] # servers[nic] BY <1>0, <1>2, <3>1 DEF DelAndStop
      <3> QED BY <1>0, <1>2, <3>1, <3>2 DEF DelAndStop, Woken
    <2> QED BY <2>1, <2>2
  <1>3. ASSUME NEW i \in Ids, Selects(i) PROVE Goal
    BY <1>0, <1>3 DEF Selects
  <1>4. ASSUME NEW i \in Ids PROVE ~WatcherStops(i) /\ ~WatcherFails(i)
    BY <1>0 DEF WatcherStops, WatcherFails
  <1>5. ASSUME UNCHANGED <<servers, cancelled, watch>> PROVE Goal
    BY <1>0, <1>5
  <1>6. CASE \/ \E nic \in Nics : StopFails(nic)
             \/ \E i \in Ids : ServeEnds(i)
             \/ UNCHANGED vars
    BY <1>5, <1>6 DEF StopFails, ServeEnds, vars
  <1>7. CASE \E nic \in Nics, i \in Ids : AddAndRun(nic, i) BY <1>1, <1>7
  <1>8. CASE \E nic \in Nics : DelAndStop(nic) BY <1>2, <1>8
  <1>9. CASE \E i \in Ids : Watcher(i) BY <1>3, <1>4, <1>9 DEF Watcher
  <1> QED BY <1>0, <1>6, <1>7, <1>8, <1>9 DEF Next

\* While the services' context lasts, whatever fails to close or dies, each
\* registered server still has the watcher that stops it when the context ends.
THEOREM GuardTheorem == Spec => []WatcherGuards
  <1>1. Init => NoneStopping /\ WatcherGuards
    BY DEF Init, NoneStopping, WatcherGuards, EmptyMap
  <1>2. Spec => [](NoneStopping /\ WatcherGuards)
    BY <1>1, ServerTypes, GuardStep, PTL DEF Spec
  <1> QED BY <1>2, PTL
=============================================================================
