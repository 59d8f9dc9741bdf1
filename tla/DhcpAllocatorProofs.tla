------------------------ MODULE DhcpAllocatorProofs ------------------------
(***************************************************************************)
(* Theorems about DhcpAllocator for every set of pods, MAC addresses,      *)
(* subnets, configurations and concurrent packet handlers.                 *)
(***************************************************************************)
EXTENDS DhcpAllocator, LibraryProofs

\* One step of the allocator keeps every map and local of its type.
LEMMA TypeStep == TypeOK /\ [Next]_vars => TypeOK'
  <1> SUFFICES ASSUME TypeOK, [Next]_vars PROVE TypeOK'
    OBVIOUS
  <1> USE DEF TypeOK
  <1>1. ASSUME NEW s \in Subnets, NEW rev \in Revs, AddOrUpdateSubnet(s, rev)
        PROVE  TypeOK'
    <2>1. [net |-> s, rev |-> rev] \in OVNSubnet BY DEF OVNSubnet
    <2>2. subnets' \in MapOf(Subnets, OVNSubnet)
      BY <1>1, <2>1, PutType DEF AddOrUpdateSubnet
    <2> QED BY <1>1, <2>2 DEF AddOrUpdateSubnet, indexes, handlers
  <1>2. ASSUME NEW s \in Subnets, DeleteSubnet(s) PROVE TypeOK'
    <2>1. subnets' \in MapOf(Subnets, OVNSubnet) BY <1>2, DropType DEF DeleteSubnet
    <2> QED BY <1>2, <2>1 DEF DeleteSubnet, indexes, handlers
  <1>3. ASSUME NEW m \in Macs, NEW p \in Pods, NEW l \in Lease, AddPodDHCPLease(m, p, l)
        PROVE  TypeOK'
    <2>0. l.net \in Subnets BY DEF Lease
    <2>1. leases' \in MapOf(Macs, Lease) BY <1>3, PutType DEF AddPodDHCPLease
    <2>2. macPodKeys' \in MapOf(Macs, SUBSET Pods) BY <1>3, AddToType DEF AddPodDHCPLease
    <2>3. podkeyMACs' \in MapOf(Pods, SUBSET Macs) BY <1>3, AddToType DEF AddPodDHCPLease
    <2>4. subnetPodKeys' \in MapOf(Subnets, SUBSET Pods)
      BY <1>3, <2>0, AddToType DEF AddPodDHCPLease
    <2>5. podkeySubnets' \in MapOf(Pods, SUBSET Subnets)
      BY <1>3, <2>0, AddToType DEF AddPodDHCPLease
    <2> QED BY <1>3, <2>1, <2>2, <2>3, <2>4, <2>5 DEF AddPodDHCPLease, handlers
  <1>4. ASSUME NEW p \in Pods, DeletePodDHCPLease(p) PROVE TypeOK'
    <2> DEFINE kept == {m \in DOMAIN leases :
                 ~(m \in podkeyMACs[p] /\ m \in DOMAIN macPodKeys /\ macPodKeys[m] = {p})}
    <2>0. kept \in SUBSET DOMAIN leases /\ leases' = Restrict(leases, kept)
      BY <1>4 DEF DeletePodDHCPLease
    <2> HIDE DEF kept
    <2>1. leases' \in MapOf(Macs, Lease) BY <2>0, RestrictType
    <2>2. macPodKeys' \in MapOf(Macs, SUBSET Pods)
      BY <1>4, TakeFromType DEF DeletePodDHCPLease
    <2>3. podkeyMACs' \in MapOf(Pods, SUBSET Macs) BY <1>4, DropType DEF DeletePodDHCPLease
    <2>4. subnetPodKeys' \in MapOf(Subnets, SUBSET Pods)
      BY <1>4, TakeFromType DEF DeletePodDHCPLease
    <2>5. podkeySubnets' \in MapOf(Pods, SUBSET Subnets)
      BY <1>4, DropType DEF DeletePodDHCPLease
    <2> QED BY <1>4, <2>1, <2>2, <2>3, <2>4, <2>5 DEF DeletePodDHCPLease, handlers
  <1>5. ASSUME NEW h \in Handlers, NEW m \in Macs, Receive(h, m) PROVE TypeOK'
    BY <1>5 DEF Receive, indexes
  <1>6. ASSUME NEW h \in Handlers, ReadLease(h) PROVE TypeOK'
    <2>1. leases[mac[h]] \in Lease BY <1>6, MapOfElim DEF ReadLease, Answerable
    <2> QED BY <1>6, <2>1 DEF ReadLease, indexes
  <1>7. ASSUME NEW h \in Handlers, NoLease(h) PROVE TypeOK'
    BY <1>7 DEF NoLease, Finish, indexes
  <1>8. ASSUME NEW h \in Handlers, Answer(h) PROVE TypeOK'
    <2>1. PICK kind \in DOMAIN Answers : sent' = ReplyOf(h, Answers[kind])
      BY <1>8 DEF Answer
    <2>2. Answers[kind] \in {"OFFER", "ACK", "ADVERTISE", "REPLY"}
      BY DEF Answers, AnswersV4, AnswersV6
    <2>3. mac[h] \in Macs /\ lease[h].ip \in IPs /\ lease[h].net \in Subnets
      BY <1>8 DEF Answer, Lease
    <2>4. subnets[lease[h].net] \in OVNSubnet BY <1>8, MapOfElim DEF Answer
    <2>5. sent' \in Reply BY <2>1, <2>2, <2>3, <2>4 DEF ReplyOf, Reply
    <2> QED BY <1>8, <2>5 DEF Answer, Finish, indexes
  <1>9. ASSUME NEW h \in Handlers, NoAnswer(h) PROVE TypeOK'
    BY <1>9 DEF NoAnswer, Finish, indexes
  <1>10. CASE UNCHANGED vars BY <1>10 DEF vars, indexes, handlers
  <1> QED BY <1>1, <1>2, <1>3, <1>4, <1>5, <1>6, <1>7, <1>8, <1>9, <1>10 DEF Next

\* Type correctness: the maps only ever hold pods, addresses and subnets of
\* the system, and a handler past its first read has a lease to work with.
THEOREM TypeInvariance == Spec => []TypeOK
  <1>1. Init => TypeOK
    BY EmptyMapType DEF Init, TypeOK
  <1> QED BY <1>1, TypeStep, PTL DEF Spec

-----------------------------------------------------------------------------
(***************************************************************************)
(* The indexes.  IndexesMirror is inductive given the types: the deletions *)
(* that follow one index are right because the other is its inverse.       *)
(***************************************************************************)

\* Which leases and which keys of the index DeletePodDHCPLease leaves.
LEMMA DeleteLeaves ==
  ASSUME NEW p \in Pods, DeletePodDHCPLease(p), IndexesMirror
  PROVE  /\ DOMAIN leases' = DOMAIN macPodKeys'
         /\ \A m \in DOMAIN leases' : leases'[m] = leases[m]
         /\ \A m : m \in DOMAIN leases' <=>
                     m \in DOMAIN leases /\ ~(m \in podkeyMACs[p] /\ macPodKeys[m] = {p})
  <1>1. \A m : m \in DOMAIN macPodKeys' <=>
                 m \in DOMAIN macPodKeys /\ ~(m \in podkeyMACs[p] /\ macPodKeys[m] = {p})
    BY TakeFromMembers DEF DeletePodDHCPLease
  <1>2. /\ \A m : m \in DOMAIN leases' <=>
                    m \in DOMAIN leases /\ ~(m \in podkeyMACs[p] /\ macPodKeys[m] = {p})
        /\ \A m \in DOMAIN leases' : leases'[m] = leases[m]
    BY DEF DeletePodDHCPLease, IndexesMirror, Restrict
  <1> QED BY <1>1, <1>2 DEF IndexesMirror

\* One step of the allocator keeps the four indexes each other's inverse.
LEMMA MirrorStep == TypeOK /\ IndexesMirror /\ [Next]_vars => IndexesMirror'
  <1> SUFFICES ASSUME TypeOK, IndexesMirror, [Next]_vars PROVE IndexesMirror'
    OBVIOUS
  <1>1. ASSUME NEW m \in Macs, NEW p \in Pods, NEW l \in Lease, AddPodDHCPLease(m, p, l)
        PROVE  IndexesMirror'
    <2>1. Mirror(macPodKeys, podkeyMACs)' BY <1>1, MirrorAddTo DEF AddPodDHCPLease, IndexesMirror
    <2>2. Mirror(subnetPodKeys, podkeySubnets)'
      BY <1>1, MirrorAddTo DEF AddPodDHCPLease, IndexesMirror
    <2>3. DOMAIN leases' = DOMAIN leases \cup {m} BY <1>1 DEF AddPodDHCPLease, Put
    <2>4. /\ DOMAIN macPodKeys' = DOMAIN macPodKeys \cup {m}
          /\ DOMAIN podkeyMACs' = DOMAIN podkeyMACs \cup {p}
          /\ DOMAIN podkeySubnets' = DOMAIN podkeySubnets \cup {p}
      BY <1>1, AddToMembers DEF AddPodDHCPLease
    <2> QED BY <2>1, <2>2, <2>3, <2>4 DEF IndexesMirror
  <1>2. ASSUME NEW p \in Pods, DeletePodDHCPLease(p) PROVE IndexesMirror'
    <2>1. Mirror(macPodKeys, podkeyMACs)'
      BY <1>2, MirrorTakeFrom DEF DeletePodDHCPLease, IndexesMirror
    <2>2. Mirror(subnetPodKeys, podkeySubnets)'
      BY <1>2, MirrorTakeFrom DEF DeletePodDHCPLease, IndexesMirror
    <2>3. DOMAIN leases' = DOMAIN macPodKeys' BY <1>2, DeleteLeaves
    <2>4. /\ DOMAIN podkeyMACs' = DOMAIN podkeyMACs \ {p}
          /\ DOMAIN podkeySubnets' = DOMAIN podkeySubnets \ {p}
      BY <1>2, DropMembers DEF DeletePodDHCPLease
    <2> QED BY <2>1, <2>2, <2>3, <2>4 DEF IndexesMirror
  <1>3. ASSUME UNCHANGED <<leases, indexes>> PROVE IndexesMirror'
    BY <1>3 DEF IndexesMirror, indexes
  <1>4. ASSUME NEW h \in Handlers,
               \/ \E m \in Macs : Receive(h, m)
               \/ ReadLease(h) \/ NoLease(h) \/ Answer(h) \/ NoAnswer(h)
        PROVE  IndexesMirror'
    BY <1>3, <1>4 DEF Receive, ReadLease, NoLease, Answer, NoAnswer
  <1>5. ASSUME NEW s \in Subnets,
               \/ \E rev \in Revs : AddOrUpdateSubnet(s, rev)
               \/ DeleteSubnet(s)
        PROVE  IndexesMirror'
    BY <1>3, <1>5 DEF AddOrUpdateSubnet, DeleteSubnet
  <1>6. CASE UNCHANGED vars BY <1>3, <1>6 DEF vars
  <1> QED BY <1>1, <1>2, <1>4, <1>5, <1>6 DEF Next

\* The indexes are mutually inverse in every reachable state, for any number
\* of pods that share MAC addresses and subnets: no lease outlives the last
\* pod that carries its MAC address, and none is lost before.
THEOREM IndexInvariance == Spec => []IndexesMirror
  <1>1. Init => IndexesMirror
    BY DEF Init, IndexesMirror, Mirror, EmptyMap
  <1> QED BY <1>1, TypeInvariance, MirrorStep, PTL DEF Spec

-----------------------------------------------------------------------------
\* With inverse indexes, the six lookups of HasPodDHCPLease come down to three.
LEMMA KnownLease ==
  ASSUME NEW m, NEW p, NEW l, IndexesMirror
  PROVE  HasPodDHCPLease(m, p, l) <=>
           /\ m \in At(podkeyMACs, p) /\ l.net \in At(podkeySubnets, p)
           /\ m \in DOMAIN leases /\ leases[m] = l
  <1>1. /\ p \in At(macPodKeys, m) <=> m \in At(podkeyMACs, p)
        /\ p \in At(subnetPodKeys, l.net) <=> l.net \in At(podkeySubnets, p)
    BY MirrorAt DEF IndexesMirror
  <1> QED BY <1>1 DEF HasPodDHCPLease

\* One step does not make a pod's known lease unknown while it stays bound.
LEMMA SurvivorStep ==
  ASSUME TypeOK, IndexesMirror, IndexesMirror', [Next]_vars,
         NEW m \in Macs, NEW p \in Pods, NEW l \in Lease,
         HasPodDHCPLease(m, p, l), p \in DOMAIN podkeyMACs',
         m \in DOMAIN leases' => leases'[m] = l
  PROVE  HasPodDHCPLease(m, p, l)'
  <1>1. /\ m \in At(podkeyMACs, p) /\ l.net \in At(podkeySubnets, p)
        /\ m \in DOMAIN leases /\ leases[m] = l
    BY KnownLease
  <1> SUFFICES /\ m \in At(podkeyMACs', p) /\ l.net \in At(podkeySubnets', p)
               /\ m \in DOMAIN leases'
    <2>1. HasPodDHCPLease(m, p, l)' <=>
            /\ m \in At(podkeyMACs', p) /\ p \in At(macPodKeys', m)
            /\ l.net \in At(podkeySubnets', p) /\ p \in At(subnetPodKeys', l.net)
            /\ m \in DOMAIN leases' /\ leases'[m] = l
      BY DEF HasPodDHCPLease, At
    <2>2. /\ p \in At(macPodKeys', m) <=> m \in At(podkeyMACs', p)
          /\ p \in At(subnetPodKeys', l.net) <=> l.net \in At(podkeySubnets', p)
      <3>1. Mirror(macPodKeys', podkeyMACs') /\ Mirror(subnetPodKeys', podkeySubnets')
        BY DEF IndexesMirror, Mirror, At
      <3> QED BY <3>1, MirrorAt
    <2> QED BY <2>1, <2>2
  <1>2. ASSUME NEW n \in Macs, NEW q \in Pods, NEW k \in Lease, AddPodDHCPLease(n, q, k)
        PROVE  /\ m \in At(podkeyMACs', p) /\ l.net \in At(podkeySubnets', p)
               /\ m \in DOMAIN leases'
    <2>1. m \in At(podkeyMACs', p) /\ l.net \in At(podkeySubnets', p)
      BY <1>1, <1>2, AddToMembers DEF AddPodDHCPLease
    <2>2. m \in DOMAIN leases' BY <1>1, <1>2 DEF AddPodDHCPLease, Put
    <2> QED BY <2>1, <2>2
  <1>3. ASSUME NEW q \in Pods, DeletePodDHCPLease(q)
        PROVE  /\ m \in At(podkeyMACs', p) /\ l.net \in At(podkeySubnets', p)
               /\ m \in DOMAIN leases'
    <2>0. DOMAIN podkeyMACs' = DOMAIN podkeyMACs \ {q} BY <1>3, DropMembers DEF DeletePodDHCPLease
    <2>1. p # q BY <2>0
    <2>2. m \in At(podkeyMACs', p) /\ l.net \in At(podkeySubnets', p)
      BY <1>1, <1>3, <2>1, DropMembers DEF DeletePodDHCPLease
    <2>3. p \in At(macPodKeys, m) BY <1>1, MirrorAt DEF IndexesMirror
    <2>4. macPodKeys[m] # {q} BY <1>1, <2>1, <2>3 DEF IndexesMirror, At
    <2>5. m \in DOMAIN leases' BY <1>1, <1>3, <2>4, DeleteLeaves
    <2> QED BY <2>2, <2>5
  <1>4. ASSUME UNCHANGED <<leases, indexes>>
        PROVE  /\ m \in At(podkeyMACs', p) /\ l.net \in At(podkeySubnets', p)
               /\ m \in DOMAIN leases'
    BY <1>1, <1>4 DEF indexes
  <1>5. ASSUME ~(\E n \in Macs, q \in Pods, k \in Lease : AddPodDHCPLease(n, q, k)),
               ~(\E q \in Pods : DeletePodDHCPLease(q))
        PROVE  UNCHANGED <<leases, indexes>>
    BY <1>5 DEF Next, vars, AddOrUpdateSubnet, DeleteSubnet, Receive, ReadLease, NoLease,
                Answer, NoAnswer
  <1> QED BY <1>2, <1>3, <1>4, <1>5

\* No step takes a known lease from a pod that remains, whichever other pods
\* share its MAC address or its subnet: deleting the source pod of a migrated
\* virtual machine leaves the target's lease in all four indexes.
THEOREM SurvivorTheorem == Spec => SurvivorKeepsLease
  <1>1. TypeOK /\ IndexesMirror /\ IndexesMirror' /\ [Next]_vars =>
          [\A m \in Macs, p \in Pods, l \in Lease :
             /\ HasPodDHCPLease(m, p, l)
             /\ p \in DOMAIN podkeyMACs'
             /\ m \in DOMAIN leases' => leases'[m] = l
             => HasPodDHCPLease(m, p, l)']_vars
    BY SurvivorStep
  <1> QED BY <1>1, TypeInvariance, IndexInvariance, PTL DEF Spec, SurvivorKeepsLease

-----------------------------------------------------------------------------
(***************************************************************************)
(* Replies.  The configuration stored under a subnet's name is that        *)
(* subnet's; the handler looks it up by the lease it has in hand.          *)
(***************************************************************************)
ConfOwn == \A s \in DOMAIN subnets : subnets[s].net = s

\* ConfOwn is what makes ReplyCoherent inductive: a configuration is only ever
\* stored under the subnet it was built for (AddOrUpdateSubnet).
LEMMA CoherentStep == TypeOK /\ ConfOwn /\ ReplyCoherent /\ [Next]_vars => (ConfOwn /\ ReplyCoherent)'
  <1> SUFFICES ASSUME TypeOK, ConfOwn, ReplyCoherent, [Next]_vars
               PROVE  (ConfOwn /\ ReplyCoherent)'
    OBVIOUS
  <1>1. ASSUME NEW s \in Subnets, NEW rev \in Revs, AddOrUpdateSubnet(s, rev)
        PROVE  (ConfOwn /\ ReplyCoherent)'
    <2>1. ConfOwn' BY <1>1 DEF AddOrUpdateSubnet, Put, ConfOwn
    <2> QED BY <1>1, <2>1 DEF AddOrUpdateSubnet, handlers, ReplyCoherent
  <1>2. ASSUME NEW s \in Subnets, DeleteSubnet(s) PROVE (ConfOwn /\ ReplyCoherent)'
    <2>1. ConfOwn' BY <1>2 DEF DeleteSubnet, Drop, Restrict, ConfOwn
    <2> QED BY <1>2, <2>1 DEF DeleteSubnet, handlers, ReplyCoherent
  <1>3. ASSUME NEW h \in Handlers, Answer(h) PROVE (ConfOwn /\ ReplyCoherent)'
    <2>1. PICK kind \in DOMAIN Answers : sent' = ReplyOf(h, Answers[kind])
      BY <1>3 DEF Answer
    <2>2. sent'.conf.net = sent'.net BY <1>3, <2>1 DEF Answer, ReplyOf, ConfOwn
    <2> QED BY <1>3, <2>2 DEF Answer, ConfOwn, ReplyCoherent
  <1>4. ASSUME UNCHANGED <<subnets, sent>> PROVE (ConfOwn /\ ReplyCoherent)'
    BY <1>4 DEF ConfOwn, ReplyCoherent
  <1>5. ASSUME ~(\E s \in Subnets, rev \in Revs : AddOrUpdateSubnet(s, rev)),
               ~(\E s \in Subnets : DeleteSubnet(s)),
               ~(\E h \in Handlers : Answer(h))
        PROVE  UNCHANGED <<subnets, sent>>
    BY <1>5 DEF Next, vars, handlers, AddPodDHCPLease, DeletePodDHCPLease, Receive,
                ReadLease, NoLease, NoAnswer
  <1> QED BY <1>1, <1>2, <1>3, <1>4, <1>5

\* No interleaving of packet handlers with rebinding pods and reconfigured or
\* deleted subnets makes a reply mix the address of one subnet with the
\* server, mask and routers of another.
THEOREM CoherentReplies == Spec => []ReplyCoherent
  <1>1. Init => ConfOwn /\ ReplyCoherent
    BY DEF Init, ConfOwn, ReplyCoherent, EmptyMap
  <1> QED BY <1>1, TypeInvariance, CoherentStep, PTL DEF Spec

-----------------------------------------------------------------------------
\* One step keeps every pod behind a lease in the index of the lease's subnet.
LEMMA NotifyStep ==
  TypeOK /\ IndexesMirror /\ NotifyReachesHolders /\ [Next]_vars => NotifyReachesHolders'
  <1> SUFFICES ASSUME TypeOK, IndexesMirror, NotifyReachesHolders, [Next]_vars, Agree,
                      NEW n \in DOMAIN leases', NEW q \in macPodKeys'[n]
               PROVE  q \in At(subnetPodKeys', leases'[n].net)
    BY DEF NotifyReachesHolders, GetPodKeys, At
  <1>1. \A k \in DOMAIN leases : \A r \in macPodKeys[k] : r \in At(subnetPodKeys, leases[k].net)
    BY DEF NotifyReachesHolders, GetPodKeys
  <1>2. ASSUME NEW m \in Macs, NEW p \in Pods, NEW l \in Lease, AddPodDHCPLease(m, p, l)
        PROVE  q \in At(subnetPodKeys', leases'[n].net)
    <2>1. \A s, r : r \in At(subnetPodKeys', s) <=>
                      r \in At(subnetPodKeys, s) \/ (s = l.net /\ r = p)
      BY <1>2, AddToMembers DEF AddPodDHCPLease
    <2>2. /\ n \in DOMAIN leases \cup {m}
          /\ leases'[n] = IF n = m THEN l ELSE leases[n]
      BY <1>2 DEF AddPodDHCPLease, Put
    <2>3. macPodKeys'[n] = IF n = m THEN At(macPodKeys, m) \cup {p} ELSE macPodKeys[n]
      BY <1>2, <2>2 DEF AddPodDHCPLease, AddTo, Put, IndexesMirror
    <2>4. CASE n # m BY <1>1, <2>1, <2>2, <2>3, <2>4
    <2>5. CASE n = m /\ q = p BY <2>1, <2>2, <2>5
    <2>6. CASE n = m /\ q # p
      <3>1. q \in At(macPodKeys, m) \ {p} BY <2>3, <2>6
      <3>2. leases[m] = l BY <1>2, <3>1 DEF AddPodDHCPLease
      <3>3. m \in DOMAIN leases /\ q \in macPodKeys[m] BY <3>1 DEF At, IndexesMirror
      <3> QED BY <1>1, <2>1, <2>2, <2>6, <3>2, <3>3
    <2> QED BY <2>4, <2>5, <2>6
  <1>3. ASSUME NEW p \in Pods, DeletePodDHCPLease(p)
        PROVE  q \in At(subnetPodKeys', leases'[n].net)
    <2>1. n \in DOMAIN leases /\ leases'[n] = leases[n] /\ n \in DOMAIN macPodKeys'
      BY <1>3, DeleteLeaves
    <2>2. q \in At(macPodKeys', n) BY <2>1 DEF At
    <2>3. q \in At(macPodKeys, n) /\ ~(n \in podkeyMACs[p] /\ q = p)
      BY <1>3, <2>2, TakeFromMembers DEF DeletePodDHCPLease
    <2>4. q # p
      <3>1. n \in At(podkeyMACs, q) BY <2>3, MirrorAt DEF IndexesMirror
      <3> QED BY <2>3, <3>1 DEF At
    <2>5. q \in macPodKeys[n] BY <2>3 DEF At
    <2>6. q \in At(subnetPodKeys, leases[n].net) BY <1>1, <2>1, <2>5
    <2> QED BY <1>3, <2>1, <2>4, <2>6, TakeFromMembers DEF DeletePodDHCPLease
  <1>4. ASSUME UNCHANGED <<leases, indexes>>
        PROVE  q \in At(subnetPodKeys', leases'[n].net)
    BY <1>1, <1>4 DEF indexes
  <1>5. ASSUME ~(\E m \in Macs, p \in Pods, l \in Lease : AddPodDHCPLease(m, p, l)),
               ~(\E p \in Pods : DeletePodDHCPLease(p))
        PROVE  UNCHANGED <<leases, indexes>>
    BY <1>5 DEF Next, vars, AddOrUpdateSubnet, DeleteSubnet, Receive, ReadLease, NoLease,
                Answer, NoAnswer
  <1> QED BY <1>2, <1>3, <1>4, <1>5

\* If pods that share a MAC address report one lease for it, GetPodKeys of a
\* subnet contains every pod behind a lease on that subnet, always.
THEOREM NotifyTheorem == Spec => []NotifyReachesHolders
  <1>1. Init => NotifyReachesHolders
    BY DEF Init, NotifyReachesHolders, EmptyMap
  <1> QED BY <1>1, TypeInvariance, IndexInvariance, NotifyStep, PTL DEF Spec

-----------------------------------------------------------------------------
(***************************************************************************)
(* The store implements LeaseTable: every operation on leases is the step  *)
(* of that name, every other step leaves the table alone.                  *)
(***************************************************************************)
Carries == {pm \in Pods \X Macs : pm[2] \in At(podkeyMACs, pm[1])}
Joins == {ps \in Pods \X Subnets : ps[2] \in At(podkeySubnets, ps[1])}

\* AddPodDHCPLease is a Bind of the lease table.
LEMMA AddRefines ==
  ASSUME NEW m \in Macs, NEW p \in Pods, NEW l \in Lease, AddPodDHCPLease(m, p, l)
  PROVE  Table!Bind(p, m, l)
  <1>1. l.net \in Subnets BY DEF Lease
  <1>2. Carries' = Carries \cup {<<p, m>>}
    <2>1. \A q, n : n \in At(podkeyMACs', q) <=> n \in At(podkeyMACs, q) \/ (q = p /\ n = m)
      BY AddToMembers DEF AddPodDHCPLease
    <2> QED BY <2>1 DEF Carries
  <1>3. Joins' = Joins \cup {<<p, l.net>>}
    <2>1. \A q, s : s \in At(podkeySubnets', q) <=>
                      s \in At(podkeySubnets, q) \/ (q = p /\ s = l.net)
      BY AddToMembers DEF AddPodDHCPLease
    <2> QED BY <1>1, <2>1 DEF Joins
  <1> QED BY <1>2, <1>3 DEF Table!Bind, Table!Put, Put, Carries, Joins, AddPodDHCPLease

\* DeletePodDHCPLease is a Release of the lease table.
LEMMA DeleteRefines ==
  ASSUME TypeOK, IndexesMirror, NEW p \in Pods, DeletePodDHCPLease(p)
  PROVE  Table!Release(p)
  <1>1. Carries' = {c \in Carries : c[1] # p}
    <2>1. \A q, n : n \in At(podkeyMACs', q) <=> n \in At(podkeyMACs, q) /\ q # p
      BY DropMembers DEF DeletePodDHCPLease
    <2> QED BY <2>1 DEF Carries
  <1>2. Joins' = {j \in Joins : j[1] # p}
    <2>1. \A q, s : s \in At(podkeySubnets', q) <=> s \in At(podkeySubnets, q) /\ q # p
      BY DropMembers DEF DeletePodDHCPLease
    <2> QED BY <2>1 DEF Joins
  <1>3. ASSUME NEW m \in DOMAIN leases
        PROVE  ~(m \in podkeyMACs[p] /\ m \in DOMAIN macPodKeys /\ macPodKeys[m] = {p})
                 <=> \E q \in Pods : <<q, m>> \in Carries'
    <2>1. m \in Macs /\ m \in DOMAIN macPodKeys /\ macPodKeys[m] \in SUBSET Pods
      BY MapOfElim DEF TypeOK, IndexesMirror
    <2>2. \A q \in Pods : <<q, m>> \in Carries' <=> m \in At(podkeyMACs, q) /\ q # p
      BY <1>1, <2>1 DEF Carries
    <2>3. \A q : m \in At(podkeyMACs, q) <=> q \in macPodKeys[m]
      BY <2>1, MirrorAt DEF IndexesMirror, At
    <2>4. macPodKeys[m] # {} BY <2>1 DEF IndexesMirror, Mirror
    <2>5. m \in podkeyMACs[p] <=> p \in macPodKeys[m]
      BY <2>3 DEF DeletePodDHCPLease, At
    <2> QED BY <2>1, <2>2, <2>3, <2>4, <2>5
  <1>4. leases' = Restrict(leases, {m \in DOMAIN leases : \E q \in Pods : <<q, m>> \in Carries'})
    BY <1>3 DEF DeletePodDHCPLease
  <1> QED BY <1>1, <1>2, <1>4 DEF Table!Release, Table!Restrict, Restrict, Carries, Joins

\* The four indexes are an implementation of "a MAC address has a lease while
\* somebody carries it": every behaviour of the store is one of LeaseTable.
THEOREM TableRefinement == Spec => ImplementsTable
  <1>1. Init => Table!TableInit
    BY DEF Init, Table!TableInit, EmptyMap, Table!EmptyMap, At
  <1>2. TypeOK /\ IndexesMirror /\ [Next]_vars => [Table!TableNext]_(Table!tvars)
    <2> SUFFICES ASSUME TypeOK, IndexesMirror, [Next]_vars
                 PROVE  [Table!TableNext]_(Table!tvars)
      OBVIOUS
    <2>1. ASSUME NEW m \in Macs, NEW p \in Pods, NEW l \in Lease, AddPodDHCPLease(m, p, l)
          PROVE  Table!TableNext
      BY <2>1, AddRefines DEF Table!TableNext
    <2>2. ASSUME NEW p \in Pods, DeletePodDHCPLease(p) PROVE Table!TableNext
      BY <2>2, DeleteRefines DEF Table!TableNext
    <2>3. ASSUME ~(\E m \in Macs, p \in Pods, l \in Lease : AddPodDHCPLease(m, p, l)),
                 ~(\E p \in Pods : DeletePodDHCPLease(p))
          PROVE  UNCHANGED <<leases, indexes>>
      BY <2>3 DEF Next, vars, AddOrUpdateSubnet, DeleteSubnet, Receive, ReadLease, NoLease,
                  Answer, NoAnswer
    <2>4. ASSUME UNCHANGED <<leases, indexes>> PROVE UNCHANGED Table!tvars
      BY <2>4 DEF indexes, Table!tvars, At
    <2> QED BY <2>1, <2>2, <2>3, <2>4
  <1> QED BY <1>1, <1>2, TypeInvariance, IndexInvariance, PTL
          DEF Spec, ImplementsTable, Table!TableSpec
=============================================================================
