------------------------ MODULE LeaderElectionProofs ------------------------
(***************************************************************************)
(* Theorems about LeaderElection for every set of replicas and every       *)
(* number of faults, terminations and crashes.                             *)
(***************************************************************************)
EXTENDS LeaderElection, FiniteSetTheorems, TLAPS

\* What the argument needs of the types; how many calls fail does not matter.
Typed ==
  /\ phase \in [Replicas -> {"down", "candidate", "leading", "stopping", "stopped"}]
  /\ label \in [Replicas -> BOOLEAN] /\ missed \in [Replicas -> BOOLEAN]
  /\ since \in [Replicas -> Nat]
  /\ lease \in [holder : Replicas \cup {None, Gone}, age : 0 .. LeaseDuration]

LEMMA LabelType ==
  ASSUME Typed, NEW r \in Replicas, NEW active \in BOOLEAN, SetLabel(r, active)
  PROVE  label' \in [Replicas -> BOOLEAN] /\ missed' \in [Replicas -> BOOLEAN]
  BY DEF SetLabel, Typed

LEMMA ReleaseType ==
  ASSUME Typed, NEW r \in Replicas, Release(r)
  PROVE  Typed'
  <1>1. lease' \in [holder : Replicas \cup {None, Gone}, age : 0 .. LeaseDuration]
    BY DEF Release, Typed, LeaseDuration
  <1> QED BY <1>1 DEF Release, Typed

LEMMA TypedStep == Typed /\ [LeaderNext]_vars => Typed'
  <1> SUFFICES ASSUME Typed, [LeaderNext]_vars PROVE Typed'
    OBVIOUS
  <1>1. CASE Tick
    <2>1. PICK failing \in SUBSET Leaders :
            LET renewed == {r \in Leaders \ failing : lease.holder = r} IN
            /\ since' = [r \in Replicas |-> IF r \in Leaders \ renewed THEN since[r] + 1 ELSE 0]
            /\ lease' = [lease EXCEPT !.age = IF lease.holder \in renewed THEN 0
                                              ELSE IF @ < LeaseDuration THEN @ + 1 ELSE @]
      BY <1>1 DEF Tick
    <2>2. since' \in [Replicas -> Nat] BY <2>1 DEF Typed
    <2>3. lease' \in [holder : Replicas \cup {None, Gone}, age : 0 .. LeaseDuration]
      BY <2>1 DEF Typed, LeaseDuration
    <2> QED BY <1>1, <2>2, <2>3 DEF Tick, Typed
  <1>2. ASSUME NEW r \in Replicas, Init(r) PROVE Typed'
    BY <1>2, LabelType DEF Init, Typed
  <1>3. ASSUME NEW r \in Replicas, Acquire(r) PROVE Typed'
    BY <1>3 DEF Acquire, Typed, LeaseDuration
  <1>4. ASSUME NEW r \in Replicas, GiveUp(r) PROVE Typed'
    BY <1>4, ReleaseType DEF GiveUp
  <1>5. ASSUME NEW r \in Replicas, Terminate(r) PROVE Typed'
    <2>1. CASE Release(r) BY <2>1, ReleaseType
    <2>2. CASE ~Release(r) BY <1>5, <2>2 DEF Terminate, Typed
    <2> QED BY <2>1, <2>2
  <1>6. ASSUME NEW r \in Replicas, OnStoppedLeading(r) PROVE Typed'
    BY <1>6, LabelType DEF OnStoppedLeading, Typed
  <1>7. ASSUME NEW r \in Replicas, Exit(r) \/ Crash(r) PROVE Typed'
    BY <1>7 DEF Exit, Crash, End, Typed
  <1>8. ASSUME NEW r \in Replicas, AddLeaderPodLabel(r) PROVE Typed'
    BY <1>8, LabelType DEF AddLeaderPodLabel, Typed
  <1>9. ASSUME NEW r \in Replicas, RunControllers(r) \/ Cancel(r) PROVE Typed'
    BY <1>9 DEF RunControllers, Cancel, Typed
  <1>10. CASE UNCHANGED vars BY <1>10 DEF vars, Typed
  <1> QED BY <1>1, <1>2, <1>3, <1>4, <1>5, <1>6, <1>7, <1>8, <1>9, <1>10
          DEF LeaderNext, Elector, OnStartedLeading

-----------------------------------------------------------------------------
\* A leader holds the lease, which is as old as its last renewal, and it gives up
\* before the lease is old enough for anybody else.
LeaderHoldsLease ==
  \A r \in Leaders : lease.holder = r /\ lease.age = since[r] /\ since[r] <= GiveUpAfter

LEMMA HoldStep == Typed /\ LeaderHoldsLease /\ [LeaderNext]_vars => LeaderHoldsLease'
  <1> SUFFICES ASSUME Typed, LeaderHoldsLease, [LeaderNext]_vars, NEW q \in Leaders'
               PROVE  lease'.holder = q /\ lease'.age = since'[q] /\ since'[q] <= GiveUpAfter
    BY DEF LeaderHoldsLease
  <1> USE DEF Leaders
  <1>0. q \in Replicas /\ phase'[q] = "leading"
    OBVIOUS
  <1>h. q \in Leaders => lease.holder = q /\ lease.age = since[q] /\ since[q] <= GiveUpAfter
    BY DEF LeaderHoldsLease
  <1>1. CASE Tick
    <2>1. PICK failing \in SUBSET Leaders :
            LET renewed == {r \in Leaders \ failing : lease.holder = r} IN
            /\ since' = [r \in Replicas |-> IF r \in Leaders \ renewed THEN since[r] + 1 ELSE 0]
            /\ lease' = [lease EXCEPT !.age = IF lease.holder \in renewed THEN 0
                                              ELSE IF @ < LeaseDuration THEN @ + 1 ELSE @]
      BY <1>1 DEF Tick
    <2>2. q \in Leaders /\ since[q] < GiveUpAfter BY <1>1, <1>0 DEF Tick
    <2>3. since[q] \in Nat /\ lease.age < LeaseDuration
      BY <2>2, <1>h DEF Typed, GiveUpAfter, RetryPeriod, RenewDeadline, LeaseDuration
    <2>4. CASE q \in failing
      BY <2>1, <2>2, <2>3, <2>4, <1>h DEF Typed, GiveUpAfter, RetryPeriod, RenewDeadline
    <2>5. CASE q \notin failing
      BY <2>1, <2>2, <2>3, <2>5, <1>h DEF Typed, GiveUpAfter, RetryPeriod, RenewDeadline
    <2> QED BY <2>4, <2>5
  <1>2. ASSUME NEW r \in Replicas, Init(r) PROVE q \in Leaders /\ UNCHANGED <<since, lease>>
    BY <1>2, <1>0 DEF Init, Typed
  <1>3. ASSUME NEW r \in Replicas, Acquire(r)
        PROVE  lease'.holder = q /\ lease'.age = since'[q] /\ since'[q] <= GiveUpAfter
    <2>1. CASE q = r
      BY <1>3, <2>1 DEF Acquire, Typed, GiveUpAfter, RetryPeriod, RenewDeadline
    <2>2. CASE q # r
      <3>1. q \in Leaders BY <1>3, <2>2, <1>0 DEF Acquire, Typed
      <3>2. lease.holder = q /\ lease.age <= GiveUpAfter BY <3>1, <1>h
      <3> QED BY <1>3, <1>0, <3>2, IdentityAssumption
              DEF Acquire, GiveUpAfter, RetryPeriod, RenewDeadline, LeaseDuration
    <2> QED BY <2>1, <2>2
  <1>4. ASSUME NEW r \in Replicas, Release(r)
        PROVE  lease'.holder = q /\ lease'.age = since'[q] /\ since'[q] <= GiveUpAfter
    <2>1. q # r /\ q \in Leaders BY <1>4, <1>0 DEF Release, Typed
    <2>2. lease.holder = q /\ since'[q] = since[q] BY <1>4, <2>1, <1>h, <1>0 DEF Release, Typed
    <2>3. r \in Leaders /\ lease.holder = r BY <1>4 DEF Release, LeaderHoldsLease
    <2> QED BY <2>1, <2>2, <2>3
  <1>5. ASSUME NEW r \in Replicas, Terminate(r), ~Release(r)
        PROVE  q \in Leaders /\ UNCHANGED <<since, lease>>
    BY <1>5, <1>0 DEF Terminate, Typed
  <1>6. ASSUME NEW r \in Replicas, OnStoppedLeading(r)
        PROVE  q \in Leaders /\ UNCHANGED <<since, lease>>
    BY <1>6, <1>0 DEF OnStoppedLeading, Typed
  <1>7. ASSUME NEW r \in Replicas, End(r)
        PROVE  lease'.holder = q /\ lease'.age = since'[q] /\ since'[q] <= GiveUpAfter
    <2>1. q # r /\ q \in Leaders BY <1>7, <1>0 DEF End, Typed
    <2> QED BY <1>7, <2>1, <1>h, <1>0 DEF End, Typed
  <1>8. ASSUME NEW r \in Replicas, OnStartedLeading(r)
        PROVE  q \in Leaders /\ UNCHANGED <<since, lease>>
    BY <1>8, <1>0 DEF OnStartedLeading, AddLeaderPodLabel, RunControllers, Cancel
  <1>9. CASE UNCHANGED vars BY <1>9, <1>h, <1>0 DEF vars
  <1> QED BY <1>1, <1>2, <1>3, <1>4, <1>5, <1>6, <1>7, <1>8, <1>9, <1>h
          DEF LeaderNext, Elector, GiveUp, Exit, Crash, Terminate

\* For any number of replicas, faults and crashes two never lead at once: the
\* durations of app.go leave the leader time to notice before its lease expires.
THEOREM OneLeaderTheorem == LeaderSpec => []OneLeader
  <1>1. LeaderInit => Typed /\ LeaderHoldsLease
    BY DEF LeaderInit, Typed, LeaderHoldsLease, Leaders, LeaseDuration
  <1>2. LeaderHoldsLease => OneLeader
    BY DEF LeaderHoldsLease, OneLeader
  <1> QED BY <1>1, <1>2, TypedStep, HoldStep, PTL DEF LeaderSpec

-----------------------------------------------------------------------------
\* A process that waits to lead has no services, so that only Init touched its label.
Waiting ==
  /\ services \in [Replicas -> {"none", "started", "labelled", "serving"}]
  /\ \A r \in Replicas : phase[r] \in {"down", "candidate"} => services[r] = "none"

LEMMA UnmarkedStep ==
  Typed /\ Waiting /\ CandidateUnmarked /\ [LeaderNext]_vars => (Waiting /\ CandidateUnmarked)'
  <1> SUFFICES ASSUME Typed, Waiting, CandidateUnmarked, [LeaderNext]_vars
               PROVE  (Waiting /\ CandidateUnmarked)'
    OBVIOUS
  <1> USE DEF Typed, Waiting, CandidateUnmarked
  <1>1. CASE Tick BY <1>1 DEF Tick
  <1>2. ASSUME NEW r \in Replicas, Init(r) PROVE (Waiting /\ CandidateUnmarked)'
    BY <1>2 DEF Init, SetLabel
  <1>3. ASSUME NEW r \in Replicas, Acquire(r) PROVE (Waiting /\ CandidateUnmarked)'
    BY <1>3 DEF Acquire
  <1>4. ASSUME NEW r \in Replicas, Release(r) PROVE (Waiting /\ CandidateUnmarked)'
    BY <1>4 DEF Release
  <1>5. ASSUME NEW r \in Replicas, Terminate(r), ~Release(r) PROVE (Waiting /\ CandidateUnmarked)'
    BY <1>5 DEF Terminate
  <1>6. ASSUME NEW r \in Replicas, OnStoppedLeading(r) PROVE (Waiting /\ CandidateUnmarked)'
    BY <1>6 DEF OnStoppedLeading, SetLabel
  <1>7. ASSUME NEW r \in Replicas, End(r) PROVE (Waiting /\ CandidateUnmarked)'
    BY <1>7 DEF End
  <1>8. ASSUME NEW r \in Replicas, AddLeaderPodLabel(r) PROVE (Waiting /\ CandidateUnmarked)'
    BY <1>8 DEF AddLeaderPodLabel, SetLabel
  <1>9. ASSUME NEW r \in Replicas, RunControllers(r) \/ Cancel(r)
        PROVE  (Waiting /\ CandidateUnmarked)'
    BY <1>9 DEF RunControllers, Cancel
  <1>10. CASE UNCHANGED vars BY <1>10 DEF vars
  <1> QED BY <1>1, <1>2, <1>3, <1>4, <1>5, <1>6, <1>7, <1>8, <1>9, <1>10
          DEF LeaderNext, Elector, OnStartedLeading, GiveUp, Exit, Crash, Terminate

\* For any number of replicas a process that waits to lead is not marked as the
\* leader, unless its Init could not remove the label.
THEOREM UnmarkedTheorem == LeaderSpec => []CandidateUnmarked
  <1>1. LeaderInit => Typed /\ Waiting /\ CandidateUnmarked
    BY DEF LeaderInit, Typed, Waiting, CandidateUnmarked, LeaseDuration
  <1> QED BY <1>1, TypedStep, UnmarkedStep, PTL DEF LeaderSpec

-----------------------------------------------------------------------------
\* The counters stay within their bounds, and a leader gives up in time.
Bounded ==
  /\ since \in [Replicas -> 0 .. GiveUpAfter]
  /\ faults \in 0 .. MaxFaults /\ ends \in 0 .. MaxEnds

LEMMA BoundedStep == Typed /\ Bounded /\ [LeaderNext]_vars => Bounded'
  <1> SUFFICES ASSUME Typed, Bounded, [LeaderNext]_vars PROVE Bounded'
    OBVIOUS
  <1> USE LeaderBoundsAssumption DEF Bounded, GiveUpAfter, RetryPeriod, RenewDeadline
  <1>1. CASE Tick
    <2>1. PICK failing \in SUBSET Leaders :
            LET renewed == {r \in Leaders \ failing : lease.holder = r} IN
            /\ faults' = faults + Cardinality({r \in failing : since[r] = 0})
            /\ faults' <= MaxFaults
            /\ since' = [r \in Replicas |-> IF r \in Leaders \ renewed THEN since[r] + 1 ELSE 0]
      BY <1>1 DEF Tick
    <2>2. \A r \in Leaders : since[r] \in 0 .. 3 BY <1>1 DEF Tick, Leaders
    <2>3. since' \in [Replicas -> 0 .. GiveUpAfter] BY <2>1, <2>2
    <2>4. {r \in failing : since[r] = 0} \subseteq Replicas BY DEF Leaders
    <2>5. Cardinality({r \in failing : since[r] = 0}) \in Nat
      BY <2>4, ReplicasAssumption, FS_Subset, FS_CardinalityType
    <2> QED BY <1>1, <2>1, <2>3, <2>5 DEF Tick
  <1>2. ASSUME NEW r \in Replicas, Init(r) \/ OnStoppedLeading(r) PROVE Bounded'
    BY <1>2 DEF Init, OnStoppedLeading, SetLabel
  <1>3. ASSUME NEW r \in Replicas, Acquire(r) PROVE Bounded' BY <1>3 DEF Acquire
  <1>4. ASSUME NEW r \in Replicas, GiveUp(r) \/ Terminate(r) PROVE Bounded'
    BY <1>4 DEF GiveUp, Terminate, Release
  <1>5. ASSUME NEW r \in Replicas, Exit(r) \/ Crash(r) PROVE Bounded'
    BY <1>5 DEF Exit, Crash, End
  <1>6. ASSUME NEW r \in Replicas, OnStartedLeading(r) PROVE Bounded'
    BY <1>6 DEF OnStartedLeading, AddLeaderPodLabel, RunControllers, Cancel, SetLabel
  <1>7. CASE UNCHANGED vars BY <1>7 DEF vars
  <1> QED BY <1>1, <1>2, <1>3, <1>4, <1>5, <1>6, <1>7 DEF LeaderNext, Elector

\* For any finite number of replicas the election's state has its types: no leader
\* goes longer than GiveUpAfter without a renewal, and no process that has not
\* become leader runs services.
THEOREM LeaderTypes == LeaderSpec => []LeaderTypeOK
  <1> DEFINE Inv == Typed /\ Waiting /\ CandidateUnmarked /\ Bounded
  <1>1. LeaderInit => Inv
    BY LeaderBoundsAssumption
       DEF LeaderInit, Typed, Waiting, CandidateUnmarked, Bounded, LeaseDuration, GiveUpAfter,
           RetryPeriod, RenewDeadline
  <1>2. Inv => LeaderTypeOK BY DEF Typed, Waiting, Bounded, LeaderTypeOK
  <1> QED BY <1>1, <1>2, TypedStep, UnmarkedStep, BoundedStep, PTL DEF LeaderSpec
=============================================================================
