--------------------------- MODULE LeaderElection ---------------------------
(***************************************************************************)
(* pkg/app/app.go and main.go: which replica runs the services, and which  *)
(* one carries the leader label that the metrics service selects by.       *)
(*                                                                         *)
(* A process has two goroutines: the elector (Run, in client-go's          *)
(* leaderelection) and, once it leads, OnStartedLeading with the services. *)
(* A process that stops leading ends, and its container is started again   *)
(* with a new identity.  Calls to the API server may fail.  The unit of    *)
(* time is the 5 seconds of RetryPeriod.                                   *)
(***************************************************************************)
EXTENDS Naturals, FiniteSets

CONSTANTS
  Replicas, None,
  Gone,                 \* the identity of a process that has ended
  MaxFaults, MaxEnds    \* bounds: failing calls, or outages of them; terminations and crashes

ASSUME IdentityAssumption == None \notin Replicas /\ Gone \notin Replicas
ASSUME ReplicasAssumption == IsFiniteSet(Replicas)
ASSUME LeaderBoundsAssumption == MaxFaults \in Nat /\ MaxEnds \in Nat

VARIABLES
  phase,      \* each replica's elector
  services,   \* each replica's OnStartedLeading
  label,      \* whether each replica's pod is marked as the leader
  missed,     \* whether the last call that was to change the label failed
  since,      \* time since each leader's last successful renewal
  lease,      \* the Lease object: its holder, and the time since it was renewed
  faults, ends

vars == <<phase, services, label, missed, since, lease, faults, ends>>

LeaseDuration == 12
RetryPeriod == 1
\* A slip in the configuration: a leader tries longer than its lease lasts.
RenewBeyondLease == 12
RenewDeadline == 3

\* renew waits RetryPeriod after a success and then tries for RenewDeadline.
GiveUpAfter == RetryPeriod + RenewDeadline

LeaderInit ==
  /\ phase = [r \in Replicas |-> "down"]
  /\ services = [r \in Replicas |-> "none"]
  /\ label = [r \in Replicas |-> FALSE]
  /\ missed = [r \in Replicas |-> FALSE]
  /\ since = [r \in Replicas |-> 0]
  /\ lease = [holder |-> None, age |-> LeaseDuration]
  /\ faults = 0 /\ ends = 0

Leaders == {r \in Replicas : phase[r] = "leading"}

\* The call to set r's label succeeds, or fails and leaves it.
SetLabel(r, active) ==
  \/ /\ label' = [label EXCEPT ![r] = active]
     /\ missed' = [missed EXCEPT ![r] = FALSE]
     /\ faults' = faults
  \/ /\ faults < MaxFaults /\ faults' = faults + 1
     /\ missed' = [missed EXCEPT ![r] = TRUE]
     /\ label' = label

(***************************************************************************)
(* The elector.                                                            *)
(***************************************************************************)
\* A slip in Init: the label a crashed process left is not removed.
InitKeepsLabel(r) ==
  /\ phase[r] = "down"
  /\ phase' = [phase EXCEPT ![r] = "candidate"]
  /\ missed' = [missed EXCEPT ![r] = FALSE]
  /\ UNCHANGED <<services, label, since, lease, faults, ends>>

Init(r) ==
  /\ phase[r] = "down"
  /\ phase' = [phase EXCEPT ![r] = "candidate"]
  /\ SetLabel(r, FALSE)
  /\ UNCHANGED <<services, since, lease, ends>>

Acquire(r) ==
  /\ phase[r] = "candidate"
  /\ lease.holder = None \/ lease.age = LeaseDuration
  /\ lease' = [holder |-> r, age |-> 0]
  /\ phase' = [phase EXCEPT ![r] = "leading"]
  /\ services' = [services EXCEPT ![r] = "started"]
  /\ since' = [since EXCEPT ![r] = 0]
  /\ UNCHANGED <<label, missed, faults, ends>>

\* Time passes: a leader renews its lease, or its calls fail.  An outage, for however
\* many calls, counts as one of MaxFaults.
Tick ==
  /\ \A r \in Leaders : since[r] < GiveUpAfter
  /\ \E failing \in SUBSET Leaders :
       LET renewed == {r \in Leaders \ failing : lease.holder = r} IN
       /\ faults' = faults + Cardinality({r \in failing : since[r] = 0}) /\ faults' <= MaxFaults
       /\ since' = [r \in Replicas |-> IF r \in Leaders \ renewed THEN since[r] + 1 ELSE 0]
       /\ lease' = [lease EXCEPT !.age = IF lease.holder \in renewed THEN 0
                                         ELSE IF @ < LeaseDuration THEN @ + 1 ELSE @]
  /\ UNCHANGED <<phase, services, label, missed, ends>>

\* renew returns: ReleaseOnCancel gives the lease back, unless that fails, and the
\* context of OnStartedLeading is over.
Release(r) ==
  /\ phase[r] = "leading"
  /\ phase' = [phase EXCEPT ![r] = "stopping"]
  /\ since' = [since EXCEPT ![r] = 0]
  /\ \/ /\ lease' = IF lease.holder = r THEN [holder |-> None, age |-> 0] ELSE lease
        /\ faults' = faults
     \/ /\ faults < MaxFaults /\ faults' = faults + 1
        /\ lease' = lease
  /\ UNCHANGED <<services, label, missed>>

GiveUp(r) == since[r] = GiveUpAfter /\ Release(r) /\ ends' = ends

\* The process is asked to end: main cancels the context.
Terminate(r) ==
  /\ ends < MaxEnds /\ ends' = ends + 1
  /\ \/ Release(r)
     \/ /\ phase[r] = "candidate"
        /\ phase' = [phase EXCEPT ![r] = "stopping"]
        /\ UNCHANGED <<services, label, missed, since, lease, faults>>

\* A slip in main: the process runs for leader again.
OnStoppedRunsAgain(r) ==
  /\ phase[r] = "stopping"
  /\ phase' = [phase EXCEPT ![r] = "candidate"]
  /\ SetLabel(r, FALSE)
  /\ UNCHANGED <<services, since, lease, ends>>

OnStoppedLeading(r) ==
  /\ phase[r] = "stopping"
  /\ phase' = [phase EXCEPT ![r] = "stopped"]
  /\ SetLabel(r, FALSE)
  /\ UNCHANGED <<services, since, lease, ends>>

\* The process is gone, with its goroutines; nobody has its identity again.
End(r) ==
  /\ phase' = [phase EXCEPT ![r] = "down"]
  /\ services' = [services EXCEPT ![r] = "none"]
  /\ since' = [since EXCEPT ![r] = 0]
  /\ lease' = IF lease.holder = r THEN [lease EXCEPT !.holder = Gone] ELSE lease
  /\ UNCHANGED <<label, missed, faults>>

Exit(r) == phase[r] = "stopped" /\ End(r) /\ ends' = ends

Crash(r) == phase[r] # "down" /\ ends < MaxEnds /\ ends' = ends + 1 /\ End(r)

(***************************************************************************)
(* OnStartedLeading: its context is over once the elector does not lead.   *)
(***************************************************************************)
\* A slip in addLeaderPodLabel: when it fails, the services are not started.
AddLabelOrReturn(r) ==
  /\ services[r] = "started"
  /\ SetLabel(r, TRUE)
  /\ services' = [services EXCEPT ![r] = IF missed'[r] THEN "none" ELSE "labelled"]
  /\ UNCHANGED <<phase, since, lease, ends>>

\* RunServices up to addLeaderPodLabel, whose failure is ignored.  The elector may
\* have removed the label already.
AddLeaderPodLabel(r) ==
  /\ services[r] = "started"
  /\ SetLabel(r, TRUE)
  /\ services' = [services EXCEPT ![r] = "labelled"]
  /\ UNCHANGED <<phase, since, lease, ends>>

\* The rest of RunServices: caches are synced and the controllers run.
RunControllers(r) ==
  /\ services[r] = "labelled"
  /\ services' = [services EXCEPT ![r] = "serving"]
  /\ UNCHANGED <<phase, label, missed, since, lease, faults, ends>>

\* <-mainCtx.Done(), then cancelFunc.
Cancel(r) ==
  /\ services[r] = "serving" /\ phase[r] # "leading"
  /\ services' = [services EXCEPT ![r] = "none"]
  /\ UNCHANGED <<phase, label, missed, since, lease, faults, ends>>

Elector(r) == Init(r) \/ GiveUp(r) \/ OnStoppedLeading(r) \/ Exit(r)
OnStartedLeading(r) == AddLeaderPodLabel(r) \/ RunControllers(r) \/ Cancel(r)

LeaderNext ==
  \/ Tick
  \/ \E r \in Replicas : Elector(r) \/ Acquire(r) \/ OnStartedLeading(r) \/ Terminate(r) \/ Crash(r)

LeaderSpec == LeaderInit /\ [][LeaderNext]_vars

\* Time passes, goroutines run, containers are restarted, and one of the candidates
\* gets a free lease; nothing is said of faults, terminations and crashes.
FairLeaderSpec ==
  /\ LeaderSpec
  /\ WF_vars(Tick)
  /\ WF_vars(\E r \in Replicas : Acquire(r))
  /\ \A r \in Replicas : WF_vars(Elector(r)) /\ WF_vars(OnStartedLeading(r))

(***************************************************************************)
(* Properties.                                                             *)
(***************************************************************************)
\* The processes and the lease have their types, no clock passes the age at which
\* client-go acts on it, and only a process that leads runs services.
LeaderTypeOK ==
  /\ phase \in [Replicas -> {"down", "candidate", "leading", "stopping", "stopped"}]
  /\ services \in [Replicas -> {"none", "started", "labelled", "serving"}]
  /\ label \in [Replicas -> BOOLEAN] /\ missed \in [Replicas -> BOOLEAN]
  /\ since \in [Replicas -> 0 .. GiveUpAfter]
  /\ lease \in [holder : Replicas \cup {None, Gone}, age : 0 .. LeaseDuration]
  /\ faults \in 0 .. MaxFaults /\ ends \in 0 .. MaxEnds
  /\ \A r \in Replicas : phase[r] \in {"down", "candidate"} => services[r] = "none"

\* Two replicas never lead at once, although a leader that cannot reach the API
\* server goes on until its RenewDeadline and its lease outlives its process: the
\* durations of the configuration leave room for it (app.go:142-144).
OneLeader == \A r, q \in Leaders : r = q

\* A process waiting to lead is not marked as the leader, however the process
\* before it in the same pod ended, and although OnStartedLeading may add the label
\* after OnStoppedLeading removed it: Init removes it, unless that call failed.
CandidateUnmarked ==
  \A r \in Replicas : phase[r] = "candidate" /\ ~missed[r] => ~label[r]

Serves(r) == phase[r] = "leading" /\ services[r] = "serving"

\* After the last failure and crash a replica leads and serves for ever, and the
\* leader label marks it and no other, as far as the calls that set it succeeded:
\* no lease of an ended process and no failed label call keeps the services down.
LeadershipSettles ==
  <>[](\E r \in Replicas :
         /\ Serves(r)
         /\ label[r] \/ missed[r]
         /\ \A q \in Replicas \ {r} : label[q] => missed[q])
=============================================================================
