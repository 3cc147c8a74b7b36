----------------------------- MODULE Deployment -----------------------------
(* The release of a new revision to the one production host.                *)
(*                                                                          *)
(* A workflow run (a "runner") captures the committed revision, has the host *)
(* deploy its own, probes the host from outside and then accepts or rejects  *)
(* the candidate.  Between the commit on the host and that decision the      *)
(* candidate is pending; a detached watchdog on the host rejects it at a     *)
(* deadline when the runner is lost.  Every operation holds one directory as *)
(* a lock, and leaves its decision in the files of the state directory.      *)
(*                                                                          *)
(* One action is what an operation does between two points at which another  *)
(* process can look, or at which it can be killed.  An attempt stands for    *)
(* the seven fields of its pending record: its token determines them.        *)
EXTENDS Naturals, FiniteSets

CONSTANTS
    DeployAttempts,       \* the workflow runs, numbered in the order they start
    NewestRevision,       \* revisions are 0..NewestRevision, in the order of origin/main
    MaxPendingWatchdogs,  \* maximum_pending_watchdog_leases
    MaxHostFaults,        \* bound: hard kills, damaged records, failing Docker
    MaxRollbacks          \* bound: explicit rollbacks by an operator

ASSUME DeploymentAssumption ==
    /\ \E n \in 1..98 : DeployAttempts = 1..n
    /\ NewestRevision \in Nat \ {0}
    /\ MaxPendingWatchdogs \in Nat \ {0}
    /\ MaxHostFaults \in Nat
    /\ MaxRollbacks \in Nat

Revisions == 0..NewestRevision
Down == NewestRevision + 1      \* no container of a service
NoAttempt == 0                  \* no such file
Malformed == 99                 \* a file that no loader accepts
Records == DeployAttempts \cup {NoAttempt, Malformed}

VARIABLES
    firstDeploy,   \* revision 0 is the sentinel of a host that was never deployed
    files,         \* current-deployment, current-image-id, deployment-high-water, current-revision
    verified,      \* verified-images/*
    pending,       \* pending-deployment
    accepted,      \* accepted-deployment
    leases,        \* pending-watchdogs/*
    lock,          \* .deployment-operation.lock: free, held, or orphaned by a hard kill
    op,            \* what the holder of the lock is doing
    up,            \* the revision of the app container and of the three private ones
    release,       \* operations/current
    runner,        \* per attempt, where its workflow run is
    watchdog,      \* per attempt, its watchdog process
    candidate,     \* per attempt, the revision it deploys
    previous,      \* per attempt, the revision it captured as its predecessor
    late,          \* attempts whose deadline has passed
    verdict,       \* history: what was decided on an attempt
    hostFaults,    \* how many faults there were (bound)
    rollbacks      \* how many explicit rollbacks there were (bound)

hostVars == <<firstDeploy, files, verified, pending, accepted, leases, up, release>>
attemptVars == <<runner, watchdog, candidate, previous, late, verdict>>
deployVars == <<hostVars, attemptVars, lock, op, hostFaults, rollbacks>>

-----------------------------------------------------------------------------
(* The state files. *)

NoOperation == [kind |-> "none", attempt |-> 0, to |-> 0, step |-> "none"]
Operation(k, a, to, s) == [kind |-> k, attempt |-> a, to |-> to, step |-> s]
Both(r) == [app |-> r, private |-> r]

(* An image stands for the revision it was built from. *)
Sentinel(r) == firstDeploy /\ r = 0

(* load_deployment_state: four files written one after the other agree. *)
StateLoads == /\ files.marker = files.current
              /\ files.image = files.current
              /\ files.current \in verified

CurrentMatches(r) == StateLoads /\ files.current = r

(* record_immutable_deployment_state after its first n renames. *)
Recorded(r, high, n) ==
    [image   |-> IF n >= 1 THEN r ELSE files.image,
     high    |-> IF n >= 2 THEN high ELSE files.high,
     current |-> IF n >= 3 THEN r ELSE files.current,
     marker  |-> IF n >= 4 THEN r ELSE files.marker]

TypeRevision == Revisions \cup {Down}

DeployInit ==
    /\ firstDeploy \in BOOLEAN
    /\ files = [current |-> 0, image |-> 0, high |-> 0, marker |-> 0]
    /\ verified = {0}
    /\ pending = NoAttempt /\ accepted = NoAttempt
    /\ leases = {}
    /\ lock = "free" /\ op = NoOperation
    /\ up = Both(IF firstDeploy THEN Down ELSE 0)
    /\ release = 0
    /\ runner = [a \in DeployAttempts |-> "unused"]
    /\ watchdog = [a \in DeployAttempts |-> "none"]
    /\ candidate = [a \in DeployAttempts |-> 0]
    /\ previous = [a \in DeployAttempts |-> 0]
    /\ late = {}
    /\ verdict = [a \in DeployAttempts |-> "none"]
    /\ hostFaults = 0 /\ rollbacks = 0

Release == lock' = "free" /\ op' = NoOperation
OpGoto(s) == op' = [op EXCEPT !.step = s] /\ UNCHANGED lock
OpAt(k, a, s) == op.kind = k /\ op.attempt = a /\ op.step = s

-----------------------------------------------------------------------------
(* The workflow run. *)

(* Workflow runs are serialised, so a run starts when the last one is over. *)
CaptureRollbackGuard(a) ==
    /\ runner[a] = "unused"
    /\ \A b \in DeployAttempts : runner[b] = IF b < a THEN "ended" ELSE "unused"
    /\ pending = NoAttempt
    /\ StateLoads
    /\ \E r \in Revisions \ {0, files.current} : candidate' = [candidate EXCEPT ![a] = r]
    /\ previous' = [previous EXCEPT ![a] = files.current]
    /\ runner' = [runner EXCEPT ![a] = "captured"]
    /\ UNCHANGED <<hostVars, watchdog, late, verdict, lock, op, hostFaults, rollbacks>>

(* A candidate older than the high-water mark is refused, except on a host   *)
(* whose committed revision is the sentinel: nothing is compared there.      *)
NotOlder(a) == \/ Sentinel(files.current)
               \/ files.current <= files.high /\ files.high <= candidate[a]

DeployAdmissible(a) == /\ CurrentMatches(previous[a])
                       /\ pending = NoAttempt
                       /\ Cardinality(leases) < MaxPendingWatchdogs
                       /\ NotOlder(a)

AdmitDeploy(a) ==
    /\ runner[a] = "captured"
    /\ IF lock = "free" /\ DeployAdmissible(a)
       THEN /\ lock' = "held"
            /\ op' = Operation("deploy", a, candidate[a], "admitted")
            /\ runner' = [runner EXCEPT ![a] = "deploying"]
       ELSE /\ runner' = [runner EXCEPT ![a] = "ended"]
            /\ UNCHANGED <<lock, op>>
    /\ UNCHANGED <<hostVars, watchdog, candidate, previous, late, verdict, hostFaults, rollbacks>>

(* The external probe, which counts only after the "verify" readback. *)
VerifyAndProbe(a) ==
    /\ runner[a] = "probing"
    /\ \E ok \in BOOLEAN :
        /\ ok => /\ lock = "free" /\ pending = a /\ a \in leases /\ a \notin late
                 /\ CurrentMatches(candidate[a]) /\ files.high = candidate[a]
        /\ runner' = [runner EXCEPT ![a] = IF ok THEN "finalizing" ELSE "rejecting"]
    /\ UNCHANGED <<hostVars, watchdog, candidate, previous, late, verdict, lock, op, hostFaults, rollbacks>>

(* accept: the receipt first, the pending record after it.  The answer may be *)
(* lost, so that the run asks again or goes on to reject.                     *)
OwnsHighWater(a) == CurrentMatches(candidate[a]) /\ files.high = candidate[a]
AcceptIdempotent(a) == accepted = a /\ OwnsHighWater(a) /\ pending \in {NoAttempt, a}
AcceptFresh(a) == /\ accepted \notin {a, Malformed}
                  /\ pending = a /\ a \in leases /\ a \notin late
                  /\ OwnsHighWater(a)

Accept(a) ==
    /\ runner[a] = "finalizing" /\ lock = "free"
    /\ AcceptIdempotent(a) \/ AcceptFresh(a)
    /\ accepted' = a /\ pending' = NoAttempt
    /\ verdict' = [verdict EXCEPT ![a] = "accepted"]
    /\ \E next \in {"ended", "finalizing", "rejecting"} : runner' = [runner EXCEPT ![a] = next]
    /\ UNCHANGED <<firstDeploy, files, verified, leases, up, release, watchdog, candidate,
                   previous, late, lock, op, hostFaults, rollbacks>>

AcceptFails(a) ==
    /\ runner[a] = "finalizing"
    /\ runner' = [runner EXCEPT ![a] = "rejecting"]
    /\ UNCHANGED <<hostVars, watchdog, candidate, previous, late, verdict, lock, op, hostFaults, rollbacks>>

(* The run is cancelled or its host is lost; a remote script may go on. *)
RunnerLost(a) ==
    /\ runner[a] \notin {"unused", "ended"}
    /\ runner' = [runner EXCEPT ![a] = "ended"]
    /\ UNCHANGED <<hostVars, watchdog, candidate, previous, late, verdict, lock, op, hostFaults, rollbacks>>

-----------------------------------------------------------------------------
(* deploy-on-vps.sh, which holds the lock from its admission to its exit. *)

DeployStep(a, from, to) == OpAt("deploy", a, from) /\ OpGoto(to)
                           /\ UNCHANGED <<runner, candidate, previous, late, verdict, hostFaults, rollbacks>>

Quiesce(a) ==
    /\ DeployStep(a, "admitted", "quiesced")
    /\ up' = [up EXCEPT !.private = Down]
    /\ UNCHANGED <<firstDeploy, files, verified, pending, accepted, leases, release, watchdog>>

(* migrate, then the operations release that goes with the schema. *)
Migrate(a) ==
    /\ DeployStep(a, "quiesced", "migrated")
    /\ release' = candidate[a]
    /\ UNCHANGED <<firstDeploy, files, verified, pending, accepted, leases, up, watchdog>>

(* "up --wait" may be interrupted when only some of the services are there. *)
StartCandidate(a) ==
    /\ DeployStep(a, "migrated", "started")
    /\ \E app \in {up.app, candidate[a]}, private \in {Down, candidate[a]} :
          up' = [app |-> app, private |-> private]
    /\ UNCHANGED <<firstDeploy, files, verified, pending, accepted, leases, release, watchdog>>

VerifyCurrentDeployment(a) ==
    /\ DeployStep(a, "started", "verified")
    /\ up = Both(candidate[a])
    /\ UNCHANGED <<hostVars, watchdog>>

(* The final section masks the catchable signals. *)
RecordPending(a) ==
    /\ DeployStep(a, "verified", "pending")
    /\ pending = NoAttempt /\ pending' = a
    /\ UNCHANGED <<firstDeploy, files, verified, accepted, leases, up, release, watchdog>>

RecordLease(a) ==
    /\ DeployStep(a, "pending", "leased")
    /\ leases' = leases \cup {a}
    /\ UNCHANGED <<firstDeploy, files, verified, pending, accepted, up, release, watchdog>>

LaunchWatchdog(a) ==
    /\ DeployStep(a, "leased", "watched")
    /\ watchdog' = [watchdog EXCEPT ![a] = "watching"]
    /\ UNCHANGED hostVars

CommitCandidate(a) ==
    /\ OpAt("deploy", a, "watched")
    /\ files' = Recorded(candidate[a], candidate[a], 4)
    /\ verified' = verified \cup {candidate[a]}
    /\ runner' = [runner EXCEPT ![a] = IF @ = "deploying" THEN "probing" ELSE @]
    /\ Release
    /\ UNCHANGED <<firstDeploy, pending, accepted, leases, up, release, watchdog, candidate,
                   previous, late, verdict, hostFaults, rollbacks>>

(* cleanup_failed_candidate_runtime: everything down, then at most the public *)
(* app of the predecessor.                                                    *)
ClosedOrPublicOnly(r) == {Both(Down)} \cup
    (IF Sentinel(r) THEN {} ELSE {[app |-> r, private |-> Down]})

(* What the exit of the script leaves of the containers, by how far it came. *)
RuntimesAfterExitMutant(a) == {up, [up EXCEPT !.private = Down]}
RuntimesAfterExit(a) ==
    CASE op.step = "admitted" -> {up, [up EXCEPT !.private = Down]}
      [] op.step \in {"quiesced", "migrated"} -> {up}
      [] OTHER -> ClosedOrPublicOnly(previous[a])

(* A failure or a catchable signal, and the trap that cleans up after it. In  *)
(* the final section only the launch of the watchdog can fail.                *)
DeployFails(a) ==
    /\ op.kind = "deploy" /\ op.attempt = a
    /\ op.step \in {"admitted", "quiesced", "migrated", "started", "verified", "leased"}
    /\ up' \in RuntimesAfterExit(a)
    /\ release' = IF op.step = "admitted" THEN release ELSE candidate[a]
    /\ pending' = IF op.step = "leased" THEN NoAttempt ELSE pending
    /\ leases' = IF op.step = "leased" THEN leases \ {a} ELSE leases
    /\ runner' = [runner EXCEPT ![a] = "ended"]
    /\ Release
    /\ UNCHANGED <<firstDeploy, files, verified, accepted, watchdog, candidate, previous, late,
                   verdict, hostFaults, rollbacks>>

-----------------------------------------------------------------------------
(* resolve-pending-deployment-on-vps.sh and watch-pending-deployment-on-vps.sh. *)

(* "retire", which the watchdog asks every two seconds: 0 ends it, 4 (still    *)
(* pending) and 75 (lock busy) make it wait, any other answer sends it to       *)
(* reject at once.                                                              *)
RetirePermitted(a) == /\ a \in leases
                      /\ accepted = a
                      /\ pending # NoAttempt => pending = a /\ OwnsHighWater(a)
StillPending(a) == a \in leases /\ accepted \notin {a, Malformed} /\ pending = a

Retire(a) ==
    /\ watchdog[a] = "watching" /\ a \notin late
    /\ lock = "free" /\ ~StillPending(a)
    /\ IF RetirePermitted(a)
       THEN /\ pending' = NoAttempt
            /\ leases' = leases \ {a}
            /\ watchdog' = [watchdog EXCEPT ![a] = "ended"]
       ELSE /\ watchdog' = [watchdog EXCEPT ![a] = "rejecting"]
            /\ UNCHANGED <<pending, leases>>
    /\ UNCHANGED <<firstDeploy, files, verified, accepted, up, release, runner, candidate,
                   previous, late, verdict, lock, op, hostFaults, rollbacks>>

(* Fifteen minutes: long after the seconds that the final section takes. *)
DeadlinePasses(a) ==
    /\ watchdog[a] = "watching" /\ a \notin late
    /\ ~(op.kind = "deploy" /\ op.attempt = a)
    /\ late' = late \cup {a}
    /\ watchdog' = [watchdog EXCEPT ![a] = "rejecting"]
    /\ UNCHANGED <<hostVars, runner, candidate, previous, verdict, lock, op, hostFaults, rollbacks>>

(* A resolver is run by the workflow ("reject") or by the watchdog. *)
Resolvers == {"reject", "watchdog"}
Asks(a, k) == IF k = "reject" THEN runner[a] = "rejecting" ELSE watchdog[a] = "rejecting"

(* The exit of a resolver: the watchdog's own takes its lease with it. *)
ResolverEnds(a, k) ==
    IF k = "watchdog"
    THEN /\ watchdog' = [watchdog EXCEPT ![a] = "ended"]
         /\ leases' = leases \ {a}
         /\ UNCHANGED runner
    ELSE /\ runner' = [runner EXCEPT ![a] = "ended"]
         /\ UNCHANGED <<watchdog, leases>>

Without(revs) == [app     |-> IF up.app \in revs THEN Down ELSE up.app,
                  private |-> IF up.private \in revs THEN Down ELSE up.private]
CloseApplicationRuntimes(a) == Without({candidate[a], previous[a]})
RemoveUncommittedCandidate(a) == Without({candidate[a]})
RuntimesKnown(a) == {up.app, up.private} \subseteq {candidate[a], previous[a], Down}

CapabilityLost(a) == \/ accepted = Malformed
                     \/ accepted # a /\ pending \in {NoAttempt, Malformed}

(* close_after_capability_loss: a candidate that does not own the high-water  *)
(* mark any more is left alone.                                               *)
AfterCapabilityLossMutant(a) ==
    IF CurrentMatches(previous[a]) THEN RemoveUncommittedCandidate(a)
    ELSE IF CurrentMatches(candidate[a]) THEN CloseApplicationRuntimes(a)
    ELSE up
AfterCapabilityLoss(a) ==
    IF CurrentMatches(previous[a]) THEN RemoveUncommittedCandidate(a)
    ELSE IF OwnsHighWater(a) THEN CloseApplicationRuntimes(a)
    ELSE up

(* The decisions that end at once. *)
ResolveAtOnce(a, k) ==
    /\ Asks(a, k) /\ lock = "free"
    /\ \/ /\ accepted = a
          /\ pending' = IF AcceptIdempotent(a) THEN NoAttempt ELSE pending
          /\ UNCHANGED up
       \/ /\ CapabilityLost(a)
          /\ up' = AfterCapabilityLoss(a)
          /\ UNCHANGED pending
       \/ /\ accepted \notin {a, Malformed} /\ pending \in DeployAttempts \ {a}
          /\ UNCHANGED <<up, pending>>
    /\ ResolverEnds(a, k)
    /\ UNCHANGED <<firstDeploy, files, verified, accepted, release, candidate, previous, late,
                   verdict, lock, op, hostFaults, rollbacks>>

(* The exact pending record: closing is armed when the committed state is the *)
(* candidate's or its predecessor's, whatever is found after that.            *)
Armed(a) == CurrentMatches(previous[a]) \/ CurrentMatches(candidate[a])
HighWaterFits(a) == \/ CurrentMatches(previous[a]) /\ files.high \in {previous[a], candidate[a]}
                    \/ OwnsHighWater(a)
Preflight(a) == /\ HighWaterFits(a)
                /\ release = candidate[a]
                /\ previous[a] \in verified

RejectPendingMutant(a, k) ==
    /\ Asks(a, k) /\ lock = "free"
    /\ pending = a /\ Armed(a) /\ Preflight(a)
    /\ lock' = "held" /\ op' = Operation(k, a, previous[a], "armed")
    /\ UNCHANGED <<hostVars, attemptVars, hostFaults, rollbacks>>
RejectPending(a, k) ==
    /\ Asks(a, k) /\ lock = "free"
    /\ accepted \notin {a, Malformed} /\ pending = a
    /\ IF Armed(a) /\ Preflight(a)
       THEN /\ lock' = "held" /\ op' = Operation(k, a, previous[a], "armed")
            /\ UNCHANGED <<up, leases, runner, watchdog>>
       ELSE /\ up' = IF Armed(a) THEN CloseApplicationRuntimes(a) ELSE up
            /\ ResolverEnds(a, k)
            /\ UNCHANGED <<lock, op>>
    /\ UNCHANGED <<firstDeploy, files, verified, pending, accepted, release, candidate, previous,
                   late, verdict, hostFaults, rollbacks>>

RejectCloses(a, k) ==
    /\ OpAt(k, a, "armed")
    /\ up' = CloseApplicationRuntimes(a)
    /\ IF RuntimesKnown(a)
       THEN OpGoto("closed") /\ UNCHANGED <<leases, runner, watchdog>>
       ELSE Release /\ ResolverEnds(a, k)
    /\ UNCHANGED <<firstDeploy, files, verified, pending, accepted, release, candidate, previous,
                   late, verdict, hostFaults, rollbacks>>

(* There is nothing to start for the sentinel. *)
RejectRestores(a, k) ==
    /\ OpAt(k, a, "closed")
    /\ up' = Both(IF Sentinel(op.to) THEN Down ELSE op.to)
    /\ OpGoto("restored")
    /\ UNCHANGED <<firstDeploy, files, verified, pending, accepted, leases, release,
                   attemptVars, hostFaults, rollbacks>>

(* A failure or a catchable signal after arming closes everything. *)
RejectFailsMutant(a, k) ==
    /\ OpAt(k, a, "armed") \/ OpAt(k, a, "closed") \/ OpAt(k, a, "restored")
    /\ up' = IF op.step = "armed" THEN up ELSE CloseApplicationRuntimes(a)
    /\ Release /\ ResolverEnds(a, k)
    /\ UNCHANGED <<firstDeploy, files, verified, pending, accepted, release, candidate, previous,
                   late, verdict, hostFaults, rollbacks>>
RejectFails(a, k) ==
    /\ OpAt(k, a, "armed") \/ OpAt(k, a, "closed") \/ OpAt(k, a, "restored")
    /\ up' = CloseApplicationRuntimes(a)
    /\ Release /\ ResolverEnds(a, k)
    /\ UNCHANGED <<firstDeploy, files, verified, pending, accepted, release, candidate, previous,
                   late, verdict, hostFaults, rollbacks>>

RejectCommits(a, k) ==
    /\ OpAt(k, a, "restored")
    /\ files' = Recorded(op.to, files.high, 4)
    /\ pending' = NoAttempt
    /\ verdict' = [verdict EXCEPT ![a] = "rejected"]
    /\ Release /\ ResolverEnds(a, k)
    /\ UNCHANGED <<firstDeploy, verified, accepted, up, release, candidate, previous, late,
                   hostFaults, rollbacks>>

-----------------------------------------------------------------------------
(* rollback-on-vps.sh, by hand, to a revision that was verified before. *)

RollbackAdmitted(r) ==
    /\ lock = "free" /\ rollbacks < MaxRollbacks
    /\ pending = NoAttempt /\ StateLoads
    /\ r \in verified /\ ~Sentinel(r) /\ ~Sentinel(files.current)
    /\ r < files.current /\ files.current <= files.high
    /\ lock' = "held" /\ op' = Operation("rollback", 0, r, "admitted")
    /\ rollbacks' = rollbacks + 1
    /\ UNCHANGED <<hostVars, attemptVars, hostFaults>>

RollbackStarts ==
    /\ OpAt("rollback", 0, "admitted")
    /\ up' = Both(op.to)
    /\ OpGoto("restored")
    /\ UNCHANGED <<firstDeploy, files, verified, pending, accepted, leases, release, attemptVars,
                   hostFaults, rollbacks>>

RollbackCommits ==
    /\ OpAt("rollback", 0, "restored")
    /\ files' = Recorded(op.to, files.high, 4)
    /\ Release
    /\ UNCHANGED <<firstDeploy, verified, pending, accepted, leases, up, release, attemptVars,
                   hostFaults, rollbacks>>

(* Refused before a runtime was touched; or restore_committed_runtime, or     *)
(* everything down when that fails too.                                       *)
RollbackFails ==
    /\ op.kind = "rollback"
    /\ \/ op.step = "admitted" /\ UNCHANGED up
       \/ up' \in {Both(files.current), Both(Down)}
    /\ Release
    /\ UNCHANGED <<firstDeploy, files, verified, pending, accepted, leases, release, attemptVars,
                   hostFaults, rollbacks>>

-----------------------------------------------------------------------------
(* Faults of the host, at most MaxHostFaults of them. *)

HostFault == hostFaults < MaxHostFaults /\ hostFaults' = hostFaults + 1

(* An uncatchable kill of the holder of the lock, possibly between the        *)
(* renames of a commit, or between a commit and the end of the record it uses. *)
HighAfterCommit == IF op.kind = "deploy" THEN op.to ELSE files.high
HardKill ==
    /\ HostFault /\ lock = "held"
    /\ lock' = "orphaned" /\ op' = NoOperation
    /\ IF op.step \in {"watched", "restored"}
       THEN \E n \in 0..4 : /\ files' = Recorded(op.to, HighAfterCommit, n)
                            /\ verified' = verified \cup {op.to}
       ELSE UNCHANGED <<files, verified>>
    /\ runner' = IF op.kind \in {"deploy", "reject"} THEN [runner EXCEPT ![op.attempt] = "ended"] ELSE runner
    /\ watchdog' = IF op.kind = "watchdog" THEN [watchdog EXCEPT ![op.attempt] = "ended"] ELSE watchdog
    /\ UNCHANGED <<firstDeploy, pending, accepted, leases, up, release, candidate, previous, late,
                   verdict, rollbacks>>

(* The same between the two writes of accept. *)
AcceptKilled(a) ==
    /\ HostFault
    /\ runner[a] = "finalizing" /\ lock = "free" /\ AcceptFresh(a)
    /\ lock' = "orphaned"
    /\ accepted' = a
    /\ verdict' = [verdict EXCEPT ![a] = "accepted"]
    /\ \E next \in {"ended", "rejecting"} : runner' = [runner EXCEPT ![a] = next]
    /\ UNCHANGED <<firstDeploy, files, verified, pending, leases, up, release, watchdog, candidate,
                   previous, late, op, rollbacks>>

(* A watchdog that is killed, or gives up after 180 attempts at a lock that   *)
(* nobody releases, leaves its lease.                                         *)
WatchdogDies(a) ==
    /\ watchdog[a] \in {"watching", "rejecting"}
    /\ op.kind = "watchdog" => op.attempt # a
    /\ \/ HostFault
       \/ watchdog[a] = "rejecting" /\ lock = "orphaned" /\ UNCHANGED hostFaults
    /\ watchdog' = [watchdog EXCEPT ![a] = "ended"]
    /\ UNCHANGED <<hostVars, runner, candidate, previous, late, verdict, lock, op, rollbacks>>

(* The trap of a failed deploy cannot remove the containers: what it recorded *)
(* stays.                                                                     *)
DeployCleanupFails(a) ==
    /\ HostFault
    /\ op.kind = "deploy" /\ op.attempt = a /\ op.step \in {"started", "verified", "leased"}
    /\ runner' = [runner EXCEPT ![a] = "ended"]
    /\ Release
    /\ UNCHANGED <<hostVars, watchdog, candidate, previous, late, verdict, rollbacks>>

DamageRecord ==
    /\ HostFault /\ lock = "free"
    /\ \/ pending # NoAttempt /\ pending' \in {NoAttempt, Malformed} \ {pending} /\ UNCHANGED accepted
       \/ accepted \in DeployAttempts /\ accepted' = Malformed /\ UNCHANGED pending
    /\ UNCHANGED <<firstDeploy, files, verified, leases, up, release, attemptVars, lock, op, rollbacks>>

(* The operator removes an orphaned lock after the review the runbook asks for. *)
ClearStaleLock ==
    /\ lock = "orphaned" /\ lock' = "free"
    /\ UNCHANGED <<hostVars, attemptVars, op, hostFaults, rollbacks>>

-----------------------------------------------------------------------------
RunnerStep(a) == \/ CaptureRollbackGuard(a) \/ AdmitDeploy(a) \/ VerifyAndProbe(a)
                 \/ Accept(a) \/ AcceptFails(a) \/ RunnerLost(a)

DeployScriptStep(a) ==
    \/ Quiesce(a) \/ Migrate(a) \/ StartCandidate(a) \/ VerifyCurrentDeployment(a)
    \/ RecordPending(a) \/ RecordLease(a) \/ LaunchWatchdog(a) \/ CommitCandidate(a)
    \/ DeployFails(a)

ResolverStep(a, k) ==
    \/ RejectCloses(a, k) \/ RejectRestores(a, k) \/ RejectFails(a, k) \/ RejectCommits(a, k)

(* Whoever holds the lock goes on. *)
HolderStep == \/ \E a \in DeployAttempts : DeployScriptStep(a) \/ \E k \in Resolvers : ResolverStep(a, k)
              \/ RollbackStarts \/ RollbackCommits \/ RollbackFails

WatchdogResolves(a) == ResolveAtOnce(a, "watchdog") \/ RejectPending(a, "watchdog")

DeployNext ==
    \/ HolderStep
    \/ \E a \in DeployAttempts :
        \/ RunnerStep(a)
        \/ Retire(a) \/ DeadlinePasses(a)
        \/ WatchdogResolves(a)
        \/ ResolveAtOnce(a, "reject") \/ RejectPending(a, "reject")
        \/ AcceptKilled(a) \/ WatchdogDies(a) \/ DeployCleanupFails(a)
    \/ \E r \in Revisions : RollbackAdmitted(r)
    \/ HardKill \/ DamageRecord \/ ClearStaleLock

(* The holder of the lock is a live process that bounds every external        *)
(* command; a watchdog polls until it has its answer.  Nothing is assumed of  *)
(* the runner or of the operator.                                             *)
DeployFairness ==
    /\ WF_deployVars(HolderStep)
    /\ \A a \in DeployAttempts : /\ WF_deployVars(DeadlinePasses(a))
                                 /\ SF_deployVars(Retire(a))
                                 /\ SF_deployVars(WatchdogResolves(a))

DeploySpec == DeployInit /\ [][DeployNext]_deployVars /\ DeployFairness

-----------------------------------------------------------------------------
(* Properties. *)

Steps == {"none", "admitted", "quiesced", "migrated", "started", "verified", "pending", "leased",
          "watched", "armed", "closed", "restored"}
Operations == [kind : {"none", "deploy", "rollback"} \cup Resolvers, attempt : DeployAttempts \cup {0},
               to : Revisions, step : Steps]
Containers == [app : TypeRevision, private : TypeRevision]
StateFiles == [current : Revisions, image : Revisions, high : Revisions, marker : Revisions]

(* The type of every variable, and the lock and its holder go together. *)
DeployTypeOK ==
    /\ firstDeploy \in BOOLEAN
    /\ files \in StateFiles
    /\ verified \subseteq Revisions
    /\ pending \in Records /\ accepted \in Records
    /\ leases \subseteq DeployAttempts
    /\ lock \in {"free", "held", "orphaned"}
    /\ op \in Operations
    /\ lock = "held" <=> op.kind # "none"
    /\ up \in Containers
    /\ release \in Revisions
    /\ runner \in [DeployAttempts -> {"unused", "captured", "deploying", "probing", "finalizing",
                                      "rejecting", "ended"}]
    /\ watchdog \in [DeployAttempts -> {"none", "watching", "rejecting", "ended"}]
    /\ candidate \in [DeployAttempts -> Revisions]
    /\ previous \in [DeployAttempts -> Revisions]
    /\ late \subseteq DeployAttempts
    /\ verdict \in [DeployAttempts -> {"none", "accepted", "rejected"}]
    /\ hostFaults \in 0..MaxHostFaults /\ rollbacks \in 0..MaxRollbacks

Running == {up.app, up.private} \ {Down}

(* With no operation under way and nothing pending, nothing runs but the      *)
(* committed revision: no failed deploy, reject or rollback leaves a          *)
(* container of another one.                                                  *)
RunningIsCommitted ==
    hostFaults = 0 /\ lock = "free" /\ pending = NoAttempt => Running \subseteq {files.current}

(* An attempt is decided once: a rejection that races the acceptance (a lost  *)
(* answer, the deadline) neither rolls the accepted candidate back nor is     *)
(* undone by it.                                                              *)
OneVerdict == [][\A a \in DeployAttempts : verdict[a] # "none" => verdict'[a] = verdict[a]]_deployVars

(* The resolver of an attempt that was superseded changes nothing that is     *)
(* committed, and takes nothing down, unless the committed revision is that   *)
(* attempt's own candidate and still owns the high-water mark.  A resolver    *)
(* acts in the step that answers it, and while it holds the lock.             *)
ResolverActs(a) == /\ ~UNCHANGED <<files, up>>
                   /\ \E k \in Resolvers : \/ Asks(a, k) /\ lock = "free" /\ ~Asks(a, k)'
                                           \/ op.kind = k /\ op.attempt = a
SupersededLeavesAlone ==
    [][\A a \in DeployAttempts :
         hostFaults' = 0 /\ ResolverActs(a) /\ pending # a => OwnsHighWater(a)]_deployVars

(* After a hard kill between the commit of the predecessor and the end of the *)
(* pending record, "the next reject safely clears [it] without touching        *)
(* runtimes".                                                                  *)
NextRejectTouchesNothing ==
    [][\A a \in DeployAttempts :
         pending = a /\ CurrentMatches(previous[a]) /\ files.high = candidate[a]
           /\ up = Both(previous[a]) => up' = up]_deployVars

(* Without faults an unresolved candidate does not stay: it is accepted, or   *)
(* rejected, or everything is taken down and the record kept for review.      *)
PendingIsResolved ==
    \A a \in DeployAttempts :
        pending = a ~> pending # a \/ Running = {} \/ hostFaults > 0
=============================================================================
