-------------------------- MODULE KassalappExecutor --------------------------
(***************************************************************************)
(* The job handler that createExecutor builds                              *)
(* (apps/worker/src/kassalapp-handlers.ts:686-827): one job of the runner, *)
(* from the first access check to the counters it hands back.              *)
(*                                                                         *)
(* Every await is a step, so that the source's access, the abort signal    *)
(* and the fence may change between any two of them.  A repository call    *)
(* is one transaction: it commits or not, and its answer may be lost after *)
(* it committed.  prepare() fetches; its own access checks between source  *)
(* calls write nothing and are one step with the fetch.                    *)
(***************************************************************************)
EXTENDS Naturals, FiniteSets

CONSTANTS
  NBatch,      \* bound on the persistence batches of a job
  MaxFailed,   \* bound on prepared.failed, the source calls that failed
  MaxChange    \* bound on the access decisions during the job

ASSUME ExecutorAssumption ==
  NBatch \in Nat \ {0} /\ MaxFailed \in Nat /\ MaxChange \in Nat

VARIABLES
  pc,        \* the await the handler is at
  cause,     \* why it finalizes
  prepared,  \* what prepare() returned: batches to persist, calls that failed
  next,      \* index of the batch the loop of persistInBatches is at
  aborted,   \* the runner's signal
  fenced,    \* the fence token still matches the lease
  approved,  \* what sourceAccessPolicy answers
  changes,   \* access decisions so far
  run,       \* the ingestion_runs row
  stored,    \* batches whose transaction committed
  late,      \* history: batches committed since access was last withdrawn
  result     \* what the runner sees

jobVars == <<pc, cause, prepared, next, aborted, fenced, approved, changes, run,
          stored, late, result>>
world == <<aborted, fenced, approved, changes>>

Terminal == {"completed", "degraded", "cancelled"}
Counters == [persisted : Nat, failed : Nat]
NoCounters == [persisted |-> 0, failed |-> 0]
Result(kind, counters) == [kind |-> kind, counters |-> counters]
NoResult == Result("none", NoCounters)

JobTypeOK ==
  /\ pc \in {"accessBefore", "prepare", "accessAfter", "begin", "accessBatch",
             "persist", "accessFinal", "finalize", "returned"}
  /\ cause \in {"ok", "cancelled", "source-access-changed", "persistence-failure"}
  /\ prepared \in [batches : 0..NBatch, failed : 0..MaxFailed]
  /\ next \in 1..(NBatch + 1)
  /\ aborted \in BOOLEAN /\ fenced \in BOOLEAN /\ approved \in BOOLEAN
  /\ changes \in 0..MaxChange
  /\ run \in [status : {"absent", "running"} \cup Terminal, counts : Counters]
  /\ stored \subseteq 1..NBatch
  /\ late \in Nat
  /\ result \in [kind : {"none", "counters", "failed", "cancelled",
                         "FINALIZATION_FAILURE"}, counters : Counters]

JobInit ==
  /\ pc = "accessBefore"
  /\ cause = "ok"
  /\ prepared = [batches |-> 0, failed |-> 0]
  /\ next = 1
  /\ aborted = FALSE /\ fenced = TRUE
  /\ approved \in BOOLEAN
  /\ changes = 0
  /\ run = [status |-> "absent", counts |-> NoCounters]
  /\ stored = {}
  /\ late = 0
  /\ result = NoResult

-----------------------------------------------------------------------------
(* A ...Mutant is a deliberate error in the definition after it.           *)

Return(r) == pc' = "returned" /\ result' = r
Goto(p) == pc' = p /\ UNCHANGED result

(* failedWithoutEvidence, or WorkerCancelledError once the signal is set.  *)
JobGiveUp == Return(Result(IF aborted THEN "cancelled" ELSE "failed", NoCounters))

FinalizeAs(c) == cause' = c /\ Goto("finalize")

(* The checks before and after prepare(), while there is no run.           *)
AccessBefore ==
  /\ pc \in {"accessBefore", "accessAfter"}
  /\ approved /\ ~aborted
  /\ Goto(IF pc = "accessBefore" THEN "prepare" ELSE "begin")
  /\ UNCHANGED <<cause, prepared, next, world, run, stored, late>>

(* A recheck that is refused, or cannot be asked, or a set signal.         *)
AccessRefused ==
  /\ pc \in {"accessBefore", "accessAfter"}
  /\ JobGiveUp
  /\ UNCHANGED <<cause, prepared, next, world, run, stored, late>>

Prepare ==
  /\ pc = "prepare"
  /\ ~aborted
  /\ \E b \in 0..NBatch, f \in 0..MaxFailed :
       prepared' = [batches |-> b, failed |-> f]
  /\ Goto("accessAfter")
  /\ UNCHANGED <<cause, next, world, run, stored, late>>

(* Nothing usable was fetched, an access check in between failed, or the   *)
(* signal is set.                                                          *)
PrepareFails ==
  /\ pc = "prepare"
  /\ JobGiveUp
  /\ UNCHANGED <<cause, prepared, next, world, run, stored, late>>

(* A repository call commits under its fence.  Its answer may be lost; and *)
(* a signal that is set during the call may come too late to stop it.      *)
BeginRun ==
  /\ pc = "begin" /\ fenced
  /\ run' = [run EXCEPT !.status = "running"]
  /\ Goto("accessBatch") \/ JobGiveUp
  /\ UNCHANGED <<cause, prepared, next, world, stored, late>>

BeginFails ==
  /\ pc = "begin"
  /\ JobGiveUp
  /\ UNCHANGED <<cause, prepared, next, world, run, stored, late>>

(* persistInBatches: cancellation, then access, then the batch.            *)
LoopOver == next > prepared.batches
FirstBatchOnlyMutant == approved \/ next > 1
Recheck == approved

AccessBatch ==
  /\ pc = "accessBatch"
  /\ \/ aborted /\ FinalizeAs("cancelled")
     \/ ~aborted /\ LoopOver /\ Goto("accessFinal") /\ UNCHANGED cause
     \/ ~aborted /\ ~LoopOver /\ Recheck /\ Goto("persist") /\ UNCHANGED cause
     \/ ~aborted /\ ~LoopOver /\ FinalizeAs("source-access-changed")
  /\ UNCHANGED <<prepared, next, world, run, stored, late>>

PersistFailed ==
  FinalizeAs(IF aborted THEN "cancelled" ELSE "persistence-failure")

Persist ==
  /\ pc = "persist" /\ fenced
  /\ stored' = stored \cup {next}
  /\ late' = IF approved THEN late ELSE late + 1
  /\ \/ next' = next + 1 /\ Goto("accessBatch") /\ UNCHANGED cause
     \/ UNCHANGED next /\ PersistFailed   \* the answer is lost
  /\ UNCHANGED <<prepared, world, run>>

PersistFails ==
  /\ pc = "persist"
  /\ PersistFailed
  /\ UNCHANGED <<prepared, next, world, run, stored, late>>

AccessFinal ==
  /\ pc = "accessFinal"
  /\ \/ approved /\ ~aborted /\ FinalizeAs("ok")
     \/ FinalizeAs(IF aborted THEN "cancelled" ELSE "source-access-changed")
  /\ UNCHANGED <<prepared, next, world, run, stored, late>>

-----------------------------------------------------------------------------
(* finalizeNonCompletedRun and the completing finalizeRun.                 *)

FinalStatus ==
  CASE cause = "cancelled" -> "cancelled"
    [] cause = "ok" /\ prepared.failed = 0 -> "completed"
    [] OTHER -> "degraded"

FinalFailed ==
  IF cause \in {"ok", "cancelled"} THEN prepared.failed ELSE prepared.failed + 1

(* The repository counts the outcomes it holds, not the answers it gave.   *)
AnsweredMutant == [persisted |-> next - 1, failed |-> FinalFailed]
FinalCounts == [persisted |-> Cardinality(stored), failed |-> FinalFailed]

Finalized(c) == Return(Result(IF cause = "cancelled" THEN "cancelled" ELSE "counters", c))

FinalizationFailed ==
  Return(Result(IF aborted \/ cause = "cancelled" THEN "cancelled"
                  ELSE "FINALIZATION_FAILURE", NoCounters))

Finalize ==
  /\ pc = "finalize" /\ fenced
  /\ run' = [status |-> FinalStatus, counts |-> FinalCounts]
  /\ Finalized(FinalCounts) \/ FinalizationFailed
  /\ UNCHANGED <<cause, prepared, next, world, stored, late>>

FinalizeFails ==
  /\ pc = "finalize"
  /\ FinalizationFailed
  /\ UNCHANGED <<cause, prepared, next, world, run, stored, late>>

-----------------------------------------------------------------------------
(* What happens to the job from outside.                                   *)

Working == pc # "returned"
handler == <<pc, cause, prepared, next, run, stored, result>>

(* Timeout, shutdown or a lost lease.                                      *)
Abort ==
  /\ Working /\ ~aborted
  /\ aborted' = TRUE
  /\ UNCHANGED <<handler, late, fenced, approved, changes>>

LoseFence ==
  /\ Working /\ fenced
  /\ fenced' = FALSE
  /\ UNCHANGED <<handler, late, aborted, approved, changes>>

ChangeAccess ==
  /\ Working /\ changes < MaxChange
  /\ approved' = ~approved
  /\ changes' = changes + 1
  /\ late' = 0
  /\ UNCHANGED <<handler, aborted, fenced>>

Handler ==
  \/ AccessBefore \/ AccessRefused \/ Prepare \/ PrepareFails
  \/ BeginRun \/ BeginFails \/ AccessBatch \/ Persist \/ PersistFails
  \/ AccessFinal \/ Finalize \/ FinalizeFails

JobNext == Handler \/ Abort \/ LoseFence \/ ChangeAccess

JobSpec == JobInit /\ [][JobNext]_jobVars

-----------------------------------------------------------------------------
(* Properties.                                                             *)

(* Readers trust only completed runs (docs/runbooks/worker.md:166): such a *)
(* run holds every batch that was prepared, none of its source calls       *)
(* failed, and its counters say so, however answers were lost on the way   *)
(* (createExecutor 793-815).                                               *)
CompletedMeansWhole ==
  run.status = "completed" =>
    /\ stored = 1..prepared.batches
    /\ prepared.failed = 0
    /\ run.counts = [persisted |-> prepared.batches, failed |-> 0]

(* "returns only persisted counters" (kassalapp-handlers.test.ts:1140,     *)
(* 1257): counters that reach the runner are those of a run that ended, of *)
(* the status the result implies, and count what the database holds even   *)
(* when the answer to a batch was lost.                                    *)
ReportedCountersAreStored ==
  result.counters # NoCounters \/ result.kind = "counters" =>
    /\ run.status \in Terminal
    /\ (result.kind = "cancelled") <=> (run.status = "cancelled")
    /\ result.counters = run.counts
    /\ result.counters.persisted = Cardinality(stored)

(* "rechecks access between 25-row persistence transactions and stops on   *)
(* revocation" (kassalapp-handlers.test.ts:1070): after access has been    *)
(* withdrawn at most the batch already under way is committed, and that    *)
(* run never completes unless access came back.                            *)
RevocationStopsWithinABatch == late <= 1

=============================================================================
