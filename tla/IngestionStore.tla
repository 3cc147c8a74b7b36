--------------------------- MODULE IngestionStore ---------------------------
(***************************************************************************)
(* The ingestion repository (packages/db/src/ingestion.ts): the runs, the  *)
(* audited outcomes of each upstream record, and the canonical products    *)
(* that catalog and price batches create, activate and correct.            *)
(*                                                                         *)
(* Every operation is a database transaction that checks its fence, locks  *)
(* its run FOR UPDATE, then the governance advisory lock of its source,    *)
(* then the advisory lock of each GTIN in order, reads, writes, checks the *)
(* fence again and commits.  The second check holds the lease row until    *)
(* the commit (WorkerLease proves that no takeover fits in between), so    *)
(* here the check and the commit are one step.  A product record and the   *)
(* GTIN it is about correspond one to one; the fields of a product are     *)
(* represented by the upstream version they were copied from, 0 for the    *)
(* placeholder of a product that only a price has mentioned.               *)
(***************************************************************************)
EXTENDS Naturals, FiniteSets

CONSTANTS
  Session,    \* database sessions
  NoSession,  \* the run of an idle session
  Source,     \* data sources
  Run,        \* ingestion runs, each with its own job id
  NGtin,      \* GTINs are 1..NGtin; the sort order of the batch is their order
  Dated,      \* sources whose records carry sourceUpdatedAt
  Setting     \* what the runs are about and the bounds, one record per behaviour

Gtin == 1..NGtin

ASSUME StoreAssumption ==
  /\ NGtin \in Nat
  /\ Dated \subseteq Source
  /\ NoSession \notin Run
  /\ \A x \in Setting :
       /\ x.source \in [Run -> Source]                  \* the source of each run
       /\ x.type \in [Run -> {"catalog", "prices"}]
       /\ x.gtins \subseteq Gtin                        \* the GTINs of the records
       /\ x.retired \subseteq Gtin  \* whose canonical product an operator has retired
       /\ x.reviewed \subseteq Source  \* bound: whose permission varies
       /\ x.versions \in Nat                            \* bound on upstream versions
       /\ x.gens \in Nat                                \* bound on lease generations
       /\ x.ends \subseteq {"completed", "degraded", "cancelled"}  \* bound: how runs end

VARIABLES
  setting,     \* the element of Setting that holds
  gen,         \* the lease generation that is current for each source
  governance,  \* what data_sources and source_permissions say of each source
  upstream,    \* the version the source currently publishes
  run,         \* ingestion_runs
  outcome,     \* source_record_outcomes, with the evidence rows they imply
  canonical,   \* canonical_products by GTIN
  session,     \* the transaction of each session
  written      \* history: the version each source last put in a product

vars == <<setting, gen, governance, upstream, run, outcome, canonical, session, written>>

SourceOf == setting.source
TypeOf == setting.type

Terminal == {"completed", "degraded", "cancelled"}
States == {"accepted", "quarantined", "unknown"}
Tally == [States -> Nat]

RunRow ==
  [status : {"absent", "running"} \cup Terminal,
   fence : Nat,       \* the generation whose token the handle carries
   job : BOOLEAN,     \* its job is still working
   version : Nat,     \* the upstream version that was fetched
   fetched : [Gtin -> {"accepted", "unknown"}],
   counts : Tally]

Product == [status : {"absent", "quarantined", "active", "retired"}, fields : Nat]

Transaction ==
  [run : Run \cup {NoSession},
   phase : {"idle", "run", "source", "gtin", "read", "count", "commit"},
   batch : SUBSET Gtin,
   toLock : SUBSET Gtin,             \* GTIN locks not taken yet
   approved : BOOLEAN,               \* sourceAllowsCapabilities
   seen : [Gtin -> Product],         \* the products the batch has read
   target : Terminal \cup {"running"}, \* of a finalization
   tally : Tally]                    \* what a finalization counted

NoTally == [x \in States |-> 0]
Absent == [status |-> "absent", fields |-> 0]
Idle ==
  [run |-> NoSession, phase |-> "idle", batch |-> {}, toLock |-> {},
   approved |-> FALSE, seen |-> [g \in Gtin |-> Absent], target |-> "running",
   tally |-> NoTally]

TypeOK ==
  /\ setting \in Setting
  /\ gen \in [Source -> Nat]
  /\ governance \in [Source -> {"approved", "revoked", "expired"}]
  /\ upstream \in [Source -> Nat]
  /\ run \in [Run -> RunRow]
  /\ outcome \in [Run -> [Gtin -> States \cup {"none"}]]
  /\ canonical \in [Gtin -> Product]
  /\ session \in [Session -> Transaction]
  /\ written \in [Source -> [Gtin -> Nat]]

Init ==
  /\ setting \in Setting
  /\ gen = [c \in Source |-> 1]
  /\ governance \in {f \in [Source -> {"approved", "revoked"}] :
                       \A c \in Source \ setting.reviewed : f[c] = "approved"}
  /\ upstream = [c \in Source |-> 1]
  /\ run = [r \in Run |-> [status |-> "absent", fence |-> 0, job |-> FALSE, version |-> 0,
                           fetched |-> [g \in Gtin |-> "unknown"],
                           counts |-> NoTally]]
  /\ outcome = [r \in Run |-> [g \in Gtin |-> "none"]]
  /\ canonical = [g \in Gtin |-> IF g \in setting.retired
                                   THEN [status |-> "retired", fields |-> 1]
                                   ELSE Absent]
  /\ session = [s \in Session |-> Idle]
  /\ written = [c \in Source |-> [g \in Gtin |-> 0]]

-----------------------------------------------------------------------------
(* Locks, held from the statement that takes them until the transaction    *)
(* ends.  A ...Mutant is a deliberate error in the definition after it.    *)

RunOf(s) == session[s].run
SourceOfTx(s) == SourceOf[RunOf(s)]
IsCatalog(r) == TypeOf[r] = "catalog"
AcceptedIn(r, batch) == {g \in batch : run[r].fetched[g] = "accepted"}

(* The GTINs a batch locks, resolves and may change: every subject of a    *)
(* price batch, the accepted records of a catalog batch.                   *)
Subjects(s) ==
  IF IsCatalog(RunOf(s)) THEN AcceptedIn(RunOf(s), session[s].batch)
                         ELSE session[s].batch

(* A catalog batch with nothing accepted takes no governance lock.         *)
Governed(r, batch) == IsCatalog(r) => AcceptedIn(r, batch) # {}

HoldsRun(s, r) == RunOf(s) = r /\ session[s].phase \notin {"idle", "run"}
HoldsSource(s, c) ==
  /\ session[s].phase \in {"gtin", "read", "commit"}
  /\ session[s].target = "running"
  /\ Governed(RunOf(s), session[s].batch)
  /\ SourceOfTx(s) = c
HoldsGtin(s, g) ==
  /\ session[s].phase \in {"gtin", "read", "commit"}
  /\ session[s].approved
  /\ g \in Subjects(s) \ session[s].toLock

NoRowLockMutant(r) == TRUE
RunLockFree(r) == \A s \in Session : ~HoldsRun(s, r)
UngovernedMutant(c) == TRUE
SourceLockFree(c) == \A s \in Session : ~HoldsSource(s, c)
UnlockedGtinMutant(g) == TRUE
GtinLockFree(g) == \A s \in Session : ~HoldsGtin(s, g)

(* The locks are taken in sorted order, whatever the order of the batch.   *)
UnsortedMutant(s) == session[s].toLock
NextGtin(s) == {g \in session[s].toLock : \A h \in session[s].toLock : g <= h}

UnfencedMutant(r) == TRUE
Fenced(r) == run[r].fence = gen[SourceOf[r]]

-----------------------------------------------------------------------------
(* Runs.                                                                   *)

(* prepare() fetches under the job's token, then beginRun inserts the row; *)
(* a takeover in between leaves no run.  One worker process works for one  *)
(* generation of a lease, and runs its jobs one after the other.           *)
BeginRun(r) ==
  /\ run[r].status = "absent"
  /\ \A q \in Run : run[q].job /\ SourceOf[q] = SourceOf[r] =>
                    run[q].fence # gen[SourceOf[r]]
  /\ \E known \in SUBSET setting.gtins :
       run' = [run EXCEPT ![r] =
         [@ EXCEPT !.status = "running", !.fence = gen[SourceOf[r]], !.job = TRUE,
                   !.version = upstream[SourceOf[r]],
                   !.fetched = [g \in Gtin |-> IF g \in known THEN "accepted"
                                                             ELSE "unknown"]]]
  /\ UNCHANGED <<gen, governance, upstream, outcome, canonical, session, written>>

(* The job returns, with its run finalized or not.  A statement it has     *)
(* sent outlives it only as a COMMIT whose answer was lost.                *)
EndJob(r) ==
  /\ run[r].job
  /\ \A s \in Session : RunOf(s) = r => session[s].phase = "commit"
  /\ run' = [run EXCEPT ![r].job = FALSE]
  /\ UNCHANGED <<gen, governance, upstream, outcome, canonical, session, written>>

Open(s, r, batch, target) ==
  /\ session[s] = Idle
  /\ run[r].job
  /\ Fenced(r)   \* verifyFence "initial", without a lock
  /\ session' = [session EXCEPT ![s] =
       [Idle EXCEPT !.run = r, !.phase = "run", !.batch = batch, !.target = target]]
  /\ UNCHANGED <<gen, governance, upstream, run, outcome, canonical, written>>

(* persistCatalogOutcomes and persistPriceOutcomes; a caller that lost an  *)
(* answer may send a batch again.                                          *)
Persist(s, r) ==
  \E batch \in (SUBSET setting.gtins) \ {{}} : Open(s, r, batch, "running")

Finalize(s, r) == \E t \in setting.ends : Open(s, r, {}, t)

Step(s, p) == session' = [session EXCEPT ![s] = p]
Close(s) == Step(s, Idle)

(* lockRun: the row is read under its lock; a persistence refuses a run    *)
(* that is not running, a finalization one that ended differently.         *)
LockRun(s) ==
  LET p == session[s]
      status == run[p.run].status
  IN /\ p.phase = "run"
     /\ RunLockFree(p.run)
     /\ CASE p.target = "running" /\ status = "running" ->
               Step(s, [p EXCEPT !.phase = IF Governed(p.run, p.batch)
                                             THEN "source" ELSE "read"])
          [] p.target # "running" /\ status = "running" ->
               Step(s, [p EXCEPT !.phase = "count"])
          [] OTHER -> Close(s)   \* the same terminal status again, or an error
     /\ UNCHANGED <<gen, governance, upstream, run, outcome, canonical, written>>

(* lockSourceGovernance and sourceAllowsCapabilities.                      *)
LockSource(s) ==
  LET p == session[s]
      approved == governance[SourceOfTx(s)] = "approved"
  IN /\ p.phase = "source"
     /\ SourceLockFree(SourceOfTx(s))
     /\ Step(s, [p EXCEPT !.approved = approved,
                          !.phase = IF approved THEN "gtin" ELSE "read",
                          !.toLock = IF approved THEN Subjects(s) ELSE {}])
     /\ UNCHANGED <<gen, governance, upstream, run, outcome, canonical, written>>

(* lockProductGtins, one lock at a time.                                   *)
LockGtin(s) ==
  /\ session[s].phase = "gtin"
  /\ \E g \in NextGtin(s) :
       /\ GtinLockFree(g)
       /\ LET rest == session[s].toLock \ {g} IN
          Step(s, [session[s] EXCEPT !.toLock = rest,
                                     !.phase = IF rest = {} THEN "read" ELSE "gtin"])
  /\ UNCHANGED <<gen, governance, upstream, run, outcome, canonical, written>>

(* resolveProductByGtin reads the canonical products of the batch.         *)
Resolve(s) ==
  /\ session[s].phase = "read"
  /\ Step(s, [session[s] EXCEPT !.phase = "commit",
                !.seen = [g \in Gtin |-> IF g \in session[s].batch
                                           THEN canonical[g] ELSE Absent]])
  /\ UNCHANGED <<gen, governance, upstream, run, outcome, canonical, written>>

-----------------------------------------------------------------------------
(* What a batch does to the record about g, from what it has seen.         *)

(* sourceUpdatedAt of the latest observation in a completed run.           *)
PriorVersions(c, g) ==
  {run[r].version : r \in {q \in Run : SourceOf[q] = c /\ IsCatalog(q)
                             /\ run[q].status = "completed"
                             /\ outcome[q][g] = "accepted"}}

(* source_products links the record to the product from the first accepted *)
(* catalog record on, whatever became of its run.                          *)
Matched(c, g) ==
  \E r \in Run : SourceOf[r] = c /\ IsCatalog(r) /\ outcome[r][g] = "accepted"

MayCorrect(s, g) ==
  /\ Matched(SourceOfTx(s), g)
  /\ SourceOfTx(s) \in Dated
  /\ \A v \in PriorVersions(SourceOfTx(s), g) : v < run[RunOf(s)].version

(* catalogCanonicalMutationDecision, for an approved source.               *)
Decision(s, g) ==
  LET product == session[s].seen[g] IN
  CASE product.status = "absent" -> "create"
    [] product.status = "retired" -> "review"
    [] product.status = "quarantined" -> "activate"
    [] product.fields = run[RunOf(s)].version -> "none"
    [] MayCorrect(s, g) -> "correct"
    [] OTHER -> "review"

Outcome(s, g) ==
  CASE run[RunOf(s)].fetched[g] = "unknown" -> "unknown"
    [] ~session[s].approved -> "quarantined"
    [] IsCatalog(RunOf(s)) /\ Decision(s, g) = "review" -> "quarantined"
    [] OTHER -> "accepted"

Writes(s, g) ==
  /\ session[s].approved /\ g \in Subjects(s) /\ IsCatalog(RunOf(s))
  /\ Decision(s, g) \in {"create", "activate", "correct"}

NewProduct(s, g) ==
  CASE Writes(s, g) -> [status |-> "active", fields |-> run[RunOf(s)].version]
    [] session[s].approved /\ g \in Subjects(s) /\ ~IsCatalog(RunOf(s))
         /\ session[s].seen[g] = Absent -> [status |-> "quarantined", fields |-> 0]
    [] OTHER -> canonical[g]

(* A record that was audited before must come out the same again.          *)
Conflicts(s) ==
  \E g \in session[s].batch :
    outcome[RunOf(s)][g] \notin {"none", Outcome(s, g)}

CommitBatch(s) ==
  LET p == session[s] IN
  /\ p.phase = "commit" /\ p.target = "running"
  /\ Fenced(p.run)   \* verifyFence "before-commit"
  /\ ~Conflicts(s)
  /\ outcome' = [outcome EXCEPT ![p.run] =
                   [g \in Gtin |-> IF g \in p.batch THEN Outcome(s, g) ELSE @[g]]]
  /\ canonical' = [g \in Gtin |-> NewProduct(s, g)]
  /\ written' = [written EXCEPT ![SourceOf[p.run]] =
                   [g \in Gtin |-> IF Writes(s, g) THEN run[p.run].version ELSE @[g]]]
  /\ Close(s)
  /\ UNCHANGED <<gen, governance, upstream, run>>

(* finalizeRun reconstructs the counters from the audited outcomes.        *)
Reconstruct(r) == [x \in States |-> Cardinality({g \in Gtin : outcome[r][g] = x})]

Count(s) ==
  /\ session[s].phase = "count"
  /\ Step(s, [session[s] EXCEPT !.phase = "commit", !.tally = Reconstruct(RunOf(s))])
  /\ UNCHANGED <<gen, governance, upstream, run, outcome, canonical, written>>

CommitFinal(s) ==
  LET p == session[s] IN
  /\ p.phase = "commit" /\ p.target # "running"
  /\ Fenced(p.run)
  /\ run' = [run EXCEPT ![p.run].status = p.target, ![p.run].counts = p.tally]
  /\ Close(s)
  /\ UNCHANGED <<gen, governance, upstream, outcome, canonical, written>>

(* A conflict, a lost fence, a cancelled signal, a lock timeout or a lost  *)
(* connection rolls the transaction back.                                  *)
Abort(s) ==
  /\ session[s].phase # "idle"
  /\ Close(s)
  /\ UNCHANGED <<gen, governance, upstream, run, outcome, canonical, written>>

-----------------------------------------------------------------------------
(* What happens around the repository.                                     *)

Takeover(c) ==
  /\ gen[c] < setting.gens
  /\ gen' = [gen EXCEPT ![c] = @ + 1]
  /\ UNCHANGED <<governance, upstream, run, outcome, canonical, session, written>>

(* Triggers on data_sources and source_permissions take the same advisory  *)
(* lock before a decision changes.                                         *)
SetGovernance(c) ==
  /\ c \in setting.reviewed
  /\ SourceLockFree(c)
  /\ \E d \in {"approved", "revoked"} \ {governance[c]} :
       governance' = [governance EXCEPT ![c] = d]
  /\ UNCHANGED <<gen, upstream, run, outcome, canonical, session, written>>

(* permission_expires_at passes: nobody takes a lock for that.             *)
Expire(c) ==
  /\ c \in setting.reviewed
  /\ governance[c] = "approved"
  /\ governance' = [governance EXCEPT ![c] = "expired"]
  /\ UNCHANGED <<gen, upstream, run, outcome, canonical, session, written>>

Publish(c) ==
  /\ upstream[c] < setting.versions
  /\ upstream' = [upstream EXCEPT ![c] = @ + 1]
  /\ UNCHANGED <<gen, governance, run, outcome, canonical, session, written>>

Next ==
  /\ UNCHANGED setting
  /\ \/ \E r \in Run : BeginRun(r) \/ EndJob(r)
     \/ \E s \in Session, r \in Run : Persist(s, r) \/ Finalize(s, r)
     \/ \E s \in Session :
          \/ LockRun(s) \/ LockSource(s) \/ LockGtin(s) \/ Resolve(s) \/ Count(s)
          \/ CommitBatch(s) \/ CommitFinal(s) \/ Abort(s)
     \/ \E c \in {SourceOf[r] : r \in Run} :
          Takeover(c) \/ SetGovernance(c) \/ Expire(c) \/ Publish(c)

Spec == Init /\ [][Next]_vars

-----------------------------------------------------------------------------
(* Properties.                                                             *)

(* s waits for t: the lock its next statement asks for is held by t.       *)
WaitsFor(s, t) ==
  /\ s # t
  /\ \/ session[s].phase = "run" /\ HoldsRun(t, RunOf(s))
     \/ session[s].phase = "source" /\ HoldsSource(t, SourceOfTx(s))
     \/ /\ session[s].phase = "gtin"
        /\ \A g \in NextGtin(s) : HoldsGtin(t, g)

(* "That gives same-source and cross-source catalog writers one canonical  *)
(* lock order even when their input batches are reversed"                  *)
(* (ingestion.ts:978-983): no set of transactions waits on itself.         *)
NoLockCycle ==
  \A W \in (SUBSET Session) \ {{}} :
    \E s \in W : \A t \in W : ~WaitsFor(s, t)

(* A batch decides from what it has read; when it commits, nobody has      *)
(* changed those products since, so no product is created twice and no     *)
(* decision is made about a product that looks different by now            *)
(* (resolveProductByGtin and its GTIN lock).                               *)
ResolutionIsCurrent ==
  \A s \in Session :
    session[s].phase = "commit" /\ session[s].approved =>
      \A g \in Subjects(s) : session[s].seen[g] = canonical[g]

(* The counters stored with a terminal run are those of its outcomes: no   *)
(* batch lands after, or while, finalizeRun counts (withRunningRun).       *)
CountsMatchOutcomes ==
  \A r \in Run : run[r].status \in Terminal => run[r].counts = Reconstruct(r)

(* "A governance change that won the outer source lock leaves only an      *)
(* append-only review outcome" (ingestion.ts:1000-1003): once a source is  *)
(* revoked no record of it becomes accepted and none of its batches        *)
(* changes a product, however long ago that batch read the approval.       *)
NothingAcceptedAfterRevocation ==
  [][\A r \in Run, g \in Gtin :
       governance[SourceOf[r]] = "revoked" =>
         /\ outcome[r][g] # "accepted" => outcome'[r][g] # "accepted"
         /\ written'[SourceOf[r]][g] = written[SourceOf[r]][g]]_vars

(* A source never puts an older version of a record over a newer one of    *)
(* its own, although corrections are compared with completed runs only:    *)
(* a run that fetched before a takeover cannot write after its successor   *)
(* (resolveProductByGtin 1479-1512 with the fence).                        *)
CorrectionsMoveForward ==
  [][\A c \in Source, g \in Gtin : written'[c][g] >= written[c][g]]_vars

=============================================================================
