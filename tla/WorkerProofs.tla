---------------------------- MODULE WorkerProofs ----------------------------
(***************************************************************************)
(* Theorems about two parts of the worker that meet in the fence token.    *)
(*                                                                         *)
(* WorkerLease, for every set of processes and sessions, every lifetime    *)
(* and every clock bound: the advisory lock serialises the claims, so the  *)
(* clock reading that becomes a generation is above every earlier one; the *)
(* row lock of a fenced transaction keeps its generation current until it  *)
(* commits; hence commits follow the order of the generations.             *)
(*                                                                         *)
(* KassalappExecutor, for every number of batches, of failed source calls  *)
(* and of access decisions: while the loop runs, the stored batches are    *)
(* exactly those before the index; the loop ends at the index after the    *)
(* last batch; so a run finalized for the cause "ok" has them all, and the *)
(* counters are counted from what is stored.  A batch is only begun with   *)
(* access, and every change of access starts the count of late batches     *)
(* anew.                                                                   *)
(***************************************************************************)
EXTENDS WorkerLease, KassalappExecutor, FiniteSetTheorems, TLAPS

(* Each lock has one holder. *)
LocksExclusive ==
  \A r, s \in Session :
    \/ r = s
    \/ /\ ~(session[r].phase = "locked" /\ session[s].phase = "locked")
       /\ ~(session[r].phase = "fenced" /\ session[s].phase = "fenced")

(* Generations are past clock readings, the row carries the newest one or
   is absent, and nothing later than it was committed. *)
GenerationsOrdered ==
  /\ issued < clock
  /\ lease.gen \in {0, issued}
  /\ lastCommitted <= issued

(* The claim that holds the advisory lock will store a new generation. *)
ClaimIsFresh ==
  \A s \in Session :
    session[s].phase = "locked" /\ session[s].kind = "claim" =>
      issued < session[s].t /\ session[s].t < clock

(* Tokens in use were issued. *)
TokensIssued ==
  /\ \A s \in Session : session[s].gen <= issued
  /\ \A o \in Owner : handle[o].gen <= issued

(* A release in flight is never for the generation its process still holds. *)
ReleasesArePast ==
  \A s \in Session : \A o \in Owner :
    session[s].kind = "release" /\ session[s].owner = o
      /\ handle[o].status = "held" => session[s].gen < handle[o].gen

Inv ==
  /\ TypeOK
  /\ LocksExclusive
  /\ GenerationsOrdered
  /\ ClaimIsFresh
  /\ FenceExcludesSuccessor
  /\ TokensIssued
  /\ ReleasesArePast
  /\ HeldUntilSuperseded

-----------------------------------------------------------------------------
(* The values a session and a handle are given are well typed. *)
LEMMA WorkValues ==
  /\ Idle \in Work
  /\ \A k \in LeaseKinds, o \in Owner, g \in Nat : Request(k, o, g) \in Work
BY DEF Work, Idle, Request, LeaseKinds

LEMMA HandleValues ==
  /\ [status |-> "none", gen |-> 0] \in Handle
  /\ \A g \in Nat : [status |-> "held", gen |-> g] \in Handle
  /\ \A h \in Handle : Aborted(h) \in Handle
  /\ \A h \in Handle, v \in {"none", "acquiring", "releasing"} :
       [h EXCEPT !.status = v] \in Handle
BY DEF Handle, Aborted

(* Typing, one action at a time. *)
LEMMA Typing == TypeOK /\ [Next]_vars => TypeOK'
<1> SUFFICES ASSUME TypeOK, [Next]_vars
             PROVE  TypeOK'
  OBVIOUS
<1> USE WorkValues, HandleValues DEF TypeOK
<1>t. \A s \in Session : session[s].t \in Nat /\ session[s].gen \in Nat
                          /\ session[s].owner \in Owner \cup {NoOwner}
  BY DEF Work
<1>g. \A o \in Owner : handle[o].gen \in Nat
  BY DEF Handle
<1>1. CASE Tick
  BY <1>1 DEF Tick
<1>2. ASSUME NEW o \in Owner, BeginRelease(o)
      PROVE  TypeOK'
  BY <1>2 DEF BeginRelease
<1>3. ASSUME NEW o \in Owner, Crash(o)
      PROVE  TypeOK'
  BY <1>3 DEF Crash, Work
<1>4. ASSUME NEW o \in Owner, NEW s \in Session, Acquire(o, s)
      PROVE  TypeOK'
  BY <1>4 DEF Acquire, Start, LeaseKinds
<1>5. ASSUME NEW o \in Owner, NEW s \in Session, Heartbeat(o, s)
      PROVE  TypeOK'
  BY <1>5, <1>g DEF Heartbeat, Start, LeaseKinds
<1>6. ASSUME NEW o \in Owner, NEW s \in Session, SendRelease(o, s)
      PROVE  TypeOK'
  BY <1>6, <1>g DEF SendRelease, Start, LeaseKinds
<1>7. ASSUME NEW o \in Owner, NEW s \in Session, BeginFenced(o, s)
      PROVE  TypeOK'
  BY <1>7, <1>g DEF BeginFenced, Start, Work
<1>8. ASSUME NEW s \in Session, GiveUp(s)
      PROVE  TypeOK'
  BY <1>8 DEF GiveUp, Work
<1>9. ASSUME NEW s \in Session, Enter(s)
      PROVE  TypeOK'
  <2>1. [session[s] EXCEPT !.phase = "locked", !.t = clock] \in Work
    BY DEF Work
  <2>2. session' \in [Session -> Work]
    BY <1>9, <2>1 DEF Enter
  <2>3. clock' \in Nat
    BY <1>9 DEF Enter
  <2> QED
    BY <1>9, <2>2, <2>3 DEF Enter
<1>10. ASSUME NEW s \in Session, ClaimGranted(s)
       PROVE  TypeOK'
  <2>1. lease' \in Row
    <3>1. session[s].t \in Nat /\ session[s].t + Ttl \in Nat
      BY <1>t, LeaseAssumption
    <3> QED
      BY <1>10, <1>t, <3>1 DEF ClaimGranted, Row
  <2> QED
    BY <1>10, <1>t, <2>1 DEF ClaimGranted, Finish
<1>11. ASSUME NEW s \in Session, ClaimRefused(s)
       PROVE  TypeOK'
  BY <1>11 DEF ClaimRefused, Finish
<1>12. ASSUME NEW s \in Session, Renew(s)
       PROVE  TypeOK'
  <2>1. lease' \in Row
    <3>1. session[s].t + Ttl \in Nat
      BY <1>t, LeaseAssumption
    <3>2. [lease EXCEPT !.expires = session[s].t + Ttl] \in Row
      BY <3>1 DEF Row
    <3> QED
      BY <1>12, <3>2 DEF Renew
  <2>2. handle' \in [Owner -> Handle]
    BY <1>12 DEF Renew
  <2> QED
    BY <1>12, <2>1, <2>2 DEF Renew, Finish
<1>13. ASSUME NEW s \in Session, Release(s)
       PROVE  TypeOK'
  BY <1>13 DEF Release, Finish, Row, NoRow
<1>14. ASSUME NEW s \in Session,
              Cancelled(s) \/ Commit(s) \/ Rollback(s)
       PROVE  TypeOK'
  BY <1>14, <1>t DEF Cancelled, Commit, Rollback, Finish
<1>15. ASSUME NEW s \in Session,
              VerifyInitial(s) \/ GrantFence(s)
       PROVE  TypeOK'
  <2>1. \A p \in {"working", "fenced"} : [session[s] EXCEPT !.phase = p] \in Work
    BY DEF Work
  <2> QED
    BY <1>15, <2>1 DEF VerifyInitial, GrantFence
<1>16. ASSUME NEW s \in Session, RequestFence(s)
       PROVE  TypeOK'
  <2>1. [session[s] EXCEPT !.phase = "fencing", !.t = clock] \in Work
    BY DEF Work
  <2> QED
    BY <1>16, <2>1 DEF RequestFence
<1>17. CASE UNCHANGED vars
  BY <1>17 DEF vars
<1> QED
  BY <1>1, <1>2, <1>3, <1>4, <1>5, <1>6, <1>7, <1>8, <1>9, <1>10, <1>11,
     <1>12, <1>13, <1>14, <1>15, <1>16, <1>17 DEF Next

(* Every step keeps the invariant. *)
LEMMA Inductive == Inv /\ [Next]_vars => Inv'
<1> SUFFICES ASSUME Inv, [Next]_vars
             PROVE  Inv'
  OBVIOUS
<1>y. TypeOK'
  BY Typing DEF Inv
<1>t. /\ clock \in Nat /\ issued \in Nat /\ lastCommitted \in Nat
      /\ lease.gen \in Nat /\ lease.expires \in Nat
      /\ \A s \in Session : session[s].t \in Nat /\ session[s].gen \in Nat
      /\ \A o \in Owner : handle[o].gen \in Nat
      /\ session \in [Session -> Work] /\ handle \in [Owner -> Handle]
  BY DEF Inv, TypeOK, Work, Handle, Row
<1> USE DEF Inv, LocksExclusive, GenerationsOrdered, ClaimIsFresh,
            FenceExcludesSuccessor, TokensIssued, ReleasesArePast,
            HeldUntilSuperseded
<1>1. CASE Tick
  BY <1>1, <1>y, <1>t DEF Tick
<1>2. ASSUME NEW o \in Owner, Crash(o)
      PROVE  Inv'
  BY <1>2, <1>y, <1>t DEF Crash
<1>3. ASSUME NEW o \in Owner, BeginRelease(o)
      PROVE  Inv'
  BY <1>3, <1>y, <1>t DEF BeginRelease
<1>4. ASSUME NEW o \in Owner, NEW s \in Session, Acquire(o, s)
      PROVE  Inv'
  BY <1>4, <1>y, <1>t DEF Acquire, Start, Request
<1>5. ASSUME NEW o \in Owner, NEW s \in Session, Heartbeat(o, s)
      PROVE  Inv'
  BY <1>5, <1>y, <1>t DEF Heartbeat, Start, Request
<1>6. ASSUME NEW o \in Owner, NEW s \in Session, SendRelease(o, s)
      PROVE  Inv'
  BY <1>6, <1>y, <1>t DEF SendRelease, Start, Request
<1>7. ASSUME NEW o \in Owner, NEW s \in Session, BeginFenced(o, s)
      PROVE  Inv'
  BY <1>7, <1>y, <1>t DEF BeginFenced, Start
<1>8. ASSUME NEW s \in Session, GiveUp(s)
      PROVE  Inv'
  BY <1>8, <1>y, <1>t DEF GiveUp, Aborted
<1>9. ASSUME NEW s \in Session, Enter(s)
      PROVE  Inv'
  BY <1>9, <1>y, <1>t DEF Enter, AdvisoryLockFree
<1>10. ASSUME NEW s \in Session, ClaimGranted(s)
       PROVE  Inv'
  BY <1>10, <1>y, <1>t DEF ClaimGranted, RowLockFree, Finish, Idle
<1>11. ASSUME NEW s \in Session, ClaimRefused(s)
       PROVE  Inv'
  BY <1>11, <1>y, <1>t DEF ClaimRefused, Finish, Idle
<1>12. ASSUME NEW s \in Session, Renew(s)
       PROVE  Inv'
  BY <1>12, <1>y, <1>t DEF Renew, Matches, Aborted, Finish, Idle
<1>13. ASSUME NEW s \in Session, Release(s)
       PROVE  Inv'
  BY <1>13, <1>y, <1>t DEF Release, Matches, RowLockFree, NoRow, Finish, Idle
<1>14. ASSUME NEW s \in Session, Cancelled(s)
       PROVE  Inv'
  BY <1>14, <1>y, <1>t DEF Cancelled, Finish, Idle
<1>15. ASSUME NEW s \in Session, VerifyInitial(s)
       PROVE  Inv'
  BY <1>15, <1>y, <1>t DEF VerifyInitial
<1>16. ASSUME NEW s \in Session, RequestFence(s)
       PROVE  Inv'
  BY <1>16, <1>y, <1>t DEF RequestFence
<1>17. ASSUME NEW s \in Session, GrantFence(s)
       PROVE  Inv'
  BY <1>17, <1>y, <1>t DEF GrantFence, RowLockFree, Matches
<1>18. ASSUME NEW s \in Session, Commit(s)
       PROVE  Inv'
  BY <1>18, <1>y, <1>t DEF Commit, Finish, Idle
<1>19. ASSUME NEW s \in Session, Rollback(s)
       PROVE  Inv'
  BY <1>19, <1>y, <1>t DEF Rollback, Finish, Idle
<1>20. CASE UNCHANGED vars
  BY <1>20, <1>y, <1>t DEF vars
<1> QED
  BY <1>1, <1>2, <1>3, <1>4, <1>5, <1>6, <1>7, <1>8, <1>9, <1>10, <1>11, <1>12, <1>13, <1>14, <1>15, <1>16, <1>17, <1>18, <1>19, <1>20
     DEF Next

LEMMA Initially == Init => Inv
BY DEF Init, Inv, TypeOK, Row, NoRow, Work, LeaseKinds, Idle, Handle,
       LocksExclusive, GenerationsOrdered, ClaimIsFresh, FenceExcludesSuccessor,
       TokensIssued, ReleasesArePast, HeldUntilSuperseded

(* The invariant above holds of every reachable state of the lease. *)
THEOREM Invariance == Spec => []Inv
BY Initially, Inductive, PTL DEF Spec

(* Every variable of the lease model keeps its type. *)
THEOREM TypeCorrect == Spec => []TypeOK
<1>1. Inv => TypeOK
  BY DEF Inv
<1> QED
  BY <1>1, Invariance, PTL

(* No successor is ever granted while a fenced transaction commits: the
   before-commit check of verifyFence is decisive. *)
THEOREM FenceSafety == Spec => []FenceExcludesSuccessor
<1>1. Inv => FenceExcludesSuccessor
  BY DEF Inv
<1> QED
  BY <1>1, Invariance, PTL

(* A process loses a lease it has not been told about only to a newer
   generation. *)
THEOREM HandleHonest == Spec => []HeldUntilSuperseded
<1>1. Inv => HeldUntilSuperseded
  BY DEF Inv
<1> QED
  BY <1>1, Invariance, PTL

-----------------------------------------------------------------------------
(* One step of the lease is one step of the fenced store, or none.         *)
LEMMA StepRefines == Inv /\ [Next]_vars => [Log!LogNext]_(Log!logVars)
<1> SUFFICES ASSUME Inv, [Next]_vars
             PROVE  [Log!LogNext]_(Log!logVars)
  OBVIOUS
<1>t. /\ issued \in Nat /\ lease.gen \in Nat
      /\ \A s \in Session : session[s].t \in Nat
  BY DEF Inv, TypeOK, Work, Row
<1>1. ASSUME NEW s \in Session, ClaimGranted(s)
      PROVE  Log!Grant
  BY <1>1, <1>t DEF Inv, ClaimIsFresh, ClaimGranted, Log!Grant
<1>2. ASSUME NEW s \in Session, Release(s)
      PROVE  Log!Revoke \/ UNCHANGED Log!logVars
  BY <1>2 DEF Release, NoRow, Log!Revoke, Log!logVars
<1>3. ASSUME NEW s \in Session, Renew(s)
      PROVE  UNCHANGED Log!logVars
  BY <1>3 DEF Inv, TypeOK, Row, Renew, Log!logVars
<1>4. ASSUME NEW s \in Session, Commit(s)
      PROVE  Log!Write
  BY <1>4 DEF Inv, FenceExcludesSuccessor, Commit, Log!Write
<1>5. ASSUME NEW s \in Session,
             \/ GiveUp(s) \/ Enter(s) \/ ClaimRefused(s) \/ Cancelled(s)
             \/ VerifyInitial(s) \/ RequestFence(s) \/ GrantFence(s) \/ Rollback(s)
      PROVE  UNCHANGED Log!logVars
  BY <1>5 DEF GiveUp, Enter, ClaimRefused, Cancelled, VerifyInitial,
              RequestFence, GrantFence, Rollback, Log!logVars
<1>6. ASSUME NEW o \in Owner, NEW s \in Session,
             Acquire(o, s) \/ Heartbeat(o, s) \/ SendRelease(o, s) \/ BeginFenced(o, s)
      PROVE  UNCHANGED Log!logVars
  BY <1>6 DEF Acquire, Heartbeat, SendRelease, BeginFenced, Log!logVars
<1>7. ASSUME NEW o \in Owner, BeginRelease(o) \/ Crash(o)
      PROVE  UNCHANGED Log!logVars
  BY <1>7 DEF BeginRelease, Crash, Log!logVars
<1>8. CASE Tick
  BY <1>8 DEF Tick, Log!logVars
<1>9. CASE UNCHANGED vars
  BY <1>9 DEF vars, Log!logVars
<1> QED
  BY <1>1, <1>2, <1>3, <1>4, <1>5, <1>6, <1>7, <1>8, <1>9 DEF Next, Log!LogNext

(* The lease implements the fenced store: one writer at a time, in strictly
   increasing generations, and no write of a generation that is not current. *)
THEOREM Refinement == Spec => ImplementsFencedLog
<1>1. Init => Log!LogInit
  BY DEF Init, NoRow, Log!LogInit
<1> QED
  BY <1>1, Invariance, StepRefines, PTL DEF Spec, Log!LogSpec, ImplementsFencedLog

(* Fenced writes commit in the order of their generations: the stale worker
   of a slow cycle cannot write after its successor. *)
THEOREM CommitOrder == Spec => CommitsFollowGenerations
<1>1. Inv /\ Inv' /\ [Next]_vars => [lastCommitted' >= lastCommitted]_vars
  <2> SUFFICES ASSUME Inv, [Next]_vars
               PROVE  lastCommitted' >= lastCommitted \/ UNCHANGED vars
    OBVIOUS
  <2>1. lastCommitted \in Nat /\ lastCommitted <= issued /\ lease.gen \in {0, issued}
    BY DEF Inv, TypeOK, GenerationsOrdered
  <2> QED
    BY <2>1, StepRefines
       DEF Log!LogNext, Log!Grant, Log!Revoke, Log!Write, Log!logVars
<1> QED
  BY <1>1, Invariance, PTL DEF Spec, CommitsFollowGenerations

(* The row changes hands only by expiry, and otherwise only at the request of
   the generation it belongs to. *)
THEOREM RowOwnership == Spec => RowBelongsToItsGeneration
<1> DEFINE Owned ==
      lease' # lease /\ lease.gen # 0 =>
        \/ lease'.gen > lease.gen /\ lease.expires <= clock
        \/ \E s \in Session :
             /\ session[s].kind \in {"renew", "release"}
             /\ session[s].gen = lease.gen
             /\ lease'.gen \in {0, lease.gen}
<1>1. Inv /\ [Next]_vars => [Owned]_vars
  <2> SUFFICES ASSUME Inv, Next
               PROVE  Owned
    BY DEF vars
  <2>t. /\ issued \in Nat /\ lease.gen \in Nat /\ clock \in Nat /\ lease.expires \in Nat
        /\ \A s \in Session : session[s].t \in Nat
        /\ lease \in Row
    BY DEF Inv, TypeOK, Work, Row
  <2>1. ASSUME NEW s \in Session, ClaimGranted(s)
        PROVE  Owned
    BY <2>1, <2>t DEF Inv, ClaimIsFresh, GenerationsOrdered, ClaimGranted
  <2>2. ASSUME NEW s \in Session, Release(s)
        PROVE  Owned
    BY <2>2 DEF Release, Matches, NoRow
  <2>3. ASSUME NEW s \in Session, Renew(s)
        PROVE  Owned
    BY <2>3, <2>t DEF Renew, Matches, Row
  <2>4. \/ \E s \in Session : ClaimGranted(s) \/ Release(s) \/ Renew(s)
        \/ UNCHANGED lease
    BY DEF Next, Tick, BeginRelease, Crash, Acquire, Heartbeat, SendRelease,
           BeginFenced, GiveUp, Enter, ClaimRefused, Cancelled, VerifyInitial,
           RequestFence, GrantFence, Commit, Rollback
  <2> QED
    BY <2>1, <2>2, <2>3, <2>4
<1> QED
  BY <1>1, Invariance, PTL DEF Spec, RowBelongsToItsGeneration

-----------------------------------------------------------------------------
(* The Kassalapp job.                                                      *)

(* Before the run begins nothing is stored. *)
NothingStoredBefore ==
  pc \in {"accessBefore", "prepare", "accessAfter", "begin"} =>
    /\ stored = {} /\ next = 1 /\ cause = "ok"
    /\ run.status = "absent"

(* In the loop the index tells what is stored. *)
IndexTellsStored ==
  pc \in {"accessBatch", "persist", "accessFinal"} =>
    /\ cause = "ok"
    /\ stored = 1..(next - 1)
    /\ next <= prepared.batches + 1

LoopBounds ==
  /\ pc = "persist" => next <= prepared.batches
  /\ pc = "accessFinal" => next = prepared.batches + 1

(* Only a whole job is finalized as such. *)
FinalizedWhole ==
  pc = "finalize" /\ cause = "ok" => stored = 1..prepared.batches

(* The run ends with the handler's last step. *)
EndsOnce ==
  pc # "returned" =>
    /\ result = NoResult
    /\ run.status \in {"absent", "running"}

(* Late batches are counted only without access. *)
LateNeedsRefusal ==
  /\ approved => late = 0
  /\ pc = "persist" => late = 0

JobInv ==
  /\ JobTypeOK
  /\ NothingStoredBefore
  /\ IndexTellsStored
  /\ LoopBounds
  /\ FinalizedWhole
  /\ EndsOnce
  /\ LateNeedsRefusal
  /\ CompletedMeansWhole
  /\ ReportedCountersAreStored
  /\ RevocationStopsWithinABatch

-----------------------------------------------------------------------------
(* The counters of a set of batches are natural numbers, and those of all
   the prepared batches are their number. *)
LEMMA StoredCounts ==
  ASSUME NEW n \in Nat, NEW S \in SUBSET (1..n)
  PROVE  /\ Cardinality(S) \in Nat
         /\ \A b \in Nat : S = 1..b => Cardinality(S) = b
<1>1. IsFiniteSet(1..n)
  BY FS_Interval
<1>2. IsFiniteSet(S)
  BY <1>1, FS_Subset
<1>3. Cardinality(S) \in Nat
  BY <1>2, FS_CardinalityType
<1>4. ASSUME NEW b \in Nat, S = 1..b
      PROVE  Cardinality(S) = b
  BY <1>4, FS_Interval
<1> QED
  BY <1>3, <1>4

LEMMA JobInitInv == JobInit => JobInv
<1> SUFFICES ASSUME JobInit
             PROVE  JobInv
  OBVIOUS
<1> USE ExecutorAssumption DEF ExecutorAssumption, JobInit
<1>1. JobTypeOK
  <2>1. NoCounters \in Counters
    BY DEF Counters, NoCounters
  <2>2. prepared \in [batches : 0..NBatch, failed : 0..MaxFailed]
    OBVIOUS
  <2>3. run \in [status : {"absent", "running"} \cup Terminal, counts : Counters]
    BY <2>1
  <2>4. stored \subseteq 1..NBatch
    OBVIOUS
  <2>5. result \in [kind : {"none", "counters", "failed", "cancelled",
                           "FINALIZATION_FAILURE"}, counters : Counters]
    BY <2>1 DEF NoResult, Result
  <2>6. next \in 1..(NBatch + 1) /\ changes \in 0..MaxChange /\ late \in Nat
    OBVIOUS
  <2>7. aborted \in BOOLEAN /\ fenced \in BOOLEAN /\ approved \in BOOLEAN
    OBVIOUS
  <2> QED
    BY <2>2, <2>3, <2>4, <2>5, <2>6, <2>7 DEF JobTypeOK
<1>2. NothingStoredBefore /\ IndexTellsStored /\ LoopBounds /\ FinalizedWhole
  BY DEF NothingStoredBefore, IndexTellsStored, LoopBounds, FinalizedWhole
<1>3. EndsOnce /\ LateNeedsRefusal /\ RevocationStopsWithinABatch
  BY DEF EndsOnce, LateNeedsRefusal, RevocationStopsWithinABatch
<1>4. CompletedMeansWhole /\ ReportedCountersAreStored
  BY DEF CompletedMeansWhole, ReportedCountersAreStored, NoResult, Result,
         NoCounters
<1> QED
  BY <1>1, <1>2, <1>3, <1>4 DEF JobInv

-----------------------------------------------------------------------------
(* The steps before the loop store nothing and report nothing. *)
LEMMA EarlyStep ==
  ASSUME JobInv,
         AccessBefore \/ AccessRefused \/ Prepare \/ PrepareFails
           \/ BeginRun \/ BeginFails
  PROVE  JobInv'
<1> USE ExecutorAssumption
    DEF ExecutorAssumption, JobInv, NothingStoredBefore, IndexTellsStored, LoopBounds, FinalizedWhole,
            EndsOnce, LateNeedsRefusal, CompletedMeansWhole,
            ReportedCountersAreStored, RevocationStopsWithinABatch,
            Terminal, Return, Goto, JobGiveUp, Result, world
<1>1. CASE AccessBefore
  BY <1>1 DEF JobTypeOK, AccessBefore
<1>2. CASE AccessRefused
  BY <1>2 DEF JobTypeOK, AccessRefused, Counters, NoCounters
<1>3. CASE Prepare
  BY <1>3 DEF JobTypeOK, Prepare
<1>4. CASE PrepareFails
  BY <1>4 DEF JobTypeOK, PrepareFails, Counters, NoCounters
<1>5. CASE BeginRun
  BY <1>5 DEF JobTypeOK, BeginRun, Counters, NoCounters
<1>6. CASE BeginFails
  BY <1>6 DEF JobTypeOK, BeginFails, Counters, NoCounters
<1> QED
  BY <1>1, <1>2, <1>3, <1>4, <1>5, <1>6

(* The loop stores one batch at a time and reports nothing. *)
LEMMA LoopStep ==
  ASSUME JobInv, AccessBatch \/ Persist \/ PersistFails \/ AccessFinal
  PROVE  JobInv'
<1> USE ExecutorAssumption
    DEF ExecutorAssumption, JobInv, NothingStoredBefore, IndexTellsStored, LoopBounds,
        FinalizedWhole, EndsOnce, LateNeedsRefusal, CompletedMeansWhole,
        ReportedCountersAreStored, RevocationStopsWithinABatch, Terminal, Goto,
        FinalizeAs, PersistFailed, world, NoResult, Result, NoCounters
<1>1. CASE AccessBatch
  BY <1>1 DEF JobTypeOK, AccessBatch, LoopOver, Recheck
<1>2. CASE Persist
  <2>1. next \in 1..NBatch /\ stored \cup {next} \subseteq 1..NBatch
    BY <1>2 DEF JobTypeOK, Persist
  <2>2. stored \cup {next} = 1..((next + 1) - 1)
    BY <1>2, <2>1 DEF JobTypeOK, Persist
  <2> QED
    BY <1>2, <2>1, <2>2 DEF JobTypeOK, Persist
<1>3. CASE PersistFails
  BY <1>3 DEF JobTypeOK, PersistFails
<1>4. CASE AccessFinal
  BY <1>4 DEF JobTypeOK, AccessFinal
<1> QED
  BY <1>1, <1>2, <1>3, <1>4

(* The last step counts what is stored. *)
LEMMA FinalStep ==
  ASSUME JobInv, Finalize \/ FinalizeFails
  PROVE  JobInv'
<1> USE ExecutorAssumption
    DEF ExecutorAssumption, JobInv, NothingStoredBefore, IndexTellsStored, LoopBounds,
        FinalizedWhole, EndsOnce, LateNeedsRefusal, RevocationStopsWithinABatch,
        Terminal, Return, FinalizationFailed, world, NoResult
<1>1. CASE Finalize
  <2>1. /\ Cardinality(stored) \in Nat
        /\ \A b \in Nat : stored = 1..b => Cardinality(stored) = b
    BY StoredCounts DEF JobTypeOK
  <2>2. FinalCounts \in Counters
    BY <2>1 DEF JobTypeOK, FinalCounts, FinalFailed, Counters
  <2>3. FinalStatus \in Terminal
    BY DEF FinalStatus
  <2>4. JobTypeOK'
    BY <1>1, <2>2, <2>3
       DEF JobTypeOK, Finalize, Finalized, Result, NoCounters, Counters
  <2>5. CompletedMeansWhole'
    BY <1>1, <2>1 DEF JobTypeOK, Finalize, FinalStatus, FinalCounts, FinalFailed,
                      CompletedMeansWhole
  <2>6. ReportedCountersAreStored'
    BY <1>1, <2>2, <2>3
       DEF JobTypeOK, Finalize, Finalized, FinalStatus, FinalCounts, Result, NoCounters,
           ReportedCountersAreStored
  <2> QED
    BY <1>1, <2>4, <2>5, <2>6 DEF Finalize, Finalized
<1>2. CASE FinalizeFails
  BY <1>2 DEF JobTypeOK, FinalizeFails, Result, NoCounters, Counters,
              CompletedMeansWhole, ReportedCountersAreStored
<1> QED
  BY <1>1, <1>2

(* What happens outside touches the count of late batches only to reset it. *)
LEMMA OutsideStep ==
  ASSUME JobInv, Abort \/ LoseFence \/ ChangeAccess \/ UNCHANGED jobVars
  PROVE  JobInv'
<1> USE ExecutorAssumption
    DEF ExecutorAssumption, JobInv, NothingStoredBefore, IndexTellsStored, LoopBounds,
        FinalizedWhole, EndsOnce, LateNeedsRefusal, CompletedMeansWhole,
        ReportedCountersAreStored, RevocationStopsWithinABatch
<1>1. CASE Abort
  BY <1>1 DEF JobTypeOK, Abort, handler
<1>2. CASE LoseFence
  <2>1. fenced' \in BOOLEAN
    BY <1>2 DEF LoseFence
  <2>2. UNCHANGED <<handler, late, aborted, approved, changes>>
    BY <1>2 DEF LoseFence
  <2> QED
    BY <2>1, <2>2 DEF JobTypeOK, handler
<1>3. CASE ChangeAccess
  <2>1. approved' \in BOOLEAN
    BY <1>3 DEF ChangeAccess
  <2>2. changes' \in 0..MaxChange /\ late' = 0
    BY <1>3 DEF JobTypeOK, ChangeAccess
  <2>3. UNCHANGED <<handler, aborted, fenced>>
    BY <1>3 DEF ChangeAccess
  <2> QED
    BY <2>1, <2>2, <2>3 DEF JobTypeOK, handler
<1>4. CASE UNCHANGED jobVars
  BY <1>4 DEF JobTypeOK, jobVars
<1> QED
  BY <1>1, <1>2, <1>3, <1>4

-----------------------------------------------------------------------------
(* The inductive invariant holds in every state of every job. *)
THEOREM JobInvariance == JobSpec => []JobInv
<1>1. ASSUME JobInv, [JobNext]_jobVars
      PROVE  JobInv'
  <2>1. CASE Handler
    BY <1>1, <2>1, EarlyStep, LoopStep, FinalStep DEF Handler
  <2>2. CASE ~Handler
    BY <1>1, <2>2, OutsideStep DEF JobNext
  <2> QED
    BY <2>1, <2>2
<1> QED
  BY JobInitInv, <1>1, PTL DEF JobSpec

(* Every variable of the handler keeps its type. *)
THEOREM JobTypeCorrect == JobSpec => []JobTypeOK
<1>1. JobInv => JobTypeOK
  BY DEF JobInv
<1> QED
  BY JobInvariance, <1>1, PTL

(* A completed run holds every batch, whatever answers were lost
   (createExecutor 793-815). *)
THEOREM CompletedRunsAreWhole == JobSpec => []CompletedMeansWhole
<1>1. JobInv => CompletedMeansWhole
  BY DEF JobInv
<1> QED
  BY JobInvariance, <1>1, PTL

(* The counters the runner gets are those of the database
   (finalizeRun's counters, createExecutor 805-815). *)
THEOREM HonestCounters == JobSpec => []ReportedCountersAreStored
<1>1. JobInv => ReportedCountersAreStored
  BY DEF JobInv
<1> QED
  BY JobInvariance, <1>1, PTL

(* At most one batch follows a revocation (persistInBatches 686-699). *)
THEOREM RevocationBound == JobSpec => []RevocationStopsWithinABatch
<1>1. JobInv => RevocationStopsWithinABatch
  BY DEF JobInv
<1> QED
  BY JobInvariance, <1>1, PTL

=============================================================================
