------------------------- MODULE WorkerRuntimeProofs -------------------------
(***************************************************************************)
(* Theorems about WorkerRuntime for every set of processes, every number   *)
(* of sources, schedules, slots and faults.                                *)
(*                                                                         *)
(* The argument: a handle becomes the current one of its source by Acquire *)
(* alone, which supersedes every other, so a generation has one holder.  A *)
(* slot is recorded by that holder alone.  What a process looked up while  *)
(* it holds the generation is therefore still the newest slot of its       *)
(* schedule, and the slot it runs after that is newer than every recorded  *)
(* one.  A process whose handle was superseded may have looked up a ledger *)
(* that is out of date, and cannot record.                                 *)
(*                                                                         *)
(* A handler runs only while its process is in the job, or is left behind  *)
(* by a fatal process that is out of its cycle; neither releases a lease.  *)
(***************************************************************************)
EXTENDS WorkerRuntime, WellFoundedInduction, TLAPS

(* Where a job is looked up, run and recorded. *)
JobPhases == {"lookedUp", "running", "joining", "ran"}
Releasing == {"backout", "undo", "failing", "release"}

(* A position in a loop is one of the list that the loop is about, and the
   slot of a job is one of its schedule. *)
PositionHolds(p) ==
  /\ pos[p] > 0
  /\ pc[p] = "acquire" => pos[p] \in Source
  /\ pc[p] \in JobPhases => pos[p] \in Sched /\ slot[p] \in 0..MaxSlot[pos[p]]
  /\ pc[p] \in JobPhases \ {"lookedUp"} => slot[p] > 0
PositionsHold == \A p \in Process : PositionHolds(p)

(* A generation of a row has one holder. *)
OneHolder ==
  \A p, q \in Process : \A s \in Source :
    token[p][s] = "current" /\ token[q][s] = "current" => p = q

(* While its handle is of the current generation, what a process looked up
   in the ledger is still the newest, and what it runs is newer. *)
NothingSince(p) ==
  pc[p] \in JobPhases /\ token[p][JobSource(p)] = "current" =>
    \A n \in ledger[Job(p)] : IF pc[p] = "lookedUp" THEN n <= slot[p] ELSE n < slot[p]
NothingRecordedSince == \A p \in Process : NothingSince(p)

(* A handler runs in its job, or is left behind by a fatal process. *)
HandlerKnown(p) ==
  /\ handler[p] = "active" => pc[p] \in {"running", "joining"}
  /\ handler[p] = "zombie" => pc[p] = "out" /\ status[p] = "fatal" /\ life[p] # "exited"
HandlersKnown == \A p \in Process : HandlerKnown(p)

RuntimeInv == TypeOK /\ PositionsHold /\ OneHolder /\ NothingRecordedSince /\ HandlersKnown

-----------------------------------------------------------------------------
(* The newest slot with a result is not older than any other. *)
LEMMA LastIsNewest ==
  ASSUME TypeOK, NEW k \in Sched
  PROVE  /\ LastScheduled(k) \in 0..MaxSlot[k]
         /\ \A n \in ledger[k] : n <= LastScheduled(k)
         /\ ledger[k] # {} => LastScheduled(k) \in ledger[k]
<1>1. ledger[k] \subseteq 1..MaxSlot[k] /\ MaxSlot[k] \in Nat
  BY RuntimeAssumption DEF TypeOK
<1>2. CASE ledger[k] = {}
  BY <1>1, <1>2 DEF LastScheduled
<1>3. CASE ledger[k] # {}
  <2> DEFINE left == {MaxSlot[k] - n : n \in ledger[k]}
  <2>1. left \subseteq Nat /\ left # {}
    BY <1>1, <1>3
  <2>2. PICK m \in left : \A l \in left : ~(<<l, m>> \in OpToRel(<, Nat))
    <3> HIDE DEF left
    <3> QED
      BY <2>1, NatLessThanWellFounded, WFMin
  <2>3. PICK n \in ledger[k] : m = MaxSlot[k] - n
    BY <2>2
  <2>4. ASSUME NEW l \in ledger[k]
        PROVE  l <= n
    <3>1. ~(MaxSlot[k] - l < m)
      BY <2>1, <2>2 DEF OpToRel
    <3> QED
      BY <1>1, <2>3, <3>1
  <2>5. LastScheduled(k) \in ledger[k] /\ \A l \in ledger[k] : l <= LastScheduled(k)
    BY <1>3, <2>4 DEF LastScheduled
  <2> QED
    BY <1>1, <2>5
<1> QED
  BY <1>2, <1>3

(* A job phase is about a schedule and its source. *)
LEMMA JobOfPhase ==
  ASSUME RuntimeInv, NEW p \in Process, pc[p] \in JobPhases
  PROVE  /\ Job(p) \in Sched /\ JobSource(p) \in Source /\ pos[p] \in Nat
         /\ slot[p] \in 0..MaxSlot[Job(p)] /\ MaxSlot[Job(p)] \in Nat
BY RuntimeAssumption DEF RuntimeInv, TypeOK, PositionsHold, PositionHolds, Job, JobSource


(* A fault stays within its bound. *)
LEMMA FaultBound == TypeOK /\ (Fault \/ UNCHANGED faults) => faults' \in 0..MaxFaults
BY RuntimeAssumption DEF TypeOK, Fault

(* A loop that is left leaves its variables typed (executeCycle).          *)
LEMMA LeaveTypes ==
  ASSUME TypeOK, NEW p \in Process, NEW label \in Phase, Leave(p, label)
  PROVE  /\ pc' \in [Process -> Phase] /\ pos' \in [Process -> Nat]
         /\ slot' \in [Process -> {0} \cup UNION {0..MaxSlot[k] : k \in Sched}]
BY DEF TypeOK, Leave, Goto

(* What a process that ends forgets leaves its variables typed (Crash and  *)
(* Exit).                                                                  *)
LEMMA ForgetTypes ==
  ASSUME TypeOK, NEW p \in Process, Forget(p)
  PROVE  /\ pc' \in [Process -> Phase] /\ pos' \in [Process -> Nat]
         /\ slot' \in [Process -> {0} \cup UNION {0..MaxSlot[k] : k \in Sched}]
         /\ token' \in [Process -> [Source -> {"none", "current", "stale"}]]
         /\ lost' \in [Process -> [Source -> BOOLEAN]]
         /\ handler' \in [Process -> {"none", "active", "zombie"}]
<1>1. "out" \in Phase
  BY DEF Phase
<1>2. NoTokens \in [Source -> {"none", "current", "stale"}] /\ NoneLost \in [Source -> BOOLEAN]
  BY DEF NoTokens, NoneLost
<1> QED
  BY <1>1, <1>2 DEF TypeOK, Forget, Goto

(* A closed handle is typed (release of lease.ts).                         *)
LEMMA CloseTypes ==
  ASSUME TypeOK, NEW p \in Process, NEW s \in Source, CloseHandle(p, s)
  PROVE  /\ token' \in [Process -> [Source -> {"none", "current", "stale"}]]
         /\ lost' \in [Process -> [Source -> BOOLEAN]]
BY DEF TypeOK, CloseHandle

(* A handle that is claimed or superseded is still one. *)
LEMMA SupersededTypes ==
  ASSUME TypeOK, NEW q \in Process, NEW s
  PROVE  /\ Superseded(q, s) \in [Source -> {"none", "current", "stale"}]
         /\ [token[q] EXCEPT ![s] = "current"] \in [Source -> {"none", "current", "stale"}]
BY DEF TypeOK, Superseded

(* Every step keeps the types.                                             *)
LEMMA RuntimeTypes == RuntimeInv /\ [Next]_vars => TypeOK'
<1> SUFFICES ASSUME RuntimeInv, [Next]_vars
             PROVE  TypeOK'
  OBVIOUS
<1> USE DEF Status
<1>t. TypeOK
  BY DEF RuntimeInv
<1>p. /\ "out" \in Phase /\ "undo" \in Phase /\ "backout" \in Phase /\ "loop" \in Phase
      /\ "release" \in Phase /\ "failing" \in Phase /\ "lookedUp" \in Phase /\ "running" \in Phase
      /\ "joining" \in Phase /\ "ran" \in Phase /\ "acquire" \in Phase
  BY DEF Phase
<1>1. ASSUME NEW k \in Sched, NewSlot(k)
      PROVE  TypeOK'
  BY <1>t, <1>1, RuntimeAssumption DEF TypeOK, NewSlot, process
<1>2. ASSUME NEW s \in Source, Expire(s)
      PROVE  TypeOK'
  BY <1>t, <1>2 DEF TypeOK, Expire, process
<1>3. ASSUME NEW p \in Process, NEW s \in Source, ReleaseOne(p, s)
      PROVE  TypeOK'
  <2>1. /\ token' \in [Process -> [Source -> {"none", "current", "stale"}]]
        /\ lost' \in [Process -> [Source -> BOOLEAN]]
    BY <1>t, <1>3, CloseTypes DEF ReleaseOne
  <2>2. faults' \in 0..MaxFaults
    BY <1>t, <1>3, FaultBound DEF ReleaseOne
  <2>3. row' \in [Source -> {"absent", "live", "expired"}]
    BY <1>t, <1>3 DEF ReleaseOne, TypeOK
  <2>4. pc' \in [Process -> Phase]
    BY <1>t, <1>p, <1>3 DEF ReleaseOne, TypeOK, Goto
  <2>5. UNCHANGED <<due, ledger, life, stopping, status, pos, slot, handler>>
    BY <1>3 DEF ReleaseOne
  <2> QED
    BY <1>t, <2>1, <2>2, <2>3, <2>4, <2>5 DEF TypeOK
<1>4. ASSUME NEW p \in Process, NEW s \in Source, HeartbeatFails(p, s)
      PROVE  TypeOK'
  <2>1. faults' \in 0..MaxFaults
    BY <1>t, <1>4, FaultBound DEF HeartbeatFails
  <2> QED
    BY <1>t, <1>4, <2>1 DEF TypeOK, HeartbeatFails
<1>5. ASSUME NEW p \in Process, StartCycle(p)
      PROVE  TypeOK'
  BY <1>t, <1>p, <1>5 DEF TypeOK, StartCycle, Goto, cluster
<1>6. ASSUME NEW p \in Process, EndCycle(p)
      PROVE  TypeOK'
  BY <1>t, <1>p, <1>6 DEF TypeOK, EndCycle, Goto, cluster
<1>7. ASSUME NEW p \in Process, Restart(p) \/ Close(p)
      PROVE  TypeOK'
  BY <1>t, <1>7 DEF TypeOK, Restart, Close, cluster
<1>8. ASSUME NEW p \in Process, Signal(p) \/ FinishShutdown(p) \/ ShutdownTimesOut(p)
      PROVE  TypeOK'
  BY <1>t, <1>8 DEF TypeOK, Signal, FinishShutdown, ShutdownTimesOut, cluster
<1>9. ASSUME NEW p \in Process, Crash(p)
      PROVE  TypeOK'
  BY <1>t, <1>9, FaultBound, ForgetTypes DEF TypeOK, Crash
<1>10. ASSUME NEW p \in Process, Exit(p)
      PROVE  TypeOK'
  BY <1>t, <1>10, ForgetTypes DEF TypeOK, Exit, cluster
<1>11. ASSUME NEW p \in Process, Stall(p)
      PROVE  TypeOK'
  BY <1>t, <1>11, FaultBound DEF TypeOK, Stall, process
<1>12. ASSUME NEW p \in Process, Acquire(p)
      PROVE  TypeOK'
  <2>1. token' \in [Process -> [Source -> {"none", "current", "stale"}]]
    BY <1>t, <1>12, SupersededTypes DEF Acquire
  <2>2. row' \in [Source -> {"absent", "live", "expired"}]
    BY <1>t, <1>12 DEF Acquire, Claim, TypeOK
  <2>3. pos[p] + 1 \in Nat
    BY <1>t DEF TypeOK
  <2>4. pc' \in [Process -> Phase] /\ pos' \in [Process -> Nat]
    <3>1. /\ pc' = [pc EXCEPT ![p] = "loop"] \/ UNCHANGED pc
          /\ \E i \in Nat : pos' = [pos EXCEPT ![p] = i]
      BY <1>12, <2>3 DEF Acquire, Goto
    <3> QED
      BY <1>t, <1>p, <3>1 DEF TypeOK
  <2>5. UNCHANGED <<due, ledger, faults, life, stopping, status, lost, slot, handler>>
    BY <1>12 DEF Acquire
  <2> QED
    BY <1>t, <2>1, <2>2, <2>4, <2>5 DEF TypeOK
<1>13. ASSUME NEW p \in Process, AcquireRejected(p)
      PROVE  TypeOK'
  <2>1. token' \in [Process -> [Source -> {"none", "current", "stale"}]]
    BY <1>t, <1>13, SupersededTypes DEF AcquireRejected, TypeOK
  <2>2. row' \in [Source -> {"absent", "live", "expired"}]
    BY <1>t, <1>13 DEF AcquireRejected, Claim, TypeOK
  <2>3. faults' \in 0..MaxFaults
    BY <1>t, <1>13, FaultBound DEF AcquireRejected
  <2>4. Leave(p, "undo") /\ UNCHANGED <<due, ledger, life, stopping, status, lost, handler>>
    BY <1>13 DEF AcquireRejected
  <2> QED
    BY <1>t, <1>p, <2>1, <2>2, <2>3, <2>4, LeaveTypes DEF TypeOK
<1>14. ASSUME NEW p \in Process, LookUp(p)
      PROVE  TypeOK'
  <2>1. Job(p) \in Sched
    BY <1>t, <1>14, RuntimeAssumption DEF LookUp, Job, RuntimeInv, PositionsHold, PositionHolds, TypeOK
  <2>2. LastScheduled(Job(p)) \in UNION {0..MaxSlot[k] : k \in Sched}
    BY <1>t, <2>1, LastIsNewest
  <2> QED
    BY <1>t, <1>p, <1>14, <2>2 DEF TypeOK, LookUp, Goto, cluster
<1>15. ASSUME NEW p \in Process, RunJob(p)
      PROVE  TypeOK'
  <2>1. Job(p) \in Sched
    BY <1>15, JobOfPhase DEF RunJob, At, JobPhases
  <2>2. due[Job(p)] \in UNION {0..MaxSlot[k] : k \in Sched}
    BY <1>t, <2>1 DEF TypeOK
  <2> QED
    BY <1>t, <1>p, <1>15, <2>2 DEF TypeOK, RunJob, Goto, cluster
<1>16. ASSUME NEW p \in Process, AcquireRefused(p) \/ LeaveLoop(p) \/ SkipRecord(p)
      PROVE  TypeOK'
  <2>1. \E label \in {"backout", "release"} : Leave(p, label)
    BY <1>16 DEF AcquireRefused, LeaveLoop, SkipRecord
  <2>2. UNCHANGED <<cluster, life, stopping, status, token, lost, handler>>
    BY <1>16 DEF AcquireRefused, LeaveLoop, SkipRecord
  <2> QED
    BY <1>t, <1>p, <2>1, <2>2, LeaveTypes DEF TypeOK, cluster
<1>17. ASSUME NEW p \in Process, LookUpFails(p) \/ RecordFails(p)
      PROVE  TypeOK'
  <2>1. Leave(p, "failing") /\ UNCHANGED <<due, ledger, row, life, stopping, status, token, lost, handler>>
    BY <1>17 DEF LookUpFails, RecordFails
  <2>2. faults' \in 0..MaxFaults
    BY <1>t, <1>17, FaultBound DEF LookUpFails, RecordFails
  <2> QED
    BY <1>t, <1>p, <2>1, <2>2, LeaveTypes DEF TypeOK
<1>18. ASSUME NEW p \in Process, NotDue(p)
      PROVE  TypeOK'
  BY <1>t, <1>p, <1>18 DEF TypeOK, NotDue, Goto, cluster
<1>19. ASSUME NEW p \in Process, JoinExpires(p)
      PROVE  TypeOK'
  BY <1>t, <1>p, <1>19, LeaveTypes DEF TypeOK, JoinExpires, cluster
<1>20. ASSUME NEW p \in Process,
              HandlerSettles(p) \/ HandlerAborted(p) \/ JoinSettles(p) \/ ZombieSettles(p)
       PROVE  TypeOK'
  <2>1. /\ pc' \in [Process -> Phase]
        /\ handler' \in [Process -> {"none", "active", "zombie"}]
    <3>1. /\ pc' = pc \/ pc' = [pc EXCEPT ![p] = "ran"] \/ pc' = [pc EXCEPT ![p] = "joining"]
          /\ UNCHANGED handler \/ handler' = [handler EXCEPT ![p] = "none"]
      BY <1>20 DEF HandlerSettles, HandlerAborted, JoinSettles, ZombieSettles, Goto
    <3>2. pc' \in [Process -> Phase]
      BY <1>t, <1>p, <3>1 DEF TypeOK
    <3>3. handler' \in [Process -> {"none", "active", "zombie"}]
      BY <1>t, <3>1 DEF TypeOK
    <3> QED
      BY <3>2, <3>3
  <2>2. UNCHANGED <<cluster, life, stopping, status, pos, token, lost, slot>>
    BY <1>20 DEF HandlerSettles, HandlerAborted, JoinSettles, ZombieSettles
  <2> QED
    BY <1>t, <2>1, <2>2 DEF TypeOK, cluster
<1>21. ASSUME NEW p \in Process, Record(p)
       PROVE  TypeOK'
  <2>1. Job(p) \in Sched /\ slot[p] \in 1..MaxSlot[Job(p)] /\ MaxSlot[Job(p)] \in Nat
    <3>1. pc[p] = "ran"
      BY <1>21 DEF Record, At
    <3> QED
      BY <3>1, JobOfPhase DEF JobPhases, RuntimeInv, PositionsHold, PositionHolds
  <2>2. /\ ledger' \in [Sched -> SUBSET Nat]
        /\ \A k \in Sched : due'[k] \in 0..MaxSlot[k] /\ ledger'[k] \subseteq 1..MaxSlot[k]
    BY <1>t, <1>21, <2>1 DEF TypeOK, Record
  <2>3. faults' \in 0..MaxFaults
    BY <1>t, <1>21, FaultBound DEF Record
  <2>4. UNCHANGED <<due, row, life, stopping, status, token, lost, handler>>
    BY <1>21 DEF Record
  <2>5. /\ pc' \in [Process -> Phase] /\ pos' \in [Process -> Nat]
        /\ slot' \in [Process -> {0} \cup UNION {0..MaxSlot[k] : k \in Sched}]
    <3>1. CASE \E label \in {"release", "failing"} : Leave(p, label)
      BY <1>t, <1>p, <3>1, LeaveTypes
    <3>2. CASE /\ Goto(p, "loop")
               /\ pos' = [pos EXCEPT ![p] = @ + 1]
               /\ slot' = [slot EXCEPT ![p] = 0]
      BY <1>t, <1>p, <3>2 DEF TypeOK, Goto
    <3> QED
      BY <1>21, <3>1, <3>2 DEF Record, AfterRecord
  <2> QED
    BY <1>t, <2>2, <2>3, <2>4, <2>5 DEF TypeOK
<1>22. CASE UNCHANGED vars
  BY <1>t, <1>22 DEF TypeOK, vars, cluster, process
<1> QED
  BY <1>1, <1>2, <1>3, <1>4, <1>5, <1>6, <1>7, <1>8, <1>9, <1>10, <1>11, <1>12, <1>13, <1>14,
     <1>15, <1>16, <1>17, <1>18, <1>19, <1>20, <1>21, <1>22
     DEF Next, Continue, Settle

-----------------------------------------------------------------------------
(* What one process does, and what it leaves alone.                        *)
OwnStep(p) ==
  \/ Continue(p) \/ Settle(p) \/ Stall(p) \/ Crash(p) \/ Restart(p) \/ Signal(p)
  \/ \E s \in Source : HeartbeatFails(p, s)

(* Neither the ledger nor a process is touched. *)
Elsewhere == UNCHANGED <<ledger, process>>

(* A step of the specification is one of the ledger's surroundings, which *)
(* leaves the processes alone, or one of a single process.                 *)
LEMMA OneSteps ==
  ASSUME [Next]_vars
  PROVE  Elsewhere \/ \E p \in Process : OwnStep(p)
<1>1. ASSUME NEW k \in Sched, NewSlot(k)
      PROVE  Elsewhere
  BY <1>1 DEF NewSlot, Elsewhere
<1>2. ASSUME NEW s \in Source, Expire(s)
      PROVE  Elsewhere
  BY <1>2 DEF Expire, Elsewhere
<1>3. CASE UNCHANGED vars
  BY <1>3 DEF vars, cluster, Elsewhere
<1> QED
  BY <1>1, <1>2, <1>3 DEF Next, OwnStep

(* A step of one process is on its own variables; a handle of another may *)
(* be superseded and no more.                                              *)
LEMMA Undisturbed ==
  ASSUME RuntimeInv, NEW p \in Process, OwnStep(p), NEW q \in Process, q # p
  PROVE  /\ pc'[q] = pc[q] /\ pos'[q] = pos[q] /\ slot'[q] = slot[q]
         /\ handler'[q] = handler[q] /\ status'[q] = status[q] /\ life'[q] = life[q]
         /\ \A s \in Source : token'[q][s] = "current" => token[q][s] = "current"
<1> DEFINE Kept ==
      /\ pc'[q] = pc[q] /\ pos'[q] = pos[q] /\ slot'[q] = slot[q]
      /\ handler'[q] = handler[q] /\ status'[q] = status[q] /\ life'[q] = life[q]
      /\ \A s \in Source : token'[q][s] = "current" => token[q][s] = "current"
<1>t. TypeOK
  BY DEF RuntimeInv
<1>0. ASSUME NEW label, Leave(p, label)
      PROVE  pc'[q] = pc[q] /\ pos'[q] = pos[q] /\ slot'[q] = slot[q]
  BY <1>t, <1>0 DEF Leave, Goto, TypeOK
<1>1. CASE \E s \in Source : ReleaseOne(p, s)
  BY <1>t, <1>1 DEF ReleaseOne, CloseHandle, Goto, TypeOK
<1>2. CASE \E s \in Source : HeartbeatFails(p, s)
  BY <1>2 DEF HeartbeatFails
<1>3. CASE StartCycle(p) \/ EndCycle(p) \/ Restart(p) \/ Close(p)
  BY <1>t, <1>3 DEF StartCycle, EndCycle, Restart, Close, Goto, TypeOK
<1>4. CASE Signal(p) \/ FinishShutdown(p) \/ ShutdownTimesOut(p)
  BY <1>t, <1>4 DEF Signal, FinishShutdown, ShutdownTimesOut, TypeOK
<1>5. CASE Crash(p) \/ Exit(p)
  <2>1. Forget(p) /\ UNCHANGED status /\ life' = [life EXCEPT ![p] = "exited"]
    BY <1>5 DEF Crash, Exit
  <2> QED
    BY <1>t, <2>1 DEF Forget, Goto, TypeOK
<1>6. CASE Stall(p)
  BY <1>6 DEF Stall, process
<1>7. CASE Acquire(p)
  <2>1. token'[q] = Superseded(q, pos[p])
    BY <1>7 DEF Acquire
  <2>2. \A s \in Source : token'[q][s] = "current" => token[q][s] = "current"
    BY <1>t, <2>1 DEF Superseded, TypeOK
  <2>3. pc'[q] = pc[q] /\ pos'[q] = pos[q]
    BY <1>t, <1>7 DEF Acquire, Goto, TypeOK
  <2> QED
    BY <1>7, <2>2, <2>3 DEF Acquire
<1>8. CASE AcquireRejected(p)
  <2>1. token'[q] = Superseded(q, pos[p]) \/ token'[q] = token[q]
    BY <1>8 DEF AcquireRejected
  <2>2. \A s \in Source : token'[q][s] = "current" => token[q][s] = "current"
    BY <1>t, <2>1 DEF Superseded, TypeOK
  <2> QED
    BY <1>0, <1>8, <2>2 DEF AcquireRejected
<1>9. CASE LookUp(p) \/ NotDue(p)
  BY <1>t, <1>9 DEF LookUp, NotDue, Goto, TypeOK
<1>10. CASE AcquireRefused(p) \/ LeaveLoop(p) \/ LookUpFails(p) \/ RecordFails(p) \/ SkipRecord(p)
  <2>1. \E label \in {"backout", "release", "failing"} : Leave(p, label)
    BY <1>10 DEF AcquireRefused, LeaveLoop, LookUpFails, RecordFails, SkipRecord
  <2>2. UNCHANGED <<life, status, token, handler>>
    BY <1>10 DEF AcquireRefused, LeaveLoop, LookUpFails, RecordFails, SkipRecord
  <2> QED
    BY <1>0, <2>1, <2>2
<1>11. CASE RunJob(p)
  BY <1>t, <1>11 DEF RunJob, Goto, TypeOK
<1>12. CASE HandlerSettles(p) \/ HandlerAborted(p) \/ JoinSettles(p) \/ ZombieSettles(p)
  BY <1>t, <1>12 DEF HandlerSettles, HandlerAborted, JoinSettles, ZombieSettles, Goto, TypeOK
<1>13. CASE JoinExpires(p)
  BY <1>0, <1>t, <1>13 DEF JoinExpires, TypeOK
<1>14. CASE Record(p)
  <2>1. UNCHANGED <<life, status, token, handler>>
    BY <1>14 DEF Record
  <2>2. pc'[q] = pc[q] /\ pos'[q] = pos[q] /\ slot'[q] = slot[q]
    <3>1. CASE AfterRecord(p)
      BY <1>0, <1>t, <3>1 DEF AfterRecord, Goto, TypeOK
    <3> QED
      BY <1>0, <1>14, <3>1 DEF Record
  <2> QED
    BY <2>1, <2>2
<1> QED
  BY <1>1, <1>2, <1>3, <1>4, <1>5, <1>6, <1>7, <1>8, <1>9, <1>10, <1>11, <1>12, <1>13, <1>14
     DEF OwnStep, Continue, Settle

(* The ledger changes by Record, in the schedule of the recording process. *)
LEMMA OnlyRecordWrites ==
  ASSUME RuntimeInv, NEW p \in Process, OwnStep(p)
  PROVE  \/ UNCHANGED ledger
         \/ /\ Record(p)
            /\ token[p][JobSource(p)] = "current" /\ pc[p] = "ran" /\ Job(p) \in Sched
            /\ \A k \in Sched : k # Job(p) => ledger'[k] = ledger[k]
            /\ ledger'[Job(p)] = ledger[Job(p)] \cup {slot[p]}
<1>1. CASE Record(p)
  <2>1. pc[p] = "ran" /\ token[p][JobSource(p)] = "current"
    BY <1>1 DEF Record, At, Current
  <2>2. Job(p) \in Sched
    BY <2>1, JobOfPhase DEF JobPhases
  <2> QED
    BY <1>1, <2>1, <2>2 DEF Record, RuntimeInv, TypeOK
<1>2. CASE ~Record(p)
  BY <1>2 DEF OwnStep, Continue, Settle, StartCycle, Acquire, AcquireRefused, AcquireRejected,
     ReleaseOne, EndCycle, LeaveLoop, LookUp, LookUpFails, NotDue, RunJob, HandlerAborted,
     JoinExpires, RecordFails, SkipRecord, FinishShutdown, ShutdownTimesOut, Close, Exit,
     JoinSettles, ZombieSettles, HandlerSettles, Stall, Crash, Restart, Signal, HeartbeatFails,
     cluster
<1> QED
  BY <1>1, <1>2

-----------------------------------------------------------------------------
(* A loop that is left leaves the position of the next one (executeCycle). *)
LEMMA LeavesPosition ==
  ASSUME RuntimeInv, NEW p \in Process,
         NEW label \in {"out", "undo", "backout", "release", "failing", "loop"}, Leave(p, label)
  PROVE  PositionHolds(p)'
BY DEF RuntimeInv, TypeOK, Leave, Goto, PositionHolds, JobPhases

(* A process keeps its own position in the list its loop is about, and     *)
(* runs a slot of its schedule after the first.                            *)
LEMMA OwnPosition ==
  ASSUME RuntimeInv, NEW p \in Process, OwnStep(p)
  PROVE  PositionHolds(p)'
<1>t. TypeOK /\ PositionHolds(p) /\ pos[p] \in Nat
  BY DEF RuntimeInv, PositionsHold, TypeOK
<1>1. CASE \E s \in Source : ReleaseOne(p, s)
  <2>1. pc'[p] \in Releasing /\ pos'[p] = pos[p]
    BY <1>t, <1>1 DEF ReleaseOne, Goto, TypeOK, Releasing
  <2> QED
    BY <1>t, <2>1 DEF PositionHolds, Releasing, JobPhases
<1>2. CASE UNCHANGED <<pc, pos, slot>>
  BY <1>t, <1>2 DEF PositionHolds
<1>3. CASE StartCycle(p)
  BY <1>t, <1>3, RuntimeAssumption DEF StartCycle, Goto, TypeOK, PositionHolds, JobPhases, Source
<1>4. CASE EndCycle(p)
  BY <1>t, <1>4 DEF EndCycle, Goto, TypeOK, PositionHolds, JobPhases
<1>5. CASE Crash(p) \/ Exit(p)
  <2>1. Forget(p)
    BY <1>5 DEF Crash, Exit
  <2> QED
    BY <1>t, <2>1 DEF Forget, Goto, TypeOK, PositionHolds, JobPhases
<1>7. CASE Acquire(p)
  <2>1. pc[p] = "acquire" /\ pos[p] \in 1..NSource
    BY <1>7 DEF Acquire, At, Source
  <2>2. CASE pos[p] = NSource
    BY <1>t, <1>7, <2>2 DEF Acquire, Goto, TypeOK, PositionHolds, JobPhases
  <2>3. CASE pos[p] # NSource
    <3>1. pos'[p] = pos[p] + 1 /\ pc'[p] = "acquire"
      BY <1>t, <1>7, <2>1, <2>3 DEF Acquire, TypeOK
    <3> QED
      BY <1>t, <2>1, <2>3, <3>1, RuntimeAssumption DEF PositionHolds, JobPhases, Source
  <2> QED
    BY <2>2, <2>3
<1>8. CASE \E label \in {"out", "undo", "backout", "release", "failing", "loop"} : Leave(p, label)
  BY <1>8, LeavesPosition
<1>9. CASE LookUp(p)
  <2>1. pos[p] \in Sched
    BY <1>t, <1>9, RuntimeAssumption DEF LookUp, PositionHolds
  <2>2. LastScheduled(pos[p]) \in 0..MaxSlot[pos[p]]
    BY <1>t, <2>1, LastIsNewest
  <2>3. pos'[p] = pos[p] /\ slot'[p] = LastScheduled(pos[p]) /\ pc'[p] = "lookedUp"
    BY <1>t, <1>9 DEF LookUp, Goto, TypeOK, Job
  <2> QED
    BY <1>t, <2>1, <2>2, <2>3 DEF PositionHolds, JobPhases
<1>10. CASE /\ Goto(p, "loop")
            /\ pos' = [pos EXCEPT ![p] = @ + 1]
            /\ slot' = [slot EXCEPT ![p] = 0]
  <2>1. pos'[p] = pos[p] + 1 /\ pc'[p] = "loop"
    BY <1>t, <1>10 DEF Goto, TypeOK
  <2> QED
    BY <1>t, <2>1 DEF PositionHolds, JobPhases
<1>11. CASE RunJob(p)
  <2>1. pc[p] = "lookedUp" /\ pos[p] \in Sched /\ slot[p] \in 0..MaxSlot[pos[p]]
    BY <1>t, <1>11 DEF RunJob, At, PositionHolds, JobPhases
  <2>2. due[pos[p]] \in 0..MaxSlot[pos[p]] /\ slot[p] < due[pos[p]]
    BY <1>t, <1>11, <2>1 DEF RunJob, Job, TypeOK
  <2>3. slot'[p] = due[pos[p]] /\ pc'[p] = "running" /\ pos'[p] = pos[p]
    BY <1>t, <1>11 DEF RunJob, Goto, Job, TypeOK
  <2> QED
    BY <1>t, <2>1, <2>2, <2>3, RuntimeAssumption DEF PositionHolds, JobPhases
<1>12. CASE HandlerSettles(p) \/ HandlerAborted(p) \/ JoinSettles(p)
  <2>1. pc[p] \in {"running", "joining"} /\ pc'[p] \in {"joining", "ran"}
    BY <1>t, <1>12 DEF HandlerSettles, HandlerAborted, JoinSettles, At, Goto, TypeOK
  <2>2. UNCHANGED <<pos, slot>>
    BY <1>12 DEF HandlerSettles, HandlerAborted, JoinSettles
  <2> QED
    BY <1>t, <2>1, <2>2 DEF PositionHolds, JobPhases
<1>20. AcquireRefused(p) \/ LeaveLoop(p) \/ LookUpFails(p) \/ RecordFails(p) \/ SkipRecord(p)
       \/ AcquireRejected(p) \/ JoinExpires(p)
         => \E label \in {"out", "undo", "backout", "release", "failing", "loop"} : Leave(p, label)
  BY DEF AcquireRefused, LeaveLoop, LookUpFails, RecordFails, SkipRecord, AcquireRejected, JoinExpires
<1>21. Restart(p) \/ Close(p) \/ Signal(p) \/ FinishShutdown(p) \/ ShutdownTimesOut(p) \/ Stall(p)
       \/ ZombieSettles(p) \/ (\E s \in Source : HeartbeatFails(p, s))
         => UNCHANGED <<pc, pos, slot>>
  BY DEF Restart, Close, Signal, FinishShutdown, ShutdownTimesOut, Stall, ZombieSettles,
     HeartbeatFails, process
<1> QED
  BY <1>1, <1>2, <1>3, <1>4, <1>5, <1>7, <1>8, <1>9, <1>10, <1>11, <1>12, <1>20, <1>21
     DEF OwnStep, Continue, Settle, NotDue, Record, AfterRecord

(* So does every step, for every process.                                  *)
LEMMA PositionsKept == RuntimeInv /\ [Next]_vars => PositionsHold'
<1> SUFFICES ASSUME RuntimeInv, [Next]_vars, NEW q \in Process
             PROVE  PositionHolds(q)'
  BY DEF PositionsHold
<1>1. CASE Elsewhere
  BY <1>1 DEF Elsewhere, process, RuntimeInv, PositionsHold, PositionHolds
<1>2. ASSUME NEW p \in Process, OwnStep(p), q # p
      PROVE  PositionHolds(q)'
  <2>1. pc'[q] = pc[q] /\ pos'[q] = pos[q] /\ slot'[q] = slot[q] /\ PositionHolds(q)
    BY <1>2, Undisturbed DEF RuntimeInv, PositionsHold
  <2> QED
    BY <2>1 DEF PositionHolds
<1> QED
  BY <1>1, <1>2, OneSteps, OwnPosition

-----------------------------------------------------------------------------
(* A process knows its own handler: the join waits for it or declares the  *)
(* worker unresponsive (runner.ts).                                        *)
LEMMA OwnHandler ==
  ASSUME RuntimeInv, NEW p \in Process, OwnStep(p)
  PROVE  HandlerKnown(p)'
<1>t. TypeOK /\ HandlerKnown(p)
  BY DEF RuntimeInv, HandlersKnown
<1>1. CASE /\ pc[p] \notin {"running", "joining", "out"}
           /\ handler' = handler
  BY <1>t, <1>1 DEF HandlerKnown, TypeOK
<1>2. CASE RunJob(p)
  BY <1>t, <1>2 DEF RunJob, Goto, HandlerKnown, TypeOK
<1>3. CASE HandlerSettles(p) \/ JoinSettles(p) \/ ZombieSettles(p)
  BY <1>t, <1>3 DEF HandlerSettles, JoinSettles, ZombieSettles, HandlerKnown, TypeOK
<1>4. CASE HandlerAborted(p)
  BY <1>t, <1>4 DEF HandlerAborted, Goto, At, HandlerKnown, TypeOK
<1>5. CASE JoinExpires(p)
  BY <1>t, <1>5 DEF JoinExpires, Leave, Goto, At, HandlerKnown, TypeOK
<1>6. CASE Crash(p) \/ Exit(p)
  BY <1>t, <1>6 DEF Crash, Exit, Forget, HandlerKnown, TypeOK
<1>7. CASE StartCycle(p)
  BY <1>t, <1>7 DEF StartCycle, At, HandlerKnown, TypeOK
<1>8. CASE Restart(p)
  BY <1>t, <1>8 DEF Restart, HandlerKnown, TypeOK
<1>9. CASE Signal(p)
  BY <1>t, <1>9 DEF Signal, HandlerKnown, TypeOK
<1>10. CASE FinishShutdown(p) \/ ShutdownTimesOut(p)
  BY <1>t, <1>10 DEF FinishShutdown, ShutdownTimesOut, At, HandlerKnown, TypeOK
<1>11. CASE Close(p)
  BY <1>t, <1>11 DEF Close, At, HandlerKnown, TypeOK
<1>12. CASE Stall(p) \/ \E s \in Source : HeartbeatFails(p, s)
  BY <1>t, <1>12 DEF Stall, HeartbeatFails, process, HandlerKnown
<1>13. Acquire(p) \/ AcquireRefused(p) \/ AcquireRejected(p) \/ EndCycle(p) \/ LeaveLoop(p)
       \/ LookUp(p) \/ LookUpFails(p) \/ NotDue(p) \/ Record(p) \/ RecordFails(p) \/ SkipRecord(p)
       \/ (\E s \in Source : ReleaseOne(p, s))
         => /\ pc[p] \notin {"running", "joining", "out"}
            /\ handler' = handler
  BY DEF Acquire, AcquireRefused, AcquireRejected, EndCycle, LeaveLoop, LookUp, LookUpFails,
     NotDue, Record, RecordFails, SkipRecord, ReleaseOne, At
<1> QED
  BY <1>1, <1>2, <1>3, <1>4, <1>5, <1>6, <1>7, <1>8, <1>9, <1>10, <1>11, <1>12, <1>13
     DEF OwnStep, Continue, Settle

(* So does every step, for every process.                                  *)
LEMMA HandlersKept == RuntimeInv /\ [Next]_vars => HandlersKnown'
<1> SUFFICES ASSUME RuntimeInv, [Next]_vars, NEW q \in Process
             PROVE  HandlerKnown(q)'
  BY DEF HandlersKnown
<1>1. CASE Elsewhere
  BY <1>1 DEF Elsewhere, process, RuntimeInv, HandlersKnown, HandlerKnown
<1>2. ASSUME NEW p \in Process, OwnStep(p), q # p
      PROVE  HandlerKnown(q)'
  <2>1. pc'[q] = pc[q] /\ handler'[q] = handler[q] /\ status'[q] = status[q]
        /\ life'[q] = life[q] /\ HandlerKnown(q)
    BY <1>2, Undisturbed DEF RuntimeInv, HandlersKnown
  <2> QED
    BY <2>1 DEF HandlerKnown
<1> QED
  BY <1>1, <1>2, OneSteps, OwnHandler

-----------------------------------------------------------------------------
(* A handle becomes the current one by Acquire alone.                      *)
LEMMA OnlyAcquireClaims ==
  ASSUME RuntimeInv, NEW p \in Process, OwnStep(p), ~Acquire(p), NEW s \in Source
  PROVE  token'[p][s] = "current" => token[p][s] = "current"
<1>t. TypeOK
  BY DEF RuntimeInv
<1>1. CASE \E t \in Source : ReleaseOne(p, t)
  BY <1>t, <1>1 DEF ReleaseOne, CloseHandle, TypeOK
<1>2. CASE AcquireRejected(p)
  <2>1. token'[p] = Superseded(p, pos[p]) \/ token' = token
    BY <1>2 DEF AcquireRejected
  <2> QED
    BY <1>t, <2>1 DEF Superseded, TypeOK
<1>3. CASE Crash(p) \/ Exit(p)
  BY <1>t, <1>3 DEF Crash, Exit, Forget, NoTokens, TypeOK
<1>4. CASE token' = token
  BY <1>4
<1> QED
  BY <1>1, <1>2, <1>3, <1>4 DEF OwnStep, Continue, Settle, StartCycle, AcquireRefused,
     EndCycle, LeaveLoop, LookUp, LookUpFails, NotDue, RunJob, HandlerAborted, Record,
     JoinExpires, RecordFails, SkipRecord, FinishShutdown, ShutdownTimesOut, Close,
     JoinSettles, ZombieSettles, HandlerSettles, Stall, Restart, Signal, HeartbeatFails, process

(* The handle that Acquire opens supersedes every other of its source.     *)
LEMMA AcquireSupersedes ==
  ASSUME RuntimeInv, NEW p \in Process, Acquire(p), NEW q \in Process, NEW s \in Source,
         token'[q][s] = "current"
  PROVE  \/ s = pos[p] /\ q = p
         \/ s # pos[p] /\ token[q][s] = "current"
<1>t. TypeOK
  BY DEF RuntimeInv
<1>1. token'[q] = IF q = p THEN [token[p] EXCEPT ![pos[p]] = "current"] ELSE Superseded(q, pos[p])
  BY DEF Acquire
<1> QED
  BY <1>t, <1>1 DEF Superseded, TypeOK

(* A generation keeps one holder: acquire of lease.ts replaces the row and *)
(* its fence token in one statement.                                       *)
LEMMA OneHolderKept == RuntimeInv /\ [Next]_vars => OneHolder'
<1> SUFFICES ASSUME RuntimeInv, [Next]_vars, NEW q \in Process, NEW r \in Process, NEW s \in Source,
                    token'[q][s] = "current", token'[r][s] = "current"
             PROVE  q = r
  BY DEF OneHolder
<1>1. token[q][s] = "current" /\ token[r][s] = "current" => q = r
  BY DEF RuntimeInv, OneHolder
<1>2. CASE Elsewhere
  BY <1>1, <1>2 DEF Elsewhere, process
<1>3. ASSUME NEW p \in Process, OwnStep(p), ~Acquire(p)
      PROVE  q = r
  <2>1. ASSUME NEW x \in Process, token'[x][s] = "current"
        PROVE  token[x][s] = "current"
    BY <1>3, <2>1, Undisturbed, OnlyAcquireClaims
  <2> QED
    BY <1>1, <2>1
<1>4. ASSUME NEW p \in Process, Acquire(p)
      PROVE  q = r
  BY <1>1, <1>4, AcquireSupersedes
<1> QED
  BY <1>2, <1>3, <1>4, OneSteps

-----------------------------------------------------------------------------
(* A process that holds the generation keeps what it looked up in order:   *)
(* nothing newer than lastScheduledAt, nothing as new as the slot it runs. *)
LEMMA OwnLookUp ==
  ASSUME RuntimeInv, NEW p \in Process, OwnStep(p)
  PROVE  NothingSince(p)'
<1>t. TypeOK /\ NothingSince(p) /\ PositionHolds(p)
  BY DEF RuntimeInv, NothingRecordedSince, PositionsHold
<1>1. CASE pc'[p] \notin JobPhases
  BY <1>1 DEF NothingSince
<1>2. CASE LookUp(p)
  <2>1. pos[p] \in Sched
    BY <1>t, <1>2, RuntimeAssumption DEF LookUp, PositionHolds, TypeOK
  <2>2. \A n \in ledger[pos[p]] : n <= LastScheduled(pos[p])
    BY <1>t, <2>1, LastIsNewest
  <2>3. /\ pos'[p] = pos[p] /\ slot'[p] = LastScheduled(pos[p]) /\ pc'[p] = "lookedUp"
        /\ ledger' = ledger
    BY <1>t, <1>2 DEF LookUp, Goto, TypeOK, Job, cluster
  <2> QED
    BY <2>2, <2>3 DEF NothingSince, Job
<1>3. CASE RunJob(p)
  <2>1. pc[p] = "lookedUp" /\ pos[p] \in Sched /\ slot[p] \in 0..MaxSlot[pos[p]]
    BY <1>t, <1>3 DEF RunJob, At, PositionHolds, JobPhases
  <2>2. due[pos[p]] \in Nat /\ slot[p] < due[pos[p]] /\ ledger[pos[p]] \subseteq Nat
    BY <1>t, <1>3, <2>1 DEF RunJob, Job, TypeOK
  <2>3. /\ pos'[p] = pos[p] /\ slot'[p] = due[pos[p]] /\ pc'[p] = "running"
        /\ ledger' = ledger /\ token' = token
    BY <1>t, <1>3 DEF RunJob, Goto, TypeOK, Job, cluster
  <2>4. token[p][SourceOf[pos[p]]] = "current" => \A n \in ledger[pos[p]] : n <= slot[p]
    BY <1>t, <2>1 DEF NothingSince, JobPhases, Job, JobSource
  <2> QED
    BY <2>1, <2>2, <2>3, <2>4 DEF NothingSince, Job, JobSource
<1>4. CASE HandlerSettles(p) \/ HandlerAborted(p) \/ JoinSettles(p)
  <2>1. pc[p] \in {"running", "joining"} /\ pc'[p] \in {"joining", "ran"}
    BY <1>t, <1>4 DEF HandlerSettles, HandlerAborted, JoinSettles, At, Goto, TypeOK
  <2>2. UNCHANGED <<pos, slot, ledger, token>>
    BY <1>4 DEF HandlerSettles, HandlerAborted, JoinSettles, cluster
  <2> QED
    BY <1>t, <2>1, <2>2 DEF NothingSince, JobPhases, Job, JobSource
<1>5. CASE UNCHANGED <<pc, pos, slot, ledger, token>>
  BY <1>t, <1>5 DEF NothingSince, Job, JobSource
<1>6. ASSUME NEW label \in {"out", "undo", "backout", "release", "failing", "loop"},
             Leave(p, label) \/ Goto(p, label)
      PROVE  pc'[p] \notin JobPhases
  BY <1>t, <1>6 DEF Leave, Goto, JobPhases, TypeOK
<1>7. StartCycle(p) \/ Acquire(p) \/ (\E s \in Source : ReleaseOne(p, s)) => pc'[p] \notin JobPhases
  BY <1>t DEF StartCycle, Acquire, ReleaseOne, Goto, At, JobPhases, TypeOK
<1>8. AcquireRefused(p) \/ AcquireRejected(p) \/ EndCycle(p) \/ LeaveLoop(p) \/ LookUpFails(p)
      \/ NotDue(p) \/ JoinExpires(p) \/ Record(p) \/ RecordFails(p) \/ SkipRecord(p)
      \/ Crash(p) \/ Exit(p)
        => \E label \in {"out", "undo", "backout", "release", "failing", "loop"} :
             Leave(p, label) \/ Goto(p, label)
  BY DEF AcquireRefused, AcquireRejected, EndCycle, LeaveLoop, LookUpFails, NotDue, JoinExpires,
     Record, AfterRecord, RecordFails, SkipRecord, Crash, Exit, Forget
<1>9. Restart(p) \/ Close(p) \/ Signal(p) \/ FinishShutdown(p) \/ ShutdownTimesOut(p) \/ Stall(p)
       \/ ZombieSettles(p) \/ (\E s \in Source : HeartbeatFails(p, s))
         => UNCHANGED <<pc, pos, slot, ledger, token>>
  BY DEF Restart, Close, Signal, FinishShutdown, ShutdownTimesOut, Stall, ZombieSettles,
     HeartbeatFails, process, cluster
<1> QED
  BY <1>1, <1>2, <1>3, <1>4, <1>5, <1>6, <1>7, <1>8, <1>9 DEF OwnStep, Continue, Settle

(* Whoever records a slot holds the generation, so no other holder of it   *)
(* looked the same schedule up before.                                     *)
LEMMA LookUpsKept == RuntimeInv /\ [Next]_vars => NothingRecordedSince'
<1> SUFFICES ASSUME RuntimeInv, [Next]_vars, NEW q \in Process
             PROVE  NothingSince(q)'
  BY DEF NothingRecordedSince
<1>t. TypeOK /\ NothingSince(q)
  BY DEF RuntimeInv, NothingRecordedSince
<1>1. CASE Elsewhere
  BY <1>t, <1>1 DEF Elsewhere, process, NothingSince, Job, JobSource
<1>2. ASSUME NEW p \in Process, OwnStep(p), q # p, pc'[q] \in JobPhases,
             token'[q][SourceOf[pos'[q]]] = "current"
      PROVE  NothingSince(q)'
  <2>1. pc'[q] = pc[q] /\ pos'[q] = pos[q] /\ slot'[q] = slot[q]
    BY <1>2, Undisturbed
  <2>2. pos[q] \in Sched /\ SourceOf[pos[q]] \in Source
    BY <1>2, <2>1, JobOfPhase DEF Job, JobSource
  <2>3. token[q][SourceOf[pos[q]]] = "current"
    BY <1>2, <2>1, <2>2, Undisturbed
  <2>4. ledger'[pos[q]] = ledger[pos[q]]
    <3>1. CASE ledger' = ledger
      BY <3>1
    <3>2. CASE /\ token[p][JobSource(p)] = "current" /\ pc[p] = "ran"
               /\ \A k \in Sched : k # Job(p) => ledger'[k] = ledger[k]
      <4>1. JobSource(p) = SourceOf[pos[q]] => p = q
        BY <2>2, <2>3, <3>2 DEF RuntimeInv, OneHolder
      <4> QED
        BY <1>2, <2>2, <3>2, <4>1 DEF Job, JobSource
    <3> QED
      BY <1>2, <3>1, <3>2, OnlyRecordWrites
  <2> QED
    BY <1>t, <1>2, <2>1, <2>3, <2>4 DEF NothingSince, Job, JobSource
<1>3. ASSUME NEW p \in Process, OwnStep(p), q # p
      PROVE  NothingSince(q)'
  BY <1>2, <1>3 DEF NothingSince, JobSource
<1> QED
  BY <1>1, <1>3, OneSteps, OwnLookUp

-----------------------------------------------------------------------------
(* The invariant and what follows from it.                                 *)

(* The processes start outside their cycle, without handles.               *)
LEMMA RuntimeInit == Init => RuntimeInv
<1> SUFFICES ASSUME Init PROVE RuntimeInv
  OBVIOUS
<1>1. \A p \in Process : /\ token[p] = NoTokens /\ pc[p] = "out" /\ pos[p] = 1
                         /\ handler[p] = "none"
  BY DEF Init
<1>2. OneHolder
  BY <1>1 DEF OneHolder, NoTokens
<1>3. PositionsHold
  BY <1>1 DEF PositionsHold, PositionHolds, JobPhases
<1>4. NothingRecordedSince
  BY <1>1 DEF NothingRecordedSince, NothingSince, JobPhases
<1>5. HandlersKnown
  BY <1>1 DEF HandlersKnown, HandlerKnown
<1>6. TypeOK
  <2>1. NoTokens \in [Source -> {"none", "current", "stale"}] /\ NoneLost \in [Source -> BOOLEAN]
    BY DEF NoTokens, NoneLost
  <2>2. /\ faults \in 0..MaxFaults
        /\ \A k \in Sched : due[k] \in 0..MaxSlot[k] /\ ledger[k] \subseteq 1..MaxSlot[k]
    BY RuntimeAssumption DEF Init
  <2> QED
    BY <2>1, <2>2 DEF Init, TypeOK, Status, Phase
<1> QED
  BY <1>2, <1>3, <1>4, <1>5, <1>6 DEF RuntimeInv

(* The inductive invariant holds throughout: executeCycle, the runner and  *)
(* the supervisor keep positions, generations, lookups and handlers.       *)
THEOREM RuntimeInvariance == Spec => []RuntimeInv
<1>1. RuntimeInv /\ [Next]_vars => RuntimeInv'
  BY RuntimeTypes, PositionsKept, OneHolderKept, LookUpsKept, HandlersKept DEF RuntimeInv
<1> QED
  BY <1>1, RuntimeInit, PTL DEF Spec

(* Every variable keeps its type through executeCycle, shutdown and        *)
(* restart.                                                                *)
THEOREM RuntimeTypeOK == Spec => []TypeOK
<1>1. RuntimeInv => TypeOK
  BY DEF RuntimeInv
<1> QED
  BY <1>1, RuntimeInvariance, PTL

(* recordResult writes the slots of a schedule in order, whoever the       *)
(* workers are, however they stall, crash or take a lease over.            *)
THEOREM RecordedInOrder == Spec => SlotsRecordedInOrder
<1>1. ASSUME RuntimeInv, [Next]_vars, NEW k \in Sched, NEW n \in ledger'[k] \ ledger[k]
      PROVE  n > LastScheduled(k)
  <2>1. PICK p \in Process :
          /\ token[p][JobSource(p)] = "current" /\ pc[p] = "ran" /\ Job(p) \in Sched
          /\ \A j \in Sched : j # Job(p) => ledger'[j] = ledger[j]
          /\ ledger'[Job(p)] = ledger[Job(p)] \cup {slot[p]}
    BY <1>1, OneSteps, OnlyRecordWrites DEF Elsewhere
  <2>2. k = Job(p) /\ n = slot[p]
    BY <1>1, <2>1
  <2>3. slot[p] \in 0..MaxSlot[k] /\ slot[p] > 0 /\ \A m \in ledger[k] : m < slot[p]
    BY <1>1, <2>1, <2>2 DEF RuntimeInv, NothingRecordedSince, NothingSince, PositionsHold,
       PositionHolds, JobPhases, Job
  <2>4. /\ LastScheduled(k) \in 0..MaxSlot[k] /\ MaxSlot[k] \in Nat
        /\ ledger[k] # {} => LastScheduled(k) \in ledger[k]
    BY <1>1, LastIsNewest, RuntimeAssumption DEF RuntimeInv
  <2>5. CASE ledger[k] = {}
    BY <2>2, <2>3, <2>5 DEF LastScheduled
  <2>6. CASE ledger[k] # {}
    BY <2>2, <2>3, <2>4, <2>6
  <2> QED
    BY <2>5, <2>6
<1>2. RuntimeInv /\ [Next]_vars =>
        [\A k \in Sched : \A n \in ledger'[k] \ ledger[k] : n > LastScheduled(k)]_vars
  BY <1>1
<1> QED
  BY <1>2, RuntimeInvariance, PTL DEF Spec, SlotsRecordedInOrder

(* While a handler may run, its process never releases its lease: the      *)
(* cycle that declares it unresponsive (runner.ts) skips the release.      *)
THEOREM NoHandover == Spec => NoVoluntaryHandover
<1>1. ASSUME RuntimeInv, [Next]_vars, NEW p \in Process, NEW s \in Source,
             handler[p] # "none", token[p][s] = "current", row[s] = "live"
      PROVE  row'[s] \in {"live", "expired"}
  <2>t. TypeOK
    BY <1>1 DEF RuntimeInv
  <2>1. ASSUME NEW q \in Process, NEW t \in Source, ReleaseOne(q, t)
        PROVE  row'[s] = row[s]
    <3>1. pc[p] \notin Releasing
      BY <1>1, <2>t DEF RuntimeInv, HandlersKnown, HandlerKnown, TypeOK, Releasing
    <3>2. token[q][t] = "current" => ~(t = s)
      BY <1>1, <2>1, <3>1 DEF RuntimeInv, OneHolder, ReleaseOne, Releasing
    <3> QED
      BY <2>t, <2>1, <3>2 DEF ReleaseOne, TypeOK
  <2>2. ASSUME NEW q \in Process, Acquire(q) \/ AcquireRejected(q)
        PROVE  row'[s] \in {row[s], "live"}
    <3>1. row' = row \/ row' = [row EXCEPT ![pos[q]] = "live"]
      BY <2>2 DEF Acquire, AcquireRejected, Claim
    <3> QED
      BY <2>t, <3>1 DEF TypeOK
  <2>3. ASSUME NEW q \in Process, Stall(q)
        PROVE  row'[s] \in {row[s], "expired"}
    BY <2>3 DEF Stall
  <2>4. ASSUME NEW t \in Source, Expire(t)
        PROVE  row'[s] \in {row[s], "expired"}
    BY <2>t, <2>4 DEF Expire, TypeOK
  <2>5. \/ row' = row
        \/ \E t \in Source : Expire(t)
        \/ \E q \in Process : Stall(q) \/ Acquire(q) \/ AcquireRejected(q)
                              \/ \E t \in Source : ReleaseOne(q, t)
    BY <1>1 DEF Next, Continue, Settle, NewSlot, StartCycle, AcquireRefused,
       EndCycle, LeaveLoop, LookUp, LookUpFails, NotDue, RunJob, HandlerAborted, Record,
       JoinExpires, RecordFails, SkipRecord, FinishShutdown, ShutdownTimesOut, Close, Exit, Crash,
       JoinSettles, ZombieSettles, HandlerSettles, Restart, Signal, HeartbeatFails, cluster, vars
  <2> QED
    BY <1>1, <2>1, <2>2, <2>3, <2>4, <2>5
<1>2. ASSUME RuntimeInv, [Next]_vars
      PROVE  [\A p \in Process, s \in Source :
                handler[p] # "none" /\ token[p][s] = "current" /\ row[s] = "live"
                  => row'[s] \in {"live", "expired"}]_vars
  BY <1>1, <1>2
<1> QED
  BY <1>2, RuntimeInvariance, PTL DEF Spec, NoVoluntaryHandover
=============================================================================
