--------------------------- MODULE WorkerRuntime ---------------------------
(***************************************************************************)
(* The scheduled worker process: the supervisor loop (supervisor.ts), the  *)
(* cycle of the runtime (runtime.ts), the job runner with its timeout,     *)
(* cancellation and join (runner.ts), the slot choice (schedule.ts) and    *)
(* the process entry (bootstrap.ts, main.ts), for several processes that   *)
(* share the schedule ledger and one lease row per source.                 *)
(*                                                                         *)
(* WorkerLease shows what a lease row and a fenced write guarantee; here a *)
(* row is absent, live or expired, a handle is of the row's generation or  *)
(* of an earlier one, and a fenced write is one step that needs a handle   *)
(* of the current generation and a live row.                               *)
(***************************************************************************)
EXTENDS Naturals, FiniteSets

CONSTANTS
  Process,     \* worker processes; a restarted one keeps its ownerId
  NSource,     \* sources are 1..NSource, in the sorted order of the cycle
  SourceOf,    \* the source of each schedule, schedules in cycle order
  MaxSlot,     \* bound on the slots of each schedule
  MaxFaults    \* bound on crashes, stalls and database failures

Source == 1..NSource
Sched == DOMAIN SourceOf
NSched == Cardinality(Sched)

ASSUME RuntimeAssumption ==
  /\ NSource \in Nat /\ NSource > 0
  /\ NSched \in Nat /\ Sched = 1..NSched
  /\ \A k \in Sched : SourceOf[k] \in Source
  /\ MaxSlot \in [Sched -> Nat] /\ MaxFaults \in Nat

VARIABLES
  due,       \* per schedule, its newest slot so far, 0 before the anchor
  ledger,    \* worker_job_results: per schedule, the slots with a result
  row,       \* worker_leases, per source
  faults,    \* how many faults have happened
  life,      \* per process: "up", "closing" (supervisor returned), "exited"
  stopping,  \* per process: the shutdown signal was received
  status,    \* per process: WorkerRuntime.status
  pc,        \* per process: where executeCycle is
  pos,       \* per process: position in the source or schedule loop
  token,     \* per process and source: the open handle, if any
  lost,      \* per process and source: the handle's signal is aborted
  slot,      \* per process: lastScheduledAt once looked up, then the request
  handler    \* per process: "none", "active" or "zombie"

cluster == <<due, ledger, row, faults>>
process == <<life, stopping, status, pc, pos, token, lost, slot, handler>>
vars == <<cluster, process>>

Status == {"idle", "running", "draining", "stopped", "fatal"}
Phase == {"out", "acquire", "backout", "undo", "loop", "lookedUp", "running", "joining",
          "ran", "release", "failing"}

TypeOK ==
  /\ due \in [Sched -> Nat] /\ ledger \in [Sched -> SUBSET Nat]
  /\ \A k \in Sched : due[k] \in 0..MaxSlot[k] /\ ledger[k] \subseteq 1..MaxSlot[k]
  /\ row \in [Source -> {"absent", "live", "expired"}]
  /\ faults \in 0..MaxFaults
  /\ life \in [Process -> {"up", "closing", "exited"}]
  /\ stopping \in [Process -> BOOLEAN]
  /\ status \in [Process -> Status]
  /\ pc \in [Process -> Phase]
  /\ pos \in [Process -> Nat]
  /\ token \in [Process -> [Source -> {"none", "current", "stale"}]]
  /\ lost \in [Process -> [Source -> BOOLEAN]]
  /\ slot \in [Process -> {0} \cup UNION {0..MaxSlot[k] : k \in Sched}]
  /\ handler \in [Process -> {"none", "active", "zombie"}]

NoTokens == [s \in Source |-> "none"]
NoneLost == [s \in Source |-> FALSE]

Init ==
  /\ due = [k \in Sched |-> 0]
  /\ ledger = [k \in Sched |-> {}]
  /\ row = [s \in Source |-> "absent"]
  /\ faults = 0
  /\ life = [p \in Process |-> "up"]
  /\ stopping = [p \in Process |-> FALSE]
  /\ status = [p \in Process |-> "idle"]
  /\ pc = [p \in Process |-> "out"]
  /\ pos = [p \in Process |-> 1]
  /\ token = [p \in Process |-> NoTokens]
  /\ lost = [p \in Process |-> NoneLost]
  /\ slot = [p \in Process |-> 0]
  /\ handler = [p \in Process |-> "none"]

-----------------------------------------------------------------------------
(* Derived notions.  A definition named ...Mutant is a deliberate error in *)
(* the definition after it: it shows that a property is able to fail.      *)

(* controller.signal of the runtime: requestShutdown or markFatal.         *)
Aborted(p) == status[p] \in {"draining", "stopped", "fatal"}

(* workSignal: the controller or any lease signal.                         *)
WorkAborted(p) == Aborted(p) \/ \E s \in Source : lost[p][s]

UnfencedMutant(p, s) == token[p][s] # "none"
Current(p, s) == token[p][s] = "current" /\ row[s] = "live"

(* getLastScheduledAt: the newest slot with a result of any status.        *)
LastScheduled(k) ==
  IF ledger[k] = {} THEN 0
  ELSE CHOOSE n \in ledger[k] : \A m \in ledger[k] : m <= n

Job(p) == pos[p]
JobSource(p) == SourceOf[pos[p]]

Goto(p, label) == pc' = [pc EXCEPT ![p] = label]
At(p, label) == life[p] = "up" /\ pc[p] = label

(* Leaving a loop of executeCycle: its local variables end with it.        *)
Leave(p, label) ==
  /\ Goto(p, label)
  /\ pos' = [pos EXCEPT ![p] = 1]
  /\ slot' = [slot EXCEPT ![p] = 0]

Fault == faults < MaxFaults /\ faults' = faults + 1

-----------------------------------------------------------------------------
(* Environment.                                                            *)

NewSlot(k) ==
  /\ due[k] < MaxSlot[k]
  /\ due' = [due EXCEPT ![k] = @ + 1]
  /\ UNCHANGED <<ledger, row, faults, process>>

Renewed(s) ==
  \E p \in Process :
    life[p] = "up" /\ token[p][s] = "current" /\ ~lost[p][s]

(* A row no process renews expires.                                        *)
Expire(s) ==
  /\ row[s] = "live" /\ ~Renewed(s)
  /\ row' = [row EXCEPT ![s] = "expired"]
  /\ UNCHANGED <<due, ledger, faults, process>>

(* A process stalls past the expiry of some of its rows and then goes on.  *)
Stall(p) ==
  /\ life[p] = "up" /\ Fault
  /\ \E S \in SUBSET {s \in Source : Current(p, s) /\ ~lost[p][s]} :
       /\ S # {}
       /\ row' = [s \in Source |-> IF s \in S THEN "expired" ELSE row[s]]
  /\ UNCHANGED <<due, ledger, process>>

(* A heartbeat that fails, or finds its generation gone, aborts the handle.*)
HeartbeatFails(p, s) ==
  /\ life[p] = "up" /\ token[p][s] # "none" /\ ~lost[p][s]
  /\ \/ ~Current(p, s) /\ UNCHANGED faults
     \/ Current(p, s) /\ Fault
  /\ lost' = [lost EXCEPT ![p][s] = TRUE]
  /\ UNCHANGED <<due, ledger, row, life, stopping, status, pc, pos,
                 token, slot, handler>>

Forget(p) ==
  /\ token' = [token EXCEPT ![p] = NoTokens]
  /\ lost' = [lost EXCEPT ![p] = NoneLost]
  /\ handler' = [handler EXCEPT ![p] = "none"]
  /\ slot' = [slot EXCEPT ![p] = 0]
  /\ pos' = [pos EXCEPT ![p] = 1]
  /\ Goto(p, "out")

Crash(p) ==
  /\ life[p] # "exited"
  /\ Fault
  /\ life' = [life EXCEPT ![p] = "exited"]
  /\ Forget(p)
  /\ UNCHANGED <<due, ledger, row, stopping, status>>

(* The container runtime restarts a process the operator did not stop.     *)
Restart(p) ==
  /\ life[p] = "exited" /\ ~stopping[p]
  /\ life' = [life EXCEPT ![p] = "up"]
  /\ status' = [status EXCEPT ![p] = "idle"]
  /\ UNCHANGED <<cluster, stopping, pc, pos, token, lost, slot, handler>>

(* SIGTERM or SIGINT: superviseWorker calls requestShutdown at once.       *)
Signal(p) ==
  /\ life[p] = "up" /\ ~stopping[p]
  /\ stopping' = [stopping EXCEPT ![p] = TRUE]
  /\ status' = [status EXCEPT ![p] =
       IF @ \in {"fatal", "stopped"} THEN @ ELSE "draining"]
  /\ UNCHANGED <<cluster, life, pc, pos, token, lost, slot, handler>>

-----------------------------------------------------------------------------
(* The cycle.  Acquisition: one lease per source, in order, all or none.   *)

StartCycle(p) ==
  /\ At(p, "out") /\ status[p] = "idle" /\ ~stopping[p]
  /\ status' = [status EXCEPT ![p] = "running"]
  /\ pos' = [pos EXCEPT ![p] = 1]
  /\ Goto(p, "acquire")
  /\ UNCHANGED <<cluster, life, stopping, token, lost, slot, handler>>

(* A new generation of the row: handles of the old one are stale.          *)
AbsentOnlyMutant(s) ==
  /\ row[s] = "absent"
  /\ row' = [row EXCEPT ![s] = "live"]

Claim(s) ==
  /\ row[s] # "live"
  /\ row' = [row EXCEPT ![s] = "live"]

Superseded(q, s) ==
  IF token[q][s] = "current" THEN [token[q] EXCEPT ![s] = "stale"] ELSE token[q]

Acquire(p) ==
  LET s == pos[p] IN
  /\ At(p, "acquire") /\ s \in Source /\ ~Aborted(p)
  /\ Claim(s)
  /\ token' = [q \in Process |->
       IF q = p THEN [token[p] EXCEPT ![s] = "current"] ELSE Superseded(q, s)]
  /\ IF s = NSource
     THEN pos' = [pos EXCEPT ![p] = 1] /\ Goto(p, "loop")
     ELSE pos' = [pos EXCEPT ![p] = s + 1] /\ UNCHANGED pc
  /\ UNCHANGED <<due, ledger, faults, life, stopping, status, lost, slot, handler>>

AcquireRefused(p) ==
  LET s == pos[p] IN
  /\ At(p, "acquire") /\ ~Aborted(p)
  /\ row[s] = "live"
  /\ Leave(p, "backout")
  /\ UNCHANGED <<cluster, life, stopping, status, token, lost, handler>>

(* The acquire is rejected: by the shutdown, or by a timeout or database   *)
(* error, after which the claim may nevertheless have committed.           *)
AcquireRejected(p) ==
  LET s == pos[p] IN
  /\ At(p, "acquire")
  /\ IF Aborted(p) THEN UNCHANGED faults ELSE Fault
  /\ \/ Claim(s) /\ token' = [q \in Process |-> Superseded(q, s)]
     \/ UNCHANGED <<row, token>>
  /\ Leave(p, "undo")
  /\ UNCHANGED <<due, ledger, life, stopping, status, lost, handler>>

(* release(): deletes the row of its own generation, expired or not; the   *)
(* handle is closed whatever the answer.                                   *)
CloseHandle(p, s) ==
  /\ token' = [token EXCEPT ![p][s] = "none"]
  /\ lost' = [lost EXCEPT ![p][s] = FALSE]

(* A release that throws while backing out of a refused cycle reaches the  *)
(* catch clause, which closes the rest and rethrows unless shutting down.  *)
ReleaseOne(p, s) ==
  /\ life[p] = "up" /\ pc[p] \in {"backout", "undo", "failing", "release"}
  /\ token[p][s] # "none"
  /\ CloseHandle(p, s)
  /\ \/ /\ token[p][s] = "current"
        /\ row' = [row EXCEPT ![s] = "absent"]
        /\ UNCHANGED <<faults, pc>>
     \/ /\ \/ token[p][s] = "stale" /\ UNCHANGED faults
           \/ token[p][s] = "current" /\ Fault
        /\ UNCHANGED row
        /\ IF pc[p] = "backout" THEN Goto(p, "undo") ELSE UNCHANGED pc
  /\ UNCHANGED <<due, ledger, life, stopping, status, pos, slot, handler>>

AllClosed(p) == token[p] = NoTokens

(* The cycle ends: fatal when it threw, otherwise idle unless draining.    *)
EndCycle(p) ==
  /\ life[p] = "up" /\ pc[p] \in {"backout", "undo", "failing", "release"}
  /\ AllClosed(p)
  /\ status' = [status EXCEPT ![p] =
       IF pc[p] = "failing" \/ (pc[p] = "undo" /\ ~Aborted(p)) THEN "fatal"
       ELSE IF @ = "running" THEN "idle" ELSE @]
  /\ Goto(p, "out")
  /\ UNCHANGED <<cluster, life, stopping, pos, token, lost, slot, handler>>

-----------------------------------------------------------------------------
(* The schedule loop.                                                      *)

LeaveLoop(p) ==
  /\ \/ At(p, "loop") /\ (WorkAborted(p) \/ pos[p] > NSched)
     \/ At(p, "lookedUp") /\ WorkAborted(p)
  /\ Leave(p, "release")
  /\ UNCHANGED <<cluster, life, stopping, status, token, lost, handler>>

LookUp(p) ==
  /\ At(p, "loop") /\ ~WorkAborted(p) /\ pos[p] <= NSched
  /\ slot' = [slot EXCEPT ![p] = LastScheduled(Job(p))]
  /\ Goto(p, "lookedUp")
  /\ UNCHANGED <<cluster, life, stopping, status, pos, token, lost, handler>>

LookUpFails(p) ==
  /\ At(p, "loop") /\ ~WorkAborted(p) /\ pos[p] <= NSched
  /\ Fault
  /\ Leave(p, "failing")
  /\ UNCHANGED <<due, ledger, row, life, stopping, status, token, lost, handler>>

(* newestMissedWorkerJob against the ledger as it was read.                *)
NotDue(p) ==
  /\ At(p, "lookedUp") /\ ~WorkAborted(p)
  /\ slot[p] >= due[Job(p)]
  /\ pos' = [pos EXCEPT ![p] = @ + 1]
  /\ slot' = [slot EXCEPT ![p] = 0]
  /\ Goto(p, "loop")
  /\ UNCHANGED <<cluster, life, stopping, status, token, lost, handler>>

RunJob(p) ==
  /\ At(p, "lookedUp") /\ ~WorkAborted(p)
  /\ slot[p] < due[Job(p)]
  /\ slot' = [slot EXCEPT ![p] = due[Job(p)]]
  /\ handler' = [handler EXCEPT ![p] = "active"]
  /\ Goto(p, "running")
  /\ UNCHANGED <<cluster, life, stopping, status, pos, token, lost>>

(* The handler settles first, with a result that is not modelled ...       *)
HandlerSettles(p) ==
  /\ At(p, "running")
  /\ handler' = [handler EXCEPT ![p] = "none"]
  /\ Goto(p, "ran")
  /\ UNCHANGED <<cluster, life, stopping, status, pos, token, lost, slot>>

(* ... or the timeout or the caller's abort wins and forces the status.    *)
HandlerAborted(p) ==
  /\ At(p, "running")
  /\ Goto(p, "joining")
  /\ UNCHANGED <<cluster, life, stopping, status, pos, token, lost, slot, handler>>

JoinSettles(p) ==
  /\ At(p, "joining")
  /\ handler' = [handler EXCEPT ![p] = "none"]
  /\ Goto(p, "ran")
  /\ UNCHANGED <<cluster, life, stopping, status, pos, token, lost, slot>>

ReleasingMutant(p) ==
  /\ At(p, "joining")
  /\ handler' = [handler EXCEPT ![p] = "zombie"]
  /\ Leave(p, "failing")
  /\ UNCHANGED <<cluster, life, stopping, status, token, lost>>

NoGraceTimerMutant(p) == FALSE

(* WorkerUnresponsiveError: no lease is released, the runtime is fatal.    *)
JoinExpires(p) ==
  /\ At(p, "joining")
  /\ handler' = [handler EXCEPT ![p] = "zombie"]
  /\ status' = [status EXCEPT ![p] = "fatal"]
  /\ Leave(p, "out")
  /\ UNCHANGED <<cluster, life, stopping, token, lost>>

AfterRecord(p) ==
  IF WorkAborted(p)
  THEN Leave(p, "release")
  ELSE /\ Goto(p, "loop")
       /\ pos' = [pos EXCEPT ![p] = @ + 1]
       /\ slot' = [slot EXCEPT ![p] = 0]

(* recordResult: a fenced insert, once per job identity.                   *)
Record(p) ==
  LET k == Job(p) IN
  /\ At(p, "ran") /\ ~lost[p][JobSource(p)]
  /\ Current(p, JobSource(p))
  /\ slot[p] \notin ledger[k]
  /\ ledger' = [ledger EXCEPT ![k] = @ \cup {slot[p]}]
  /\ \/ AfterRecord(p) /\ UNCHANGED faults
     \/ Fault /\ Leave(p, "failing")   \* the answer is lost
  /\ UNCHANGED <<due, row, life, stopping, status, token, lost, handler>>

(* A stale fence, a conflicting result or a database error is thrown.      *)
RecordFails(p) ==
  /\ At(p, "ran") /\ ~lost[p][JobSource(p)]
  /\ IF Current(p, JobSource(p)) /\ slot[p] \notin ledger[Job(p)]
     THEN Fault ELSE UNCHANGED faults
  /\ Leave(p, "failing")
  /\ UNCHANGED <<due, ledger, row, life, stopping, status, token, lost, handler>>

(* A job that lost its own lease is not recorded.                          *)
SkipRecord(p) ==
  /\ At(p, "ran") /\ lost[p][JobSource(p)]
  /\ Leave(p, "release")
  /\ UNCHANGED <<cluster, life, stopping, status, token, lost, handler>>

-----------------------------------------------------------------------------
(* Shutdown and exit.                                                      *)

FinishShutdown(p) ==
  /\ At(p, "out") /\ status[p] = "draining"
  /\ status' = [status EXCEPT ![p] = "stopped"]
  /\ UNCHANGED <<cluster, life, stopping, pc, pos, token, lost, slot, handler>>

ShutdownTimesOut(p) ==
  /\ life[p] = "up" /\ pc[p] # "out" /\ status[p] = "draining"
  /\ status' = [status EXCEPT ![p] = "fatal"]
  /\ UNCHANGED <<cluster, life, stopping, pc, pos, token, lost, slot, handler>>

(* superviseWorker returns and the connection pool is closed.              *)
Close(p) ==
  /\ At(p, "out") /\ status[p] \in {"stopped", "fatal"}
  /\ life' = [life EXCEPT ![p] = "closing"]
  /\ UNCHANGED <<cluster, stopping, status, pc, pos, token, lost, slot, handler>>

(* main.ts sets process.exitCode: node exits once nothing keeps its event  *)
(* loop alive, and a handler that never settled may do so forever.         *)
Exit(p) ==
  /\ life[p] = "closing" /\ handler[p] = "none"
  /\ life' = [life EXCEPT ![p] = "exited"]
  /\ Forget(p)
  /\ UNCHANGED <<cluster, stopping, status>>

ZombieSettles(p) ==
  /\ handler[p] = "zombie"
  /\ handler' = [handler EXCEPT ![p] = "none"]
  /\ UNCHANGED <<cluster, life, stopping, status, pc, pos, token, lost, slot>>

(* What the event loop runs by itself, and what it leaves to the handler.  *)
Continue(p) ==
  \/ StartCycle(p) \/ Acquire(p) \/ AcquireRefused(p) \/ AcquireRejected(p)
  \/ \E s \in Source : ReleaseOne(p, s)
  \/ EndCycle(p) \/ LeaveLoop(p) \/ LookUp(p) \/ LookUpFails(p) \/ NotDue(p)
  \/ RunJob(p) \/ HandlerAborted(p) \/ JoinExpires(p)
  \/ Record(p) \/ RecordFails(p) \/ SkipRecord(p)
  \/ FinishShutdown(p) \/ ShutdownTimesOut(p) \/ Close(p) \/ Exit(p)

Settle(p) ==
  \/ JoinSettles(p) \/ ZombieSettles(p) \/ HandlerSettles(p)

Next ==
  \/ \E k \in Sched : NewSlot(k)
  \/ \E s \in Source : Expire(s)
  \/ \E p \in Process :
       \/ Continue(p) \/ Settle(p) \/ Stall(p) \/ Crash(p) \/ Restart(p) \/ Signal(p)
       \/ \E s \in Source : HeartbeatFails(p, s)

Spec == Init /\ [][Next]_vars

(* The event loop runs every enabled continuation and timer (the timeout   *)
(* and join timers make a job leave a hung handler), a heartbeat notices   *)
(* a lost row, a row no one renews expires, and the container runtime      *)
(* restarts an exited process.  Nothing obliges a handler to settle.       *)
Fairness ==
  /\ \A p \in Process : WF_vars(Continue(p)) /\ WF_vars(Restart(p))
  /\ \A p \in Process, s \in Source : WF_vars(HeartbeatFails(p, s) /\ faults' = faults)
  /\ \A s \in Source : WF_vars(Expire(s))

FairSpec == Spec /\ Fairness

-----------------------------------------------------------------------------
(* Safety.                                                                 *)

(* Results of a schedule are recorded in slot order, across processes,     *)
(* takeovers and stalled cycles: a late worker never writes an old slot    *)
(* behind a newer one (state-store contract of runtime.ts).                *)
SlotsRecordedInOrder ==
  [][\A k \in Sched : \A n \in ledger'[k] \ ledger[k] : n > LastScheduled(k)]_vars

(* While a handler may still be mutating state, its lease ends only by     *)
(* expiry: the process never hands it over (WorkerUnresponsiveError).      *)
NoVoluntaryHandover ==
  [][\A p \in Process, s \in Source :
       handler[p] # "none" /\ token[p][s] = "current" /\ row[s] = "live"
         => row'[s] \in {"live", "expired"}]_vars

-----------------------------------------------------------------------------
(* Liveness.                                                               *)

(* A signalled process leaves its cycle, however its handler behaves.      *)
ShutdownCompletes ==
  \A p \in Process : stopping[p] /\ life[p] = "up" ~> life[p] # "up"

(* While some process is never stopped, the newest slot of every schedule  *)
(* gets a result, provided handlers do not hang for ever again: a process  *)
(* that hangs past its grace is restarted and repeats the slot.            *)
NewestSlotRecorded ==
  (\A p \in Process : <>[](handler[p] # "zombie")) =>
    \A k \in Sched :
      due[k] = MaxSlot[k] ~>
        MaxSlot[k] \in ledger[k] \/ \A p \in Process : stopping[p]
=============================================================================
