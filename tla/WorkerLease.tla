---------------------------- MODULE WorkerLease ----------------------------
(***************************************************************************)
(* The PostgreSQL worker lease (packages/db/src/worker-lease.ts) and the   *)
(* fenced transactions that persist evidence and schedule results under it *)
(* (packages/db/src/ingestion.ts, worker-state.ts).                        *)
(*                                                                         *)
(* One row of worker_leases is modelled: the advisory lock, the row lock   *)
(* and the fence are all per lease key, so keys do not interact here.      *)
(* Every statement runs in a database session.  A lease operation waits    *)
(* for the transaction-level advisory lock, reads clock_timestamp() and    *)
(* applies one conditional statement; a fenced transaction checks its      *)
(* token without a lock, writes, then takes the row FOR UPDATE and holds   *)
(* it until it commits.  A caller that gives up on an operation (timeout   *)
(* or abort) leaves the session behind, which may be cancelled by the      *)
(* server or may still commit.                                             *)
(***************************************************************************)
EXTENDS Naturals

CONSTANTS
  Owner,      \* worker processes, by ownerId
  NoOwner,    \* the owner of an absent row
  Session,    \* database sessions
  Ttl,        \* lease lifetime, in clock ticks
  MaxClock    \* bound on the database clock

ASSUME LeaseAssumption ==
  /\ NoOwner \notin Owner
  /\ Ttl \in Nat \ {0}
  /\ MaxClock \in Nat

VARIABLES
  clock,          \* clock_timestamp() of the database
  lease,          \* the worker_leases row; its gen is acquired_at, 0 if absent
  session,        \* what each database session is doing
  handle,         \* the AcquiredPostgresWorkerLease of each process
  issued,         \* history: the highest generation ever stored in the row
  lastCommitted   \* history: the generation of the last fenced commit

vars == <<clock, lease, session, handle, issued, lastCommitted>>

Row == [gen : Nat, owner : Owner \cup {NoOwner}, expires : Nat]
NoRow == [gen |-> 0, owner |-> NoOwner, expires |-> 0]

LeaseKinds == {"claim", "renew", "release"}
Work ==
  [kind : LeaseKinds \cup {"idle", "fenced"},
   phase : {"idle", "waiting", "locked", "begun", "working", "fencing", "fenced"},
   owner : Owner \cup {NoOwner},
   gen : Nat,        \* the generation the operation is conditional on
   t : Nat,          \* its reading of clock_timestamp()
   live : BOOLEAN]   \* the caller still waits for the answer
Idle == [kind |-> "idle", phase |-> "idle", owner |-> NoOwner, gen |-> 0,
         t |-> 0, live |-> FALSE]

Handle == [status : {"none", "acquiring", "held", "lost", "releasing"},
           gen : Nat]

TypeOK ==
  /\ clock \in Nat
  /\ lease \in Row
  /\ session \in [Session -> Work]
  /\ handle \in [Owner -> Handle]
  /\ issued \in Nat
  /\ lastCommitted \in Nat

Init ==
  /\ clock = 1
  /\ lease = NoRow
  /\ session = [s \in Session |-> Idle]
  /\ handle = [o \in Owner |-> [status |-> "none", gen |-> 0]]
  /\ issued = 0
  /\ lastCommitted = 0

-----------------------------------------------------------------------------
(* Locks.  A session holds the advisory lock from the moment it enters     *)
(* until its transaction ends, and the row lock from the before-commit     *)
(* check until its transaction ends.  A definition named ...Mutant is a    *)
(* deliberate error in the definition after it: it shows that a property   *)
(* is able to fail.                                                        *)
AdvisoryLockFree == \A s \in Session : session[s].phase # "locked"
NoRowLockMutant == TRUE
RowLockFree == \A s \in Session : session[s].phase # "fenced"

(* The WHERE clause of renew and release, and of the fence query.          *)
OwnerOnlyMutant(w) == lease.gen # 0 /\ lease.owner = w.owner
Matches(w) == lease.gen # 0 /\ lease.gen = w.gen /\ lease.owner = w.owner

AwaitedBy(o, kind) ==
  \E s \in Session :
    session[s].live /\ session[s].kind = kind /\ session[s].owner = o

Start(s, w) ==
  /\ session[s] = Idle
  /\ session' = [session EXCEPT ![s] = w]

Finish(s) == session' = [session EXCEPT ![s] = Idle]

Request(kind, o, g) ==
  [kind |-> kind, phase |-> "waiting", owner |-> o, gen |-> g, t |-> 0,
   live |-> TRUE]

(* A handle whose controller is aborted; release() is unaffected by it.    *)
Aborted(h) == IF h.status = "held" THEN [h EXCEPT !.status = "lost"] ELSE h

-----------------------------------------------------------------------------
(* The process side.                                                       *)

Acquire(o, s) ==
  /\ handle[o].status = "none"
  /\ Start(s, Request("claim", o, 0))
  /\ handle' = [handle EXCEPT ![o].status = "acquiring"]
  /\ UNCHANGED <<clock, lease, issued, lastCommitted>>

(* heartbeat(): refused once releasing or aborted, and shared in flight.   *)
Heartbeat(o, s) ==
  /\ handle[o].status = "held"
  /\ ~AwaitedBy(o, "renew")
  /\ Start(s, Request("renew", o, handle[o].gen))
  /\ UNCHANGED <<clock, lease, handle, issued, lastCommitted>>

(* release() stops the heartbeat timer at once ...                         *)
BeginRelease(o) ==
  /\ handle[o].status \in {"held", "lost"}
  /\ handle' = [handle EXCEPT ![o].status = "releasing"]
  /\ UNCHANGED <<clock, lease, session, issued, lastCommitted>>

(* ... and sends its delete after the active heartbeat has settled.        *)
SendRelease(o, s) ==
  /\ handle[o].status = "releasing"
  /\ ~AwaitedBy(o, "renew")
  /\ ~AwaitedBy(o, "release")
  /\ Start(s, Request("release", o, handle[o].gen))
  /\ UNCHANGED <<clock, lease, handle, issued, lastCommitted>>

(* runBounded: the deadline or the caller's signal rejects the promise;    *)
(* the transaction it raced is left to the server.                         *)
GiveUp(s) ==
  LET w == session[s] IN
  /\ w.live
  /\ session' = [session EXCEPT ![s].live = FALSE]
  /\ handle' = [handle EXCEPT ![w.owner] =
       IF w.kind = "renew" THEN Aborted(@) ELSE [@ EXCEPT !.status = "none"]]
  /\ UNCHANGED <<clock, lease, issued, lastCommitted>>

(* A process dies.  Its sessions are left to the server, its tokens are    *)
(* forgotten, its row stays until it expires.                              *)
Crash(o) ==
  /\ handle[o] # [status |-> "none", gen |-> 0]
  /\ handle' = [handle EXCEPT ![o] = [status |-> "none", gen |-> 0]]
  /\ session' = [s \in Session |->
       IF session[s].owner = o THEN [session[s] EXCEPT !.live = FALSE]
                               ELSE session[s]]
  /\ UNCHANGED <<clock, lease, issued, lastCommitted>>

(* A transaction opens with the token of a handle, whatever has become of  *)
(* that handle: refusing it is the database's part.                        *)
BeginFenced(o, s) ==
  /\ handle[o].gen # 0
  /\ Start(s, [kind |-> "fenced", phase |-> "begun", owner |-> o,
               gen |-> handle[o].gen, t |-> 0, live |-> FALSE])
  /\ UNCHANGED <<clock, lease, handle, issued, lastCommitted>>

-----------------------------------------------------------------------------
(* The database side.                                                      *)

(* The advisory lock is granted and the clock is read.  Two claims never   *)
(* read the same microsecond, so a claim's reading advances the clock.     *)
Enter(s) ==
  LET w == session[s] IN
  /\ w.phase = "waiting"
  /\ AdvisoryLockFree
  /\ w.kind = "claim" => clock < MaxClock
  /\ session' = [session EXCEPT ![s] = [@ EXCEPT !.phase = "locked", !.t = clock]]
  /\ clock' = IF w.kind = "claim" THEN clock + 1 ELSE clock
  /\ UNCHANGED <<lease, handle, issued, lastCommitted>>

(* insert ... on conflict do update where expires_at <= acquired_at        *)
ClaimGranted(s) ==
  LET w == session[s] IN
  /\ w.kind = "claim" /\ w.phase = "locked"
  /\ RowLockFree
  /\ lease.gen = 0 \/ lease.expires <= w.t
  /\ lease' = [gen |-> w.t, owner |-> w.owner, expires |-> w.t + Ttl]
  /\ issued' = w.t
  /\ handle' = IF w.live
               THEN [handle EXCEPT ![w.owner] = [status |-> "held", gen |-> w.t]]
               ELSE handle
  /\ Finish(s)
  /\ UNCHANGED <<clock, lastCommitted>>

ClaimRefused(s) ==
  LET w == session[s] IN
  /\ w.kind = "claim" /\ w.phase = "locked"
  /\ RowLockFree
  /\ ~(lease.gen = 0 \/ lease.expires <= w.t)
  /\ handle' = IF w.live THEN [handle EXCEPT ![w.owner].status = "none"] ELSE handle
  /\ Finish(s)
  /\ UNCHANGED <<clock, lease, issued, lastCommitted>>

(* update ... where owner, generation and expires_at > heartbeat_at        *)
Renew(s) ==
  LET w == session[s]
      renewed == Matches(w) /\ lease.expires > w.t IN
  /\ w.kind = "renew" /\ w.phase = "locked"
  /\ RowLockFree
  /\ lease' = IF renewed THEN [lease EXCEPT !.expires = w.t + Ttl] ELSE lease
  /\ handle' = IF w.live /\ ~renewed
               THEN [handle EXCEPT ![w.owner] = Aborted(@)] ELSE handle
  /\ Finish(s)
  /\ UNCHANGED <<clock, issued, lastCommitted>>

(* delete ... where owner and generation, expired or not                   *)
Release(s) ==
  LET w == session[s] IN
  /\ w.kind = "release" /\ w.phase = "locked"
  /\ RowLockFree
  /\ lease' = IF Matches(w) THEN NoRow ELSE lease
  /\ handle' = IF w.live THEN [handle EXCEPT ![w.owner].status = "none"] ELSE handle
  /\ Finish(s)
  /\ UNCHANGED <<clock, issued, lastCommitted>>

(* A cancelled, failed or disconnected lease operation rolls back.         *)
Cancelled(s) ==
  /\ session[s].kind \in LeaseKinds
  /\ ~session[s].live
  /\ Finish(s)
  /\ UNCHANGED <<clock, lease, handle, issued, lastCommitted>>

(* verifyFence, "initial": a plain select, no lock is kept.                *)
VerifyInitial(s) ==
  LET w == session[s] IN
  /\ w.phase = "begun"
  /\ Matches(w) /\ lease.expires > clock
  /\ session' = [session EXCEPT ![s].phase = "working"]
  /\ UNCHANGED <<clock, lease, handle, issued, lastCommitted>>

(* verifyFence, "before-commit": the select ... for update evaluates its   *)
(* expiry against the clock when it is issued and may then wait.           *)
RequestFence(s) ==
  /\ session[s].phase = "working"
  /\ session' = [session EXCEPT ![s] = [@ EXCEPT !.phase = "fencing", !.t = clock]]
  /\ UNCHANGED <<clock, lease, handle, issued, lastCommitted>>

GrantFence(s) ==
  LET w == session[s] IN
  /\ w.phase = "fencing"
  /\ RowLockFree
  /\ Matches(w) /\ lease.expires > w.t
  /\ session' = [session EXCEPT ![s].phase = "fenced"]
  /\ UNCHANGED <<clock, lease, handle, issued, lastCommitted>>

Commit(s) ==
  /\ session[s].phase = "fenced"
  /\ lastCommitted' = session[s].gen
  /\ Finish(s)
  /\ UNCHANGED <<clock, lease, handle, issued>>

(* A stale fence, a statement or lock timeout, or a cancellation.          *)
Rollback(s) ==
  /\ session[s].kind = "fenced"
  /\ Finish(s)
  /\ UNCHANGED <<clock, lease, handle, issued, lastCommitted>>

Tick ==
  /\ clock < MaxClock
  /\ clock' = clock + 1
  /\ UNCHANGED <<lease, session, handle, issued, lastCommitted>>

Next ==
  \/ Tick
  \/ \E o \in Owner : BeginRelease(o) \/ Crash(o)
  \/ \E o \in Owner, s \in Session :
       Acquire(o, s) \/ Heartbeat(o, s) \/ SendRelease(o, s) \/ BeginFenced(o, s)
  \/ \E s \in Session :
       \/ GiveUp(s) \/ Enter(s) \/ ClaimGranted(s) \/ ClaimRefused(s)
       \/ Renew(s) \/ Release(s) \/ Cancelled(s)
       \/ VerifyInitial(s) \/ RequestFence(s) \/ GrantFence(s)
       \/ Commit(s) \/ Rollback(s)

Spec == Init /\ [][Next]_vars

-----------------------------------------------------------------------------
(* A transaction that has passed its before-commit check still owns the    *)
(* current generation, however long its commit takes and whatever expired  *)
(* meanwhile (worker-lease.ts verifyFence, ingestion.ts fencedTransaction).*)
FenceExcludesSuccessor ==
  \A s \in Session :
    session[s].phase = "fenced" =>
      lease.gen # 0 /\ lease.gen = session[s].gen

(* A write of an earlier generation is never committed after a write of a  *)
(* later one: a stalled worker cannot overwrite its successor.             *)
CommitsFollowGenerations == [][lastCommitted' >= lastCommitted]_vars

(* The row changes only by its own generation's renewal or release, or by  *)
(* a takeover once it has expired by the database clock; an operation that *)
(* its caller gave up on never disturbs a successor, not even one of the   *)
(* same process.                                                           *)
RowBelongsToItsGeneration ==
  [][lease' # lease /\ lease.gen # 0 =>
       \/ lease'.gen > lease.gen /\ lease.expires <= clock
       \/ \E s \in Session :
            /\ session[s].kind \in {"renew", "release"}
            /\ session[s].gen = lease.gen
            /\ lease'.gen \in {0, lease.gen}]_vars

(* A process that believes it holds the lease is wrong only when another   *)
(* generation was granted after its own, never because its row was lost.   *)
HeldUntilSuperseded ==
  \A o \in Owner :
    handle[o].status = "held" =>
      \/ lease.gen = handle[o].gen /\ lease.owner = o
      \/ issued > handle[o].gen

(* The lease implements the fenced store.                                  *)
Log == INSTANCE FencedLog WITH current <- lease.gen
ImplementsFencedLog == Log!LogSpec
=============================================================================
