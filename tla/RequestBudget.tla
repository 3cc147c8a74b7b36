---------------------------- MODULE RequestBudget ----------------------------
(***************************************************************************)
(* The sliding-window request budget that every process shares through     *)
(* PostgreSQL (packages/db/src/request-budget.ts).                         *)
(*                                                                         *)
(* A claim is one transaction: advisory lock, delete the events that have  *)
(* left the window, count, insert, commit; each statement reads the clock  *)
(* anew.  A denied caller sleeps and tries again until it has waited       *)
(* maxWaitMs.  Its deadline or its own signal cancels it at any statement, *)
(* but not while it waits for a connection of the pool; and a cancel that  *)
(* comes too late leaves the slot taken.                                   *)
(***************************************************************************)
EXTENDS Naturals, Sequences, FiniteSets

CONSTANTS
  Caller,     \* concurrent acquire() calls, of any process
  Limit,      \* claims per window
  Window,     \* windowMs, in clock ticks
  MaxWait,    \* maxWaitMs, in clock ticks
  Pool,       \* connections of the pool
  MaxClock,   \* bound on the clock
  MaxClaims   \* bound on committed claims

ASSUME BudgetAssumption ==
  /\ Limit \in Nat \ {0} /\ Window \in Nat \ {0} /\ MaxWait \in Nat \ {0}
  /\ Pool \in Nat \ {0}
  /\ MaxClock \in Nat /\ MaxClaims \in Nat

VARIABLES
  clock,     \* clock_timestamp(), and the timers of the callers
  claimed,   \* claimed_at of every committed claim, in commit order
  deleted,   \* how many of them have been deleted: always a prefix
  caller     \* the acquire() call of each caller

budgetVars == <<clock, claimed, deleted, caller>>

BudgetCall ==
  [phase : {"idle", "connect", "lock", "prune", "count", "insert", "grant", "deny",
            "sleep"},
   deadline : Nat,   \* when its deadline timer fires
   waited : Nat,     \* waitedMs
   pruned : Nat,     \* deleted, as its transaction sees it
   at : Nat]         \* claimed_at it inserts, or the delay it is told, or its wake-up
Idle == [phase |-> "idle", deadline |-> 0, waited |-> 0, pruned |-> 0, at |-> 0]

BudgetTypeOK ==
  /\ clock \in 0..MaxClock
  /\ claimed \in Seq(0..MaxClock)
  /\ deleted \in 0..Len(claimed)
  /\ caller \in [Caller -> BudgetCall]
  /\ \A p \in Caller : caller[p].waited <= MaxWait

BudgetInit ==
  /\ clock = 0
  /\ claimed = <<>>
  /\ deleted = 0
  /\ caller = [p \in Caller |-> Idle]

Least(m, n) == IF m <= n THEN m ELSE n

(* A ...Mutant is a deliberate error in the definition after it.           *)
InTransaction(p) == caller[p].phase \in {"prune", "count", "insert", "grant", "deny"}
NoLockMutant == TRUE
LockFree == \A p \in Caller : ~InTransaction(p)

Connected == {p \in Caller : InTransaction(p) \/ caller[p].phase = "lock"}

Step(p, c) == caller' = [caller EXCEPT ![p] = c]

-----------------------------------------------------------------------------
Acquire(p) ==
  /\ caller[p] = Idle
  /\ clock + MaxWait <= MaxClock   \* bound: the deadline can be reached
  /\ Len(claimed) < MaxClaims
  /\ Step(p, [Idle EXCEPT !.phase = "connect", !.deadline = clock + MaxWait])
  /\ UNCHANGED <<clock, claimed, deleted>>

(* begin() waits for a connection, with no signal.                         *)
Connect(p) ==
  /\ caller[p].phase = "connect"
  /\ Cardinality(Connected) < Pool
  /\ Step(p, [caller[p] EXCEPT !.phase = "lock"])
  /\ UNCHANGED <<clock, claimed, deleted>>

Lock(p) ==
  /\ caller[p].phase = "lock"
  /\ LockFree
  /\ Step(p, [caller[p] EXCEPT !.phase = "prune", !.pruned = deleted])
  /\ UNCHANGED <<clock, claimed, deleted>>

Left(t) == t + Window <= clock

Prune(p) ==
  /\ caller[p].phase = "prune"
  /\ \E n \in caller[p].pruned..Len(claimed) :
       /\ \A i \in 1..Len(claimed) :
            i > caller[p].pruned => (i <= n <=> Left(claimed[i]))
       /\ Step(p, [caller[p] EXCEPT !.phase = "count", !.pruned = n])
  /\ UNCHANGED <<clock, claimed, deleted>>

(* attempt_count, and retry_after_ms from the oldest event left.           *)
Count(p) ==
  LET c == caller[p]
      oldest == claimed[c.pruned + 1]
  IN /\ c.phase = "count"
     /\ IF Len(claimed) - c.pruned < Limit
          THEN Step(p, [c EXCEPT !.phase = "insert"])
          ELSE Step(p, [c EXCEPT !.phase = "deny",
                          !.at = IF oldest + Window > clock + 1
                                   THEN oldest + Window - clock ELSE 1])
     /\ UNCHANGED <<clock, claimed, deleted>>

Insert(p) ==
  /\ caller[p].phase = "insert"
  /\ Step(p, [caller[p] EXCEPT !.phase = "grant", !.at = clock])
  /\ UNCHANGED <<clock, claimed, deleted>>

(* The claim commits; acquire() returns, or throws if it was cancelled     *)
(* meanwhile.                                                              *)
Grant(p) ==
  /\ caller[p].phase = "grant"
  /\ claimed' = Append(claimed, caller[p].at)
  /\ deleted' = caller[p].pruned
  /\ Step(p, Idle)
  /\ UNCHANGED clock

Delay(c) == Least(c.at, MaxWait - c.waited)

(* A denial commits its deletions.  The delay counts from here.            *)
Deny(p) ==
  LET c == caller[p] IN
  /\ c.phase = "deny"
  /\ deleted' = c.pruned
  /\ IF c.waited = MaxWait
       THEN Step(p, Idle)   \* MAX_WAIT_EXCEEDED
       ELSE Step(p, [c EXCEPT !.phase = "sleep", !.waited = c.waited + Delay(c),
                              !.at = clock + Delay(c)])
  /\ UNCHANGED <<clock, claimed>>

Wake(p) ==
  /\ caller[p].phase = "sleep"
  /\ clock >= caller[p].at
  /\ Step(p, [caller[p] EXCEPT !.phase = "connect"])
  /\ UNCHANGED <<clock, claimed, deleted>>

(* The deadline or the caller's signal: the transaction rolls back.        *)
NoDeadlineMutant(p) == FALSE
Expired(p) == clock >= caller[p].deadline
BudgetCancel(p) ==
  /\ caller[p].phase \notin {"idle", "connect"}
  /\ Step(p, Idle)
  /\ UNCHANGED <<clock, claimed, deleted>>
BudgetDeadline(p) == Expired(p) /\ BudgetCancel(p)

Tick ==
  /\ clock < MaxClock
  /\ clock' = clock + 1
  /\ UNCHANGED <<claimed, deleted, caller>>

Serve(p) ==
  \/ Connect(p)
  \/ Lock(p) \/ Prune(p) \/ Count(p) \/ Insert(p) \/ Grant(p) \/ Deny(p) \/ Wake(p)

BudgetNext ==
  \/ Tick
  \/ \E p \in Caller : Acquire(p) \/ Serve(p) \/ BudgetCancel(p)

(* The clock goes on, the deadline timer fires and its cancel is answered, *)
(* and the pool serves its queue in order.  Nothing else need happen: no   *)
(* statement has to succeed.                                               *)
BudgetFairSpec ==
  /\ BudgetInit /\ [][BudgetNext]_budgetVars
  /\ WF_budgetVars(Tick)
  /\ \A p \in Caller : WF_budgetVars(BudgetDeadline(p)) /\ SF_budgetVars(Connect(p))

-----------------------------------------------------------------------------
(* "default 60-attempt/60-second PostgreSQL budget"                        *)
(* (docs/runbooks/worker.md:79): any Limit + 1 consecutive claims of all   *)
(* processes together span at least a window, also those whose caller had  *)
(* given up (claim, request-budget.ts:151-216).                            *)
WindowLimit ==
  \A i \in 1..Len(claimed) :
    i + Limit <= Len(claimed) => claimed[i + Limit] >= claimed[i] + Window

(* What is deleted no longer counts for anyone.                            *)
OnlyOldEventsDeleted ==
  \A i \in 1..deleted : claimed[i] + Window <= clock

(* acquire() ends, granted or not: waiting for rivals is bounded by        *)
(* maxWaitMs, and waiting for a connection by that of the callers that     *)
(* have one (acquire, request-budget.ts:98-121).                           *)
AcquireEnds ==
  \A p \in Caller : caller[p].phase # "idle" ~> caller[p].phase = "idle"

=============================================================================
