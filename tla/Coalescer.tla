------------------------------ MODULE Coalescer ------------------------------
(***************************************************************************)
(* Collapsing of identical in-flight requests in the web process           *)
(* (apps/web/lib/server/in-flight-operation-coalescer.ts), as run() is     *)
(* used under a bounded request (request-lifetime.ts).                     *)
(*                                                                         *)
(* An entry lives from its first subscriber until its operation settles,   *)
(* which may be long after its deadline or its last subscriber.  The       *)
(* JavaScript event loop makes each callback atomic; the promise of an     *)
(* entry settles first and each subscriber hears of it in a later step,    *)
(* so entries are kept apart from the map that finds them.                 *)
(***************************************************************************)
EXTENDS Naturals, FiniteSets

CONSTANTS
  Key,            \* digests of namespace and key material
  Call,           \* run() calls
  Entry,          \* SharedEntry objects
  None,           \* no entry
  MaxKeys,        \* maxKeys
  MaxSubscribers  \* maxSubscribersPerKey

ASSUME CoalescerAssumption ==
  /\ MaxKeys \in Nat \ {0} /\ MaxSubscribers \in Nat \ {0}
  /\ None \notin Entry /\ Key # {}

VARIABLES
  entries,   \* the map from digest to entry
  entry,     \* the entries
  call       \* the run() calls

coalescerVars == <<entries, entry, call>>

(* reply is what the promise of the entry has delivered: what the          *)
(* operation answered, a value or an error, or the deadline.               *)
SharedEntry ==
  [state : {"unused", "active", "settled"}, key : Key, aborted : BOOLEAN,
   reply : {"pending", "settled", "DEADLINE"}, subscribers : Nat]
Fresh(k) ==
  [state |-> "active", key |-> k, aborted |-> FALSE, reply |-> "pending",
   subscribers |-> 1]

Unused ==
  [Fresh(CHOOSE k \in Key : TRUE) EXCEPT !.state = "unused", !.subscribers = 0]

Outcomes == {"settled", "DEADLINE", "CANCELLED", "CAPACITY"}
Subscription ==
  [state : {"idle", "subscribed"} \cup Outcomes, entry : Entry \cup {None}]

CoalescerTypeOK ==
  /\ entries \in [Key -> Entry \cup {None}]
  /\ entry \in [Entry -> SharedEntry]
  /\ call \in [Call -> Subscription]

CoalescerInit ==
  /\ entries = [k \in Key |-> None]
  /\ entry = [e \in Entry |-> Unused]
  /\ call = [c \in Call |-> [state |-> "idle", entry |-> None]]

-----------------------------------------------------------------------------
(* A ...Mutant is a deliberate error in the definition after it.           *)
Used == {k \in Key : entries[k] # None}
Answer(c, a) == call' = [call EXCEPT ![c] = [state |-> a, entry |-> None]]
Subscribe(c, e) == call' = [call EXCEPT ![c] = [state |-> "subscribed", entry |-> e]]

Start(c, k) ==
  /\ call[c].state = "idle" /\ entries[k] = None
  /\ Cardinality(Used) < MaxKeys
  /\ \E e \in Entry :
       /\ entry[e].state = "unused"
       /\ entries' = [entries EXCEPT ![k] = e]
       /\ entry' = [entry EXCEPT ![e] = Fresh(k)]
       /\ Subscribe(c, e)

HasRoom(e) == entry[e].subscribers < MaxSubscribers
Joinable(e) == ~entry[e].aborted

Join(c, k) ==
  /\ call[c].state = "idle" /\ entries[k] # None
  /\ Joinable(entries[k]) /\ HasRoom(entries[k])
  /\ entry' = [entry EXCEPT ![entries[k]].subscribers = @ + 1]
  /\ Subscribe(c, entries[k])
  /\ UNCHANGED entries

(* An aborted entry is not replaced while its operation is still running.  *)
Refuse(c, k) ==
  /\ call[c].state = "idle"
  /\ IF entries[k] = None
       THEN Cardinality(Used) >= MaxKeys
       ELSE ~Joinable(entries[k]) \/ ~HasRoom(entries[k])
  /\ Answer(c, "CAPACITY")
  /\ UNCHANGED <<entries, entry>>

(* The operation settles; its entry leaves the map.                        *)
Removed(e) == [k \in Key |-> IF entries[k] = e THEN None ELSE entries[k]]

Settle(e) ==
  /\ entry[e].state = "active"
  /\ entries' = Removed(e)
  /\ entry' = [entry EXCEPT ![e].state = "settled",
                 ![e].reply = IF @ = "pending" THEN "settled" ELSE @]
  /\ UNCHANGED call

(* The deadline answers the subscribers, and asks the operation to stop.   *)
DropEntryMutant(e) == Removed(e)
AfterDeadline(e) == entries
NotRejectedMutant(e) == entry[e].reply
DeadlineReply(e) == "DEADLINE"

CoalescerDeadline(e) ==
  /\ entry[e].state = "active" /\ entry[e].reply = "pending"
  /\ entries' = AfterDeadline(e)
  /\ entry' = [entry EXCEPT ![e].reply = DeadlineReply(e), ![e].aborted = TRUE]
  /\ UNCHANGED call

(* finish(): the last subscriber of an unsettled operation aborts it.      *)
Abandoned(e) == entry[e].subscribers = 1 /\ entry[e].state = "active"

Finish(c, answer) ==
  LET e == call[c].entry IN
  /\ entry' = [entry EXCEPT ![e].subscribers = @ - 1,
                            ![e].aborted = @ \/ Abandoned(e)]
  /\ Answer(c, answer)
  /\ UNCHANGED entries

(* The continuation of the promise runs in a later turn of the loop.       *)
Deliver(c) ==
  /\ call[c].state = "subscribed"
  /\ entry[call[c].entry].reply # "pending"
  /\ Finish(c, entry[call[c].entry].reply)

(* The request's own deadline or a client that went away.                  *)
CoalescerCancel(c) ==
  /\ call[c].state = "subscribed"
  /\ Finish(c, "CANCELLED")

(* The caller has its answer; the next request may be any.                 *)
CoalescerReturn(c) ==
  /\ call[c].state \in Outcomes
  /\ Answer(c, "idle")
  /\ UNCHANGED <<entries, entry>>

(* An entry nobody refers to is collected.                                 *)
Collect(e) ==
  /\ entry[e].state = "settled" /\ entry[e].subscribers = 0
  /\ entry' = [entry EXCEPT ![e] = Unused]
  /\ UNCHANGED <<entries, call>>

CoalescerNext ==
  \/ \E c \in Call, k \in Key : Start(c, k) \/ Join(c, k) \/ Refuse(c, k)
  \/ \E c \in Call : Deliver(c) \/ CoalescerCancel(c) \/ CoalescerReturn(c)
  \/ \E e \in Entry : Settle(e) \/ CoalescerDeadline(e) \/ Collect(e)

CoalescerSpec == CoalescerInit /\ [][CoalescerNext]_coalescerVars

(* The deadline timer fires and the promise queue is drained; no operation *)
(* needs to settle and no client to cancel.                                *)
CoalescerFairness ==
  /\ \A e \in Entry : WF_coalescerVars(CoalescerDeadline(e))
  /\ \A c \in Call : WF_coalescerVars(Deliver(c))

-----------------------------------------------------------------------------
(* Properties.                                                             *)

Running(k) == {e \in Entry : entry[e].state = "active" /\ entry[e].key = k}

(* "Keep its bounded operation in the map until it settles rather than     *)
(* starting an untracked duplicate" (in-flight-operation-coalescer.ts      *)
(* 155-159): one operation runs per key, deadlines and cancels included,   *)
(* so no more than maxKeys run at all.                                     *)
NoUntrackedOperation ==
  /\ \A k \in Key : Running(k) = {entries[k]} \ {None}
  /\ Cardinality(UNION {Running(k) : k \in Key}) <= MaxKeys

(* A call is answered although its operation never settles.                *)
EveryCallAnswered ==
  \A c \in Call : call[c].state = "subscribed" ~> call[c].state # "subscribed"

=============================================================================
