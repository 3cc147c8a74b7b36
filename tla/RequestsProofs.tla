--------------------------- MODULE RequestsProofs ---------------------------
(* Theorems about Coalescer, RequestBudget and TargetRotation, for any     *)
(* number of calls, keys, entries, callers, targets and pages and for      *)
(* every value of the limits.                                              *)
(*                                                                         *)
(* The coalescer: the map and the entries agree (MapIsRunning), and every  *)
(* entry counts its subscribers (SubscribersCounted), which is what keeps  *)
(* an entry that calls still wait for from being collected and used again. *)
(*                                                                         *)
(* The budget: the advisory lock gives one transaction at a time, so what  *)
(* one has seen deleted and counted is still so when it commits            *)
(* (TransactionSees, ClaimFits), and times are committed in their order.   *)
(*                                                                         *)
(* Discovery: with n = 7a + b completed runs, b not 0, the next page is    *)
(* number 6a + b - 1 of a walk through 99 pages; 693 runs are 594 steps,   *)
(* six times the walk, so the wrap-around of the cursor does not show.     *)
EXTENDS Coalescer, RequestBudget, TargetRotation, FiniteSetTheorems, SequenceTheorems, TLAPS

-----------------------------------------------------------------------------
(* The coalescer. *)

(* The calls that wait for the operation of an entry. *)
Subscribers(e) == {c \in Call : call[c].state = "subscribed" /\ call[c].entry = e}

(* The map and the entries agree: an entry is found under its key exactly
   while its operation runs. *)
MapIsRunning ==
  /\ \A k \in Key : entries[k] # None =>
       entry[entries[k]].state = "active" /\ entry[entries[k]].key = k
  /\ \A e \in Entry : entry[e].state = "active" => entries[entry[e].key] = e

(* The map has at most maxKeys keys. *)
MapIsBounded == IsFiniteSet(Used) /\ Cardinality(Used) <= MaxKeys

(* An entry counts the calls that wait for it. *)
SubscribersCounted ==
  /\ \A c \in Call : call[c].state = "subscribed" => call[c].entry \in Entry
  /\ \A e \in Entry : /\ IsFiniteSet(Subscribers(e))
                      /\ entry[e].subscribers = Cardinality(Subscribers(e))
                      /\ entry[e].state = "unused" => entry[e].subscribers = 0

CoalescerInv == CoalescerTypeOK /\ MapIsRunning /\ MapIsBounded /\ SubscribersCounted
-----------------------------------------------------------------------------
(* An entry that is not used, and one just made for a key, are entries. *)
LEMMA EntryValues ==
  /\ Unused \in SharedEntry /\ Unused.state = "unused" /\ Unused.subscribers = 0
  /\ \A k \in Key : /\ Fresh(k) \in SharedEntry /\ Fresh(k).state = "active"
                    /\ Fresh(k).key = k /\ Fresh(k).subscribers = 1
<1>1. (CHOOSE k \in Key : TRUE) \in Key
  BY CoalescerAssumption
<1> QED
  BY <1>1 DEF Unused, Fresh, SharedEntry

(* A call that subscribes joins the others, one that is answered leaves them. *)
LEMMA SubscribersChange ==
  ASSUME CoalescerTypeOK, NEW c \in Call, NEW e \in Entry
  PROVE  /\ call[c].state # "subscribed" /\ Subscribe(c, e) =>
              /\ Subscribers(e)' = Subscribers(e) \cup {c} /\ c \notin Subscribers(e)
              /\ \A f \in Entry \ {e} : Subscribers(f)' = Subscribers(f)
         /\ \A a : a # "subscribed" /\ Answer(c, a) =>
              \A f \in Entry : Subscribers(f)' = Subscribers(f) \ {c}
BY DEF CoalescerTypeOK, Subscription, Subscribe, Answer, Subscribers

(* Nothing runs at first, and nothing is subscribed. *)
LEMMA CoalescerInitInv == CoalescerInit => CoalescerInv
<1> SUFFICES ASSUME CoalescerInit
             PROVE  CoalescerInv
  OBVIOUS
<1>1. CoalescerTypeOK
  BY EntryValues DEF CoalescerInit, CoalescerTypeOK, Subscription
<1>2. MapIsRunning
  BY EntryValues DEF CoalescerInit, MapIsRunning
<1>3. MapIsBounded
  <2>1. Used = {}
    BY DEF CoalescerInit, Used
  <2> QED
    BY <2>1, FS_EmptySet, CoalescerAssumption DEF MapIsBounded
<1>4. SubscribersCounted
  <2>1. \A e \in Entry : Subscribers(e) = {}
    BY DEF CoalescerInit, Subscribers
  <2> QED
    BY <2>1, FS_EmptySet, EntryValues DEF CoalescerInit, SubscribersCounted
<1> QED
  BY <1>1, <1>2, <1>3, <1>4 DEF CoalescerInv

(* An entry that only changes its reply, its abort flag or its number of
   subscribers: the map is as good as it was. *)
LEMMA MapKept ==
  ASSUME CoalescerInv, UNCHANGED entries, NEW e \in Entry,
         \A f \in Entry : entry'[f].state = entry[f].state
                          /\ entry'[f].key = entry[f].key
  PROVE  MapIsRunning' /\ MapIsBounded'
BY DEF CoalescerInv, CoalescerTypeOK, MapIsRunning, MapIsBounded, Used

(* coalesce without an entry under the key: the call makes one, of which it is
   the one subscriber. *)
LEMMA StartInv ==
  ASSUME CoalescerInv, NEW c \in Call, NEW k \in Key, Start(c, k)
  PROVE  CoalescerInv'
<1>t. CoalescerTypeOK
  BY DEF CoalescerInv
<1>1. PICK e \in Entry : /\ entry[e].state = "unused"
                         /\ entries' = [entries EXCEPT ![k] = e]
                         /\ entry' = [entry EXCEPT ![e] = Fresh(k)]
                         /\ Subscribe(c, e)
  BY DEF Start
<1>2. e # None /\ entries[k] = None /\ call[c].state = "idle"
  BY CoalescerAssumption DEF Start
<1>3. CoalescerTypeOK'
  BY <1>1, <1>t, EntryValues DEF CoalescerTypeOK, Subscribe, Subscription
<1>4. MapIsRunning'
  <2>1. /\ entries'[k] = e /\ \A j \in Key \ {k} : entries'[j] = entries[j]
        /\ entry'[e] = Fresh(k) /\ \A f \in Entry \ {e} : entry'[f] = entry[f]
    BY <1>1, <1>t DEF CoalescerTypeOK
  <2>2. ASSUME NEW j \in Key, entries'[j] # None
        PROVE  entry'[entries'[j]].state = "active" /\ entry'[entries'[j]].key = j
    <3>1. CASE j = k
      BY <2>1, <3>1, EntryValues
    <3>2. CASE j # k
      <4>1. /\ entries'[j] = entries[j] /\ entries[j] \in Entry
            /\ entry[entries[j]].state = "active" /\ entry[entries[j]].key = j
        BY <1>t, <2>1, <2>2, <3>2 DEF CoalescerInv, CoalescerTypeOK, MapIsRunning
      <4> QED
        BY <1>1, <2>1, <4>1
    <3> QED
      BY <3>1, <3>2
  <2>3. ASSUME NEW f \in Entry, entry'[f].state = "active"
        PROVE  entries'[entry'[f].key] = f
    <3>1. CASE f = e
      BY <2>1, <3>1, EntryValues
    <3>2. CASE f # e
      <4>1. entry'[f] = entry[f] /\ entry[f].key \in Key /\ entries[entry[f].key] = f
        BY <1>t, <2>1, <2>3, <3>2 DEF CoalescerInv, CoalescerTypeOK, SharedEntry, MapIsRunning
      <4> QED
        BY <1>2, <2>1, <4>1, CoalescerAssumption
    <3> QED
      BY <3>1, <3>2
  <2> QED
    BY <2>2, <2>3 DEF MapIsRunning
<1>5. MapIsBounded'
  <2>1. Used' = Used \cup {k} /\ k \notin Used
    BY <1>1, <1>2, <1>t DEF Used, CoalescerTypeOK
  <2>2. Cardinality(Used') = Cardinality(Used) + 1 /\ IsFiniteSet(Used')
    BY <2>1, FS_AddElement DEF CoalescerInv, MapIsBounded
  <2>3. Cardinality(Used) < MaxKeys /\ Cardinality(Used) \in Nat
    BY FS_CardinalityType DEF Start, CoalescerInv, MapIsBounded
  <2> QED
    BY <2>2, <2>3, CoalescerAssumption DEF MapIsBounded
<1>6. SubscribersCounted'
  <2>1. /\ Subscribers(e)' = Subscribers(e) \cup {c} /\ c \notin Subscribers(e)
        /\ \A f \in Entry \ {e} : Subscribers(f)' = Subscribers(f)
    BY <1>1, <1>2, <1>t, SubscribersChange
  <2>2. IsFiniteSet(Subscribers(e)') /\ Cardinality(Subscribers(e)') = 1
    BY <1>1, <2>1, FS_AddElement DEF CoalescerInv, SubscribersCounted
  <2>3. /\ entry'[e].subscribers = 1 /\ entry'[e].state = "active"
        /\ \A f \in Entry \ {e} : entry'[f] = entry[f]
    BY <1>1, <1>t, EntryValues DEF CoalescerTypeOK
  <2>4. \A d \in Call : call'[d].state = "subscribed" => call'[d].entry \in Entry
    BY <1>1, <1>t DEF CoalescerInv, SubscribersCounted, CoalescerTypeOK, Subscribe
  <2> QED
    BY <2>1, <2>2, <2>3, <2>4 DEF CoalescerInv, SubscribersCounted
<1> QED
  BY <1>3, <1>4, <1>5, <1>6 DEF CoalescerInv

(* coalesce with an entry under the key: one subscriber more. *)
LEMMA JoinInv ==
  ASSUME CoalescerInv, NEW c \in Call, NEW k \in Key, Join(c, k)
  PROVE  CoalescerInv'
<1>t. CoalescerTypeOK
  BY DEF CoalescerInv
<1>e. PICK e \in Entry : e = entries[k]
  BY <1>t DEF Join, CoalescerTypeOK
<1>1. /\ call[c].state = "idle" /\ Subscribe(c, e) /\ UNCHANGED entries
      /\ entry' = [entry EXCEPT ![e].subscribers = @ + 1]
  BY <1>e DEF Join
<1>2. entry[e].state = "active"
  BY <1>e, CoalescerAssumption DEF Join, CoalescerInv, MapIsRunning
<1>3. CoalescerTypeOK'
  <2>1. [entry[e] EXCEPT !.subscribers = @ + 1] \in SharedEntry
    BY <1>1, <1>t DEF CoalescerTypeOK, SharedEntry
  <2> QED
    BY <1>1, <1>t, <2>1 DEF CoalescerTypeOK, Subscribe, Subscription
<1>4. /\ entry'[e].subscribers = entry[e].subscribers + 1
      /\ entry'[e].state = entry[e].state /\ entry'[e].key = entry[e].key
      /\ \A f \in Entry \ {e} : entry'[f] = entry[f]
  BY <1>1, <1>t DEF CoalescerTypeOK, SharedEntry
<1>5. MapIsRunning' /\ MapIsBounded'
  BY <1>1, <1>4, MapKept
<1>6. SubscribersCounted'
  <2>1. /\ Subscribers(e)' = Subscribers(e) \cup {c} /\ c \notin Subscribers(e)
        /\ \A f \in Entry \ {e} : Subscribers(f)' = Subscribers(f)
    BY <1>1, <1>t, SubscribersChange
  <2>2. /\ IsFiniteSet(Subscribers(e)')
        /\ Cardinality(Subscribers(e)') = entry[e].subscribers + 1
    BY <1>1, <2>1, FS_AddElement DEF CoalescerInv, SubscribersCounted
  <2>3. \A d \in Call : call'[d].state = "subscribed" => call'[d].entry \in Entry
    BY <1>1, <1>t DEF CoalescerInv, SubscribersCounted, CoalescerTypeOK, Subscribe
  <2> QED
    BY <1>2, <1>4, <2>1, <2>2, <2>3 DEF CoalescerInv, SubscribersCounted
<1> QED
  BY <1>3, <1>5, <1>6 DEF CoalescerInv

(* A subscriber is answered: its entry has one fewer. *)
LEMMA FinishInv ==
  ASSUME CoalescerInv, NEW c \in Call, NEW a \in Outcomes,
         call[c].state = "subscribed", Finish(c, a)
  PROVE  CoalescerInv'
<1>t. CoalescerTypeOK
  BY DEF CoalescerInv
<1>e. PICK e \in Entry : e = call[c].entry
  BY DEF CoalescerInv, SubscribersCounted
<1>1. /\ Answer(c, a) /\ UNCHANGED entries
      /\ entry' = [entry EXCEPT ![e].subscribers = @ - 1, ![e].aborted = @ \/ Abandoned(e)]
  BY <1>e DEF Finish
<1>a. a # "subscribed" /\ a # "idle"
  BY DEF Outcomes
<1>2. /\ \A f \in Entry : Subscribers(f)' = Subscribers(f) \ {c}
      /\ c \in Subscribers(e) /\ \A f \in Entry \ {e} : c \notin Subscribers(f)
  BY <1>1, <1>e, <1>t, <1>a, SubscribersChange DEF Subscribers
<1>3. /\ IsFiniteSet(Subscribers(e)) /\ IsFiniteSet(Subscribers(e)')
      /\ Cardinality(Subscribers(e)') = entry[e].subscribers - 1
      /\ entry[e].subscribers - 1 \in Nat
  <2>1. IsFiniteSet(Subscribers(e)) /\ entry[e].subscribers = Cardinality(Subscribers(e))
    BY DEF CoalescerInv, SubscribersCounted
  <2>2. Subscribers(e)' = Subscribers(e) \ {c} /\ c \in Subscribers(e)
    BY <1>2
  <2>3. /\ IsFiniteSet(Subscribers(e) \ {c})
        /\ Cardinality(Subscribers(e) \ {c}) = Cardinality(Subscribers(e)) - 1
    BY <2>1, <2>2, FS_RemoveElement
  <2>4. Cardinality(Subscribers(e) \ {c}) \in Nat
    BY <2>3, FS_CardinalityType
  <2> QED
    BY <2>1, <2>2, <2>3, <2>4
<1>4. /\ entry'[e].subscribers = entry[e].subscribers - 1
      /\ entry'[e].state = entry[e].state /\ entry'[e].key = entry[e].key
      /\ \A f \in Entry \ {e} : entry'[f] = entry[f]
  BY <1>1, <1>t DEF CoalescerTypeOK, SharedEntry
<1>5. CoalescerTypeOK'
  <2>1. entry'[e] \in SharedEntry
    BY <1>1, <1>3, <1>t DEF CoalescerTypeOK, SharedEntry, Abandoned
  <2>2. entry' \in [Entry -> SharedEntry]
    BY <1>1, <1>4, <1>t, <2>1 DEF CoalescerTypeOK
  <2> QED
    BY <1>1, <1>t, <2>2 DEF CoalescerTypeOK, Answer, Subscription
<1>6. MapIsRunning' /\ MapIsBounded'
  BY <1>1, <1>4, MapKept
<1>7. SubscribersCounted'
  <2>1. \A f \in Entry \ {e} : Subscribers(f)' = Subscribers(f)
    BY <1>2
  <2>2. \A d \in Call : call'[d].state = "subscribed" => call'[d].entry \in Entry
    BY <1>1, <1>t, <1>a DEF CoalescerInv, SubscribersCounted, CoalescerTypeOK, Answer
  <2>3. entry[e].state # "unused"
    BY <1>1, <1>3 DEF CoalescerInv, SubscribersCounted
  <2> QED
    BY <1>1, <1>3, <1>4, <2>1, <2>2, <2>3 DEF CoalescerInv, SubscribersCounted
<1> QED
  BY <1>5, <1>6, <1>7 DEF CoalescerInv

(* An answer without an entry: a refusal, or the caller's next request. *)
LEMMA UnansweredInv ==
  ASSUME CoalescerInv, NEW c \in Call, NEW a \in {"idle"} \cup Outcomes,
         call[c].state # "subscribed", Answer(c, a), UNCHANGED <<entries, entry>>
  PROVE  CoalescerInv'
<1>t. CoalescerTypeOK
  BY DEF CoalescerInv
<1>a. a # "subscribed"
  BY DEF Outcomes
<1>1. \A f \in Entry : Subscribers(f)' = Subscribers(f)
  BY <1>t, <1>a, SubscribersChange DEF Subscribers
<1>2. CoalescerTypeOK'
  BY <1>t DEF CoalescerTypeOK, Answer, Subscription
<1>3. SubscribersCounted'
  BY <1>1, <1>t, <1>a DEF CoalescerInv, SubscribersCounted, CoalescerTypeOK, Answer
<1> QED
  BY <1>2, <1>3 DEF CoalescerInv, MapIsRunning, MapIsBounded, Used

(* What happens to an entry leaves its subscribers alone. *)
LEMMA EntryStepInv ==
  ASSUME CoalescerInv, NEW e \in Entry, Settle(e) \/ CoalescerDeadline(e) \/ Collect(e)
  PROVE  CoalescerInv'
<1>t. CoalescerTypeOK
  BY DEF CoalescerInv
<1>1. CoalescerTypeOK'
  <2>1. CASE Settle(e)
    <3>1. [entry[e] EXCEPT !.state = "settled",
             !.reply = IF @ = "pending" THEN "settled" ELSE @] \in SharedEntry
      BY <1>t DEF CoalescerTypeOK, SharedEntry
    <3>2. entry' \in [Entry -> SharedEntry]
      BY <1>t, <2>1, <3>1 DEF CoalescerTypeOK, Settle
    <3>3. entries' \in [Key -> Entry \cup {None}]
      BY <1>t, <2>1 DEF CoalescerTypeOK, Settle, Removed
    <3> QED
      BY <1>t, <2>1, <3>2, <3>3 DEF CoalescerTypeOK, Settle
  <2>2. CASE CoalescerDeadline(e)
    <3>1. [entry[e] EXCEPT !.reply = "DEADLINE", !.aborted = TRUE] \in SharedEntry
      BY <1>t DEF CoalescerTypeOK, SharedEntry
    <3>2. entry' \in [Entry -> SharedEntry]
      BY <1>t, <2>2, <3>1 DEF CoalescerTypeOK, CoalescerDeadline, DeadlineReply
    <3> QED
      BY <1>t, <2>2, <3>2 DEF CoalescerTypeOK, CoalescerDeadline, AfterDeadline
  <2>3. CASE Collect(e)
    BY <1>t, <2>3, EntryValues DEF CoalescerTypeOK, Collect
  <2> QED
    BY <2>1, <2>2, <2>3
<1>2. /\ UNCHANGED call /\ \A f \in Entry \ {e} : entry'[f] = entry[f]
      /\ entry'[e].subscribers = entry[e].subscribers
      /\ entry'[e].state = "unused" => entry[e].subscribers = 0
  BY <1>t, EntryValues DEF CoalescerTypeOK, SharedEntry, Settle, CoalescerDeadline, Collect
<1>3. SubscribersCounted'
  BY <1>2 DEF CoalescerInv, SubscribersCounted, Subscribers
<1>4. MapIsRunning' /\ MapIsBounded'
  <2>1. CASE Settle(e)
    <3>1. /\ entries' = Removed(e) /\ e # None
          /\ entry'[e].state = "settled" /\ entry'[e].key = entry[e].key
      BY <1>t, <2>1, CoalescerAssumption DEF CoalescerTypeOK, SharedEntry, Settle
    <3>2. MapIsRunning'
      BY <1>t, <1>2, <3>1 DEF CoalescerInv, CoalescerTypeOK, SharedEntry, MapIsRunning, Removed
    <3>3. Used' \subseteq Used
      BY <3>1 DEF Used, Removed
    <3>4. MapIsBounded'
      BY <3>3, FS_Subset, FS_CardinalityType, CoalescerAssumption DEF CoalescerInv, MapIsBounded
    <3> QED
      BY <3>2, <3>4
  <2>2. CASE CoalescerDeadline(e)
    <3>1. UNCHANGED entries /\ entry'[e].state = entry[e].state /\ entry'[e].key = entry[e].key
      BY <1>t, <2>2 DEF CoalescerTypeOK, SharedEntry, CoalescerDeadline, AfterDeadline
    <3> QED
      BY <1>2, <3>1, MapKept
  <2>3. CASE Collect(e)
    <3>1. UNCHANGED entries /\ entry[e].state = "settled" /\ entry'[e].state = "unused"
      BY <1>t, <2>3, EntryValues DEF CoalescerTypeOK, Collect
    <3> QED
      BY <1>t, <1>2, <3>1 DEF CoalescerInv, CoalescerTypeOK, MapIsRunning, MapIsBounded, Used
  <2> QED
    BY <2>1, <2>2, <2>3
<1> QED
  BY <1>1, <1>3, <1>4 DEF CoalescerInv

(* Every step of the coalescer keeps its invariant. *)
LEMMA CoalescerInductive == CoalescerInv /\ [CoalescerNext]_coalescerVars => CoalescerInv'
<1> SUFFICES ASSUME CoalescerInv, [CoalescerNext]_coalescerVars
             PROVE  CoalescerInv'
  OBVIOUS
<1>1. ASSUME NEW c \in Call, NEW k \in Key, Start(c, k) \/ Join(c, k)
      PROVE  CoalescerInv'
  BY <1>1, StartInv, JoinInv
<1>2. ASSUME NEW c \in Call, NEW k \in Key, Refuse(c, k)
      PROVE  CoalescerInv'
  BY <1>2, UnansweredInv DEF Refuse, Outcomes
<1>3. ASSUME NEW c \in Call, CoalescerReturn(c)
      PROVE  CoalescerInv'
  BY <1>3, UnansweredInv DEF CoalescerReturn, Outcomes
<1>4. ASSUME NEW c \in Call, Deliver(c) \/ CoalescerCancel(c)
      PROVE  CoalescerInv'
  <2>1. call[c].entry \in Entry /\ call[c].state = "subscribed"
    BY <1>4 DEF Deliver, CoalescerCancel, CoalescerInv, SubscribersCounted
  <2>2. entry[call[c].entry].reply \in {"pending", "settled", "DEADLINE"}
    BY <2>1 DEF CoalescerInv, CoalescerTypeOK, SharedEntry
  <2>3. PICK a \in Outcomes : Finish(c, a)
    BY <1>4, <2>2 DEF Deliver, CoalescerCancel, Outcomes
  <2> QED
    BY <2>1, <2>3, FinishInv
<1>5. ASSUME NEW e \in Entry, Settle(e) \/ CoalescerDeadline(e) \/ Collect(e)
      PROVE  CoalescerInv'
  BY <1>5, EntryStepInv
<1>6. CASE UNCHANGED coalescerVars
  <2>1. entries' = entries /\ entry' = entry /\ call' = call
    BY <1>6 DEF coalescerVars
  <2>2. Used' = Used /\ \A e \in Entry : Subscribers(e)' = Subscribers(e)
    BY <2>1 DEF Used, Subscribers
  <2>3. CoalescerTypeOK' /\ MapIsRunning'
    BY <2>1 DEF CoalescerInv, CoalescerTypeOK, MapIsRunning
  <2>4. MapIsBounded' /\ SubscribersCounted'
    BY <2>1, <2>2 DEF CoalescerInv, MapIsBounded, SubscribersCounted
  <2> QED
    BY <2>3, <2>4 DEF CoalescerInv
<1> QED
  BY <1>1, <1>2, <1>3, <1>4, <1>5, <1>6 DEF CoalescerNext

(* For any number of calls, keys and entries, with any limits: every operation
   that was started and has not settled is found under its key, a key has at
   most one, and there are no more than maxKeys of them (coalesce refuses the
   call that would be one too many).  A deadline that answers the subscribers
   leaves the operation in the map until it settles. *)
THEOREM OperationsAreTracked == CoalescerSpec => [](CoalescerTypeOK /\ NoUntrackedOperation)
<1>1. CoalescerInv => CoalescerTypeOK /\ NoUntrackedOperation
  <2> SUFFICES ASSUME CoalescerInv
               PROVE  NoUntrackedOperation
    BY DEF CoalescerInv
  <2> USE DEF CoalescerInv, CoalescerTypeOK
  <2>1. \A k \in Key : Running(k) = {entries[k]} \ {None}
    BY CoalescerAssumption DEF Running, MapIsRunning
  <2>2. UNION {Running(k) : k \in Key} = {entries[k] : k \in Used}
    BY <2>1 DEF Used
  <2>3. /\ IsFiniteSet({entries[k] : k \in Used})
        /\ Cardinality({entries[k] : k \in Used}) <= Cardinality(Used)
    <3> DEFINE E == {entries[k] : k \in Used}
               found == [k \in Used |-> entries[k]]
    <3>1. found \in Surjection(Used, E)
      BY DEF Surjection
    <3> HIDE DEF E, found
    <3>2. IsFiniteSet(E) /\ Cardinality(E) <= Cardinality(Used)
      BY <3>1, FS_Surjection DEF MapIsBounded
    <3> QED
      BY <3>2 DEF E
  <2>4. Cardinality({entries[k] : k \in Used}) \in Nat /\ Cardinality(Used) \in Nat
    BY <2>3, FS_CardinalityType DEF MapIsBounded
  <2>5. Cardinality(UNION {Running(k) : k \in Key}) <= MaxKeys
    <3>1. Cardinality({entries[k] : k \in Used}) <= MaxKeys
      BY <2>3, <2>4, CoalescerAssumption DEF MapIsBounded
    <3> QED
      BY <2>2, <3>1
  <2> QED
    BY <2>1, <2>5 DEF NoUntrackedOperation
<1> QED
  BY CoalescerInitInv, CoalescerInductive, <1>1, PTL DEF CoalescerSpec

-----------------------------------------------------------------------------
(* The request budget. *)

(* The advisory lock has one holder. *)
OneTransaction ==
  \A p, q \in Caller : InTransaction(p) /\ InTransaction(q) => p = q

(* Claims are committed in the order of their times, none from the future,
   and what is deleted has left the window. *)
ClaimsOrdered ==
  /\ \A i, j \in 1..Len(claimed) : i <= j => claimed[i] <= claimed[j]
  /\ \A i \in 1..Len(claimed) : claimed[i] <= clock
  /\ OnlyOldEventsDeleted

(* What the transaction of p sees: a prefix that has left the window is
   deleted, and before it inserts, the rest has room. *)
TransactionSees(p) ==
  InTransaction(p) =>
    /\ deleted <= caller[p].pruned /\ caller[p].pruned <= Len(claimed)
    /\ \A i \in 1..caller[p].pruned : Left(claimed[i])
    /\ caller[p].phase \in {"insert", "grant"} =>
         Len(claimed) < caller[p].pruned + Limit

(* The claim that is about to commit is not before any other, and a window
   after each that it has seen deleted. *)
ClaimFits(p) ==
  caller[p].phase = "grant" =>
    /\ caller[p].at <= clock
    /\ \A i \in 1..Len(claimed) : claimed[i] <= caller[p].at
    /\ \A i \in 1..caller[p].pruned : claimed[i] + Window <= caller[p].at

BudgetInv ==
  /\ BudgetTypeOK /\ OneTransaction /\ ClaimsOrdered
  /\ \A p \in Caller : TransactionSees(p) /\ ClaimFits(p)
  /\ WindowLimit
-----------------------------------------------------------------------------
(* No claim is made at first. *)
LEMMA BudgetInitInv == BudgetInit => BudgetInv
<1> SUFFICES ASSUME BudgetInit
             PROVE  BudgetInv
  OBVIOUS
<1>1. BudgetTypeOK
  BY BudgetAssumption DEF BudgetInit, BudgetTypeOK, BudgetCall, Idle
<1>2. OneTransaction /\ \A p \in Caller : TransactionSees(p) /\ ClaimFits(p)
  BY DEF BudgetInit, OneTransaction, TransactionSees, ClaimFits, InTransaction, Idle
<1>3. ClaimsOrdered /\ WindowLimit
  BY DEF BudgetInit, ClaimsOrdered, OnlyOldEventsDeleted, WindowLimit
<1> QED
  BY <1>1, <1>2, <1>3 DEF BudgetInv

(* A step of one caller that commits nothing: the others are as they were,
   and it is enough to look at that caller. *)
LEMMA OwnStep ==
  ASSUME BudgetInv, NEW p \in Caller, NEW c \in BudgetCall, c.waited <= MaxWait,
         Step(p, c), UNCHANGED <<clock, claimed, deleted>>,
         c.phase \in {"prune", "count", "insert", "grant", "deny"} =>
           InTransaction(p) \/ LockFree,
         TransactionSees(p)', ClaimFits(p)'
  PROVE  BudgetInv'
<1>t. BudgetTypeOK
  BY DEF BudgetInv
<1>1. caller'[p] = c /\ \A q \in Caller \ {p} : caller'[q] = caller[q]
  BY <1>t DEF BudgetTypeOK, Step
<1>2. BudgetTypeOK'
  BY <1>t, <1>1 DEF BudgetTypeOK, Step
<1>3. OneTransaction'
  BY <1>1 DEF BudgetInv, OneTransaction, InTransaction, LockFree
<1>4. ASSUME NEW q \in Caller
      PROVE  TransactionSees(q)' /\ ClaimFits(q)'
  BY <1>1 DEF BudgetInv, TransactionSees, ClaimFits, InTransaction, Left
<1>5. ClaimsOrdered' /\ WindowLimit'
  BY DEF BudgetInv, ClaimsOrdered, OnlyOldEventsDeleted, WindowLimit
<1> QED
  BY <1>2, <1>3, <1>4, <1>5 DEF BudgetInv

(* Out of a transaction nothing is seen and nothing is about to commit. *)
LEMMA OutsideStep ==
  ASSUME BudgetInv, NEW p \in Caller, NEW c \in BudgetCall, c.waited <= MaxWait,
         Step(p, c), UNCHANGED <<clock, claimed, deleted>>,
         c.phase \in {"idle", "connect", "lock", "sleep"}
  PROVE  BudgetInv'
<1>1. caller'[p] = c
  BY DEF BudgetInv, BudgetTypeOK, Step
<1>2. TransactionSees(p)' /\ ClaimFits(p)'
  BY <1>1 DEF TransactionSees, ClaimFits, InTransaction
<1> QED
  BY <1>2, OwnStep

(* acquire until its transaction begins, its sleep, and its abort. *)
LEMMA OutsideSteps ==
  ASSUME BudgetInv, NEW p \in Caller,
         Acquire(p) \/ Connect(p) \/ Wake(p) \/ BudgetCancel(p)
  PROVE  BudgetInv'
<1>t. caller[p] \in BudgetCall /\ caller[p].waited <= MaxWait /\ clock \in Nat
  BY BudgetAssumption DEF BudgetInv, BudgetTypeOK
<1>i. Idle \in BudgetCall /\ Idle.waited = 0 /\ Idle.phase = "idle" /\ MaxWait \in Nat
  BY BudgetAssumption DEF Idle, BudgetCall
<1>1. CASE Acquire(p)
  <2> DEFINE until == clock + MaxWait
             c == [Idle EXCEPT !.phase = "connect", !.deadline = until]
  <2>0. until \in Nat
    BY <1>t, <1>i
  <2> HIDE DEF until
  <2>1. \A r \in BudgetCall :
          LET d == [r EXCEPT !.phase = "connect", !.deadline = until]
          IN  d \in BudgetCall /\ d.waited = r.waited /\ d.phase = "connect"
    BY <2>0 DEF BudgetCall
  <2>2. c \in BudgetCall /\ c.waited = Idle.waited /\ c.phase = "connect"
    BY <1>i, <2>1, Zenon
  <2>3. c.waited <= MaxWait
    BY <1>i, <2>2
  <2> QED
    BY <1>1, <2>2, <2>3, OutsideStep DEF Acquire, until
<1>2. CASE Connect(p)
  <2> DEFINE c == [caller[p] EXCEPT !.phase = "lock"]
  <2>1. c \in BudgetCall /\ c.waited <= MaxWait /\ c.phase = "lock"
    BY <1>t DEF BudgetCall
  <2> QED
    BY <1>2, <2>1, OutsideStep DEF Connect
<1>3. CASE Wake(p)
  <2> DEFINE c == [caller[p] EXCEPT !.phase = "connect"]
  <2>1. c \in BudgetCall /\ c.waited <= MaxWait /\ c.phase = "connect"
    BY <1>t DEF BudgetCall
  <2> QED
    BY <1>3, <2>1, OutsideStep DEF Wake
<1>4. CASE BudgetCancel(p)
  BY <1>4, <1>i, OutsideStep DEF BudgetCancel
<1> QED
  BY <1>1, <1>2, <1>3, <1>4

(* pg_advisory_xact_lock: the transaction sees what was committed. *)
LEMMA LockInv ==
  ASSUME BudgetInv, NEW p \in Caller, Lock(p)
  PROVE  BudgetInv'
<1> DEFINE c == [caller[p] EXCEPT !.phase = "prune", !.pruned = deleted]
<1>t. /\ caller[p] \in BudgetCall /\ caller[p].waited <= MaxWait
      /\ deleted \in 0..Len(claimed) /\ Len(claimed) \in Nat /\ deleted \in Nat
  BY DEF BudgetInv, BudgetTypeOK
<1>1. c \in BudgetCall /\ c.waited <= MaxWait /\ c.phase = "prune" /\ c.pruned = deleted
  BY <1>t DEF BudgetCall
<1>2. caller'[p] = c /\ Step(p, c) /\ LockFree /\ UNCHANGED <<clock, claimed, deleted>>
  BY DEF Lock, Step, BudgetInv, BudgetTypeOK
<1>3. TransactionSees(p)' /\ ClaimFits(p)'
  <2>1. \A i \in 1..deleted : Left(claimed[i])
    BY DEF BudgetInv, ClaimsOrdered, OnlyOldEventsDeleted, Left
  <2> QED
    BY <1>t, <1>1, <1>2, <2>1 DEF TransactionSees, ClaimFits, Left
<1> QED
  BY <1>1, <1>2, <1>3, OwnStep

(* DELETE of the claims that left the window: they are the first ones. *)
LEMMA PruneInv ==
  ASSUME BudgetInv, NEW p \in Caller, Prune(p)
  PROVE  BudgetInv'
<1>t. /\ caller[p] \in BudgetCall /\ caller[p].waited <= MaxWait
      /\ deleted \in 0..Len(claimed) /\ Len(claimed) \in Nat
  BY DEF BudgetInv, BudgetTypeOK
<1>1. PICK n \in caller[p].pruned..Len(claimed) :
        /\ \A i \in 1..Len(claimed) :
             i > caller[p].pruned => (i <= n <=> Left(claimed[i]))
        /\ Step(p, [caller[p] EXCEPT !.phase = "count", !.pruned = n])
  BY DEF Prune
<1> DEFINE c == [caller[p] EXCEPT !.phase = "count", !.pruned = n]
<1>n. caller[p].pruned \in Nat /\ n \in Nat
  BY <1>t DEF BudgetCall
<1>2. c \in BudgetCall /\ c.waited <= MaxWait /\ c.phase = "count" /\ c.pruned = n
  BY <1>t, <1>n DEF BudgetCall
<1>3. caller'[p] = c /\ InTransaction(p) /\ UNCHANGED <<clock, claimed, deleted>>
  BY <1>1 DEF Prune, Step, BudgetInv, BudgetTypeOK, InTransaction
<1>4. deleted <= caller[p].pruned /\ \A i \in 1..caller[p].pruned : Left(claimed[i])
  BY <1>3 DEF BudgetInv, TransactionSees
<1>5. deleted <= n /\ n <= Len(claimed)
  BY <1>t, <1>4 DEF BudgetCall
<1>6. \A i \in 1..n : Left(claimed[i])
  BY <1>1, <1>n, <1>4, <1>5, <1>t
<1>7. TransactionSees(p)' /\ ClaimFits(p)'
  BY <1>2, <1>3, <1>5, <1>6 DEF TransactionSees, ClaimFits, Left
<1> QED
  BY <1>1, <1>2, <1>3, <1>7, OwnStep

(* The count of the claims left: there is room, or a wait is computed. *)
LEMMA CountInv ==
  ASSUME BudgetInv, NEW p \in Caller, Count(p)
  PROVE  BudgetInv'
<1> DEFINE c == caller[p]
           oldest == claimed[c.pruned + 1]
<1>t. /\ c \in BudgetCall /\ c.waited <= MaxWait /\ Len(claimed) \in Nat /\ Limit \in Nat
      /\ clock \in Nat /\ claimed \in Seq(0..MaxClock) /\ Window \in Nat /\ Limit > 0
      /\ c.pruned \in Nat
  BY BudgetAssumption DEF BudgetInv, BudgetTypeOK, BudgetCall
<1>s. /\ InTransaction(p) /\ deleted <= c.pruned /\ c.pruned <= Len(claimed)
      /\ \A i \in 1..c.pruned : Left(claimed[i])
      /\ UNCHANGED <<clock, claimed, deleted>>
  BY DEF Count, InTransaction, BudgetInv, TransactionSees
<1>1. CASE Len(claimed) - c.pruned < Limit
  <2> DEFINE d == [c EXCEPT !.phase = "insert"]
  <2>1. d \in BudgetCall /\ d.waited <= MaxWait /\ d.phase = "insert" /\ d.pruned = c.pruned
    BY <1>t DEF BudgetCall
  <2>2. Step(p, d) /\ caller'[p] = d
    BY <1>1 DEF Count, Step, BudgetInv, BudgetTypeOK
  <2>3. Len(claimed) < c.pruned + Limit
    BY <1>1, <1>t
  <2>4. TransactionSees(p)' /\ ClaimFits(p)'
    BY <1>s, <2>1, <2>2, <2>3 DEF TransactionSees, ClaimFits, Left
  <2> QED
    BY <1>s, <2>1, <2>2, <2>4, OwnStep
<1>2. CASE ~(Len(claimed) - c.pruned < Limit)
  <2> DEFINE wait == IF oldest + Window > clock + 1 THEN oldest + Window - clock ELSE 1
             d == [c EXCEPT !.phase = "deny", !.at = wait]
  <2>1. oldest \in Nat
    <3>1. c.pruned + 1 \in 1..Len(claimed)
      BY <1>2, <1>t, <1>s
    <3>2. oldest \in 0..MaxClock
      BY <1>t, <3>1, ElementOfSeq
    <3> QED
      BY <3>2
  <2>2. wait \in Nat
    BY <1>t, <2>1
  <2>3. d \in BudgetCall /\ d.waited <= MaxWait /\ d.phase = "deny" /\ d.pruned = c.pruned
    BY <1>t, <2>2 DEF BudgetCall
  <2>4. Step(p, d) /\ caller'[p] = d
    BY <1>2 DEF Count, Step, BudgetInv, BudgetTypeOK
  <2>5. TransactionSees(p)' /\ ClaimFits(p)'
    BY <1>s, <2>3, <2>4 DEF TransactionSees, ClaimFits, Left
  <2> QED
    BY <1>s, <2>3, <2>4, <2>5, OwnStep
<1> QED
  BY <1>1, <1>2

(* INSERT with the time of the database, under the lock. *)
LEMMA InsertInv ==
  ASSUME BudgetInv, NEW p \in Caller, Insert(p)
  PROVE  BudgetInv'
<1> DEFINE c == [caller[p] EXCEPT !.phase = "grant", !.at = clock]
<1>t. caller[p] \in BudgetCall /\ caller[p].waited <= MaxWait /\ clock \in Nat
  BY BudgetAssumption DEF BudgetInv, BudgetTypeOK
<1>1. /\ c \in BudgetCall /\ c.waited <= MaxWait /\ c.phase = "grant" /\ c.at = clock
      /\ c.pruned = caller[p].pruned
  BY <1>t DEF BudgetCall
<1>2. /\ caller'[p] = c /\ Step(p, c) /\ InTransaction(p)
      /\ UNCHANGED <<clock, claimed, deleted>>
  BY DEF Insert, Step, BudgetInv, BudgetTypeOK, InTransaction
<1>3. /\ deleted <= caller[p].pruned /\ caller[p].pruned <= Len(claimed)
      /\ \A i \in 1..caller[p].pruned : Left(claimed[i])
      /\ Len(claimed) < caller[p].pruned + Limit
  BY <1>2 DEF Insert, BudgetInv, TransactionSees
<1>4. \A i \in 1..Len(claimed) : claimed[i] <= clock
  BY DEF BudgetInv, ClaimsOrdered
<1>5. TransactionSees(p)' /\ ClaimFits(p)'
  BY <1>1, <1>2, <1>3, <1>4, <1>t DEF TransactionSees, ClaimFits, Left
<1> QED
  BY <1>1, <1>2, <1>5, OwnStep

(* The commit of a claim keeps the limit: the claim Limit places before it was
   seen deleted, so it lies a window back. *)
LEMMA GrantInv ==
  ASSUME BudgetInv, NEW p \in Caller, Grant(p)
  PROVE  BudgetInv'
<1> DEFINE c == caller[p]
           n == Len(claimed)
<1>t. /\ c \in BudgetCall /\ clock \in 0..MaxClock /\ MaxClock \in Nat
      /\ claimed \in Seq(0..MaxClock) /\ n \in Nat
      /\ Limit \in Nat /\ Limit > 0 /\ Window \in Nat
      /\ c.pruned \in Nat /\ c.at \in Nat /\ deleted \in Nat
  BY BudgetAssumption DEF BudgetInv, BudgetTypeOK, BudgetCall
<1>g. /\ claimed' = Append(claimed, c.at) /\ deleted' = c.pruned
      /\ UNCHANGED clock /\ InTransaction(p) /\ c.phase = "grant"
      /\ caller' = [caller EXCEPT ![p] = Idle]
  BY DEF Grant, Step, InTransaction
<1>s. /\ c.pruned <= n /\ n < c.pruned + Limit
      /\ c.at <= clock /\ \A i \in 1..n : claimed[i] <= c.at
      /\ \A i \in 1..c.pruned : claimed[i] + Window <= c.at
      /\ \A i \in 1..c.pruned : Left(claimed[i])
  BY <1>g DEF BudgetInv, TransactionSees, ClaimFits
<1>a. /\ Len(claimed') = n + 1 /\ claimed'[n + 1] = c.at
      /\ \A i \in 1..n : claimed'[i] = claimed[i]
      /\ claimed' \in Seq(0..MaxClock)
  BY <1>g, <1>t, <1>s, AppendProperties
<1>v. \A i \in 1..n : claimed[i] \in 0..MaxClock
  BY <1>t
<1>i. Idle \in BudgetCall /\ Idle.phase = "idle" /\ Idle.waited = 0 /\ MaxWait \in Nat
  BY BudgetAssumption DEF Idle, BudgetCall
<1>c. caller'[p] = Idle /\ \A q \in Caller \ {p} : caller'[q] = caller[q] /\ ~InTransaction(q)
  BY <1>g DEF BudgetInv, BudgetTypeOK, OneTransaction
<1>1. BudgetTypeOK'
  BY <1>a, <1>c, <1>g, <1>i, <1>s, <1>t DEF BudgetInv, BudgetTypeOK
<1>2. \A q \in Caller : ~InTransaction(q)'
  BY <1>c, <1>i DEF InTransaction
<1>3. OneTransaction' /\ \A q \in Caller : TransactionSees(q)' /\ ClaimFits(q)'
  BY <1>2 DEF OneTransaction, TransactionSees, ClaimFits, InTransaction
<1>4. ClaimsOrdered'
  <2>1. ASSUME NEW i \in 1..n + 1, NEW j \in 1..n + 1, i <= j
        PROVE  claimed'[i] <= claimed'[j]
    <3>1. CASE j \in 1..n
      <4>1. i \in 1..n
        BY <2>1, <3>1, <1>t
      <4> QED
        BY <2>1, <3>1, <4>1, <1>a DEF BudgetInv, ClaimsOrdered
    <3>2. CASE j = n + 1 /\ i \in 1..n
      BY <3>2, <1>a, <1>s
    <3>3. CASE j = n + 1 /\ i = n + 1
      BY <3>3, <1>a, <1>t
    <3> QED
      BY <3>1, <3>2, <3>3, <1>t, <2>1
  <2>2. ASSUME NEW i \in 1..n + 1
        PROVE  claimed'[i] <= clock
    <3>1. CASE i \in 1..n
      BY <3>1, <1>a DEF BudgetInv, ClaimsOrdered
    <3>2. CASE i = n + 1
      BY <3>2, <1>a, <1>s
    <3> QED
      BY <3>1, <3>2, <1>t
  <2>3. OnlyOldEventsDeleted'
    BY <1>a, <1>g, <1>s, <1>t DEF OnlyOldEventsDeleted, Left
  <2> QED
    BY <1>a, <1>g, <2>1, <2>2, <2>3 DEF ClaimsOrdered
<1>5. WindowLimit'
  <2>1. ASSUME NEW i \in 1..n + 1, i + Limit <= n + 1
        PROVE  claimed'[i + Limit] >= claimed'[i] + Window
    <3>1. i \in 1..n /\ claimed'[i] = claimed[i]
      BY <2>1, <1>a, <1>t
    <3>2. CASE i + Limit <= n
      <4>1. claimed'[i + Limit] = claimed[i + Limit]
        <5>1. i + Limit \in 1..n
          BY <3>1, <3>2, <1>t
        <5> QED
          BY <5>1, <1>a
      <4> QED
        BY <3>1, <3>2, <4>1 DEF BudgetInv, WindowLimit
    <3>3. CASE i + Limit = n + 1
      <4>1. i \in 1..c.pruned
        BY <3>1, <3>3, <1>s, <1>t
      <4>2. claimed[i] + Window <= c.at
        BY <4>1, <1>s
      <4> QED
        BY <3>1, <3>3, <4>2, <1>a, <1>t, <1>v
    <3>4. i + Limit <= n \/ i + Limit = n + 1
      <4>1. i \in Nat /\ Limit \in Nat /\ n \in Nat
        BY <1>t
      <4> HIDE DEF n
      <4> QED
        BY <2>1, <4>1
    <3> QED
      BY <3>2, <3>3, <3>4
  <2> QED
    BY <1>a, <2>1 DEF WindowLimit
<1> QED
  BY <1>1, <1>3, <1>4, <1>5 DEF BudgetInv

(* The transaction that has no room commits what it deleted. *)
LEMMA DenyInv ==
  ASSUME BudgetInv, NEW p \in Caller, Deny(p)
  PROVE  BudgetInv'
<1> DEFINE c == caller[p]
<1>t. /\ c \in BudgetCall /\ clock \in Nat /\ c.at \in Nat /\ c.waited \in Nat
      /\ c.waited <= MaxWait /\ MaxWait \in Nat /\ c.pruned \in Nat
      /\ Len(claimed) \in Nat /\ deleted \in Nat
  BY BudgetAssumption DEF BudgetInv, BudgetTypeOK, BudgetCall
<1>s. /\ deleted' = c.pruned /\ InTransaction(p) /\ UNCHANGED <<clock, claimed>>
      /\ c.pruned <= Len(claimed) /\ \A i \in 1..c.pruned : Left(claimed[i])
  BY DEF Deny, InTransaction, BudgetInv, TransactionSees
<1>1. PICK d \in BudgetCall :
        /\ d.phase \in {"idle", "sleep"} /\ d.waited <= MaxWait /\ Step(p, d)
  <2>1. CASE c.waited = MaxWait
    <3>1. Idle \in BudgetCall /\ Idle.phase = "idle" /\ Idle.waited = 0
      BY DEF Idle, BudgetCall
    <3> QED
      BY <2>1, <3>1, <1>t DEF Deny
  <2>2. CASE c.waited # MaxWait
    <3> DEFINE w == c.waited + Delay(c)
    <3>1. Delay(c) \in Nat /\ w \in Nat /\ w <= MaxWait
      BY <1>t DEF Delay, Least
    <3>2. Step(p, [c EXCEPT !.phase = "sleep", !.waited = w, !.at = clock + Delay(c)])
      BY <2>2 DEF Deny
    <3>3. clock + Delay(c) \in Nat
      BY <1>t, <3>1
    <3> HIDE DEF w
    <3>4. [c EXCEPT !.phase = "sleep", !.waited = w, !.at = clock + Delay(c)] \in BudgetCall
      BY <1>t, <3>1, <3>3 DEF BudgetCall
    <3>5. LET d == [c EXCEPT !.phase = "sleep", !.waited = w, !.at = clock + Delay(c)]
          IN  d.phase = "sleep" /\ d.waited = w
      BY <1>t DEF BudgetCall
    <3> QED
      BY <3>1, <3>2, <3>4, <3>5
  <2> QED
    BY <2>1, <2>2
<1>c. caller'[p] = d /\ \A q \in Caller \ {p} : caller'[q] = caller[q] /\ ~InTransaction(q)
  BY <1>1, <1>s DEF Step, BudgetInv, BudgetTypeOK, OneTransaction
<1>2. BudgetTypeOK'
  BY <1>1, <1>c, <1>s, <1>t DEF BudgetInv, BudgetTypeOK, Step
<1>3. \A q \in Caller : ~InTransaction(q)'
  BY <1>1, <1>c DEF InTransaction
<1>4. OneTransaction' /\ \A q \in Caller : TransactionSees(q)' /\ ClaimFits(q)'
  BY <1>3 DEF OneTransaction, TransactionSees, ClaimFits, InTransaction
<1>5. ClaimsOrdered' /\ WindowLimit'
  BY <1>s DEF BudgetInv, ClaimsOrdered, OnlyOldEventsDeleted, WindowLimit, Left
<1> QED
  BY <1>2, <1>4, <1>5 DEF BudgetInv

(* Time only makes claims leave the window. *)
LEMMA TickInv ==
  ASSUME BudgetInv, Tick
  PROVE  BudgetInv'
<1>t. BudgetTypeOK /\ clock \in Nat /\ MaxClock \in Nat /\ Window \in Nat
  BY BudgetAssumption DEF BudgetInv, BudgetTypeOK
<1>1. clock' = clock + 1 /\ clock < MaxClock /\ UNCHANGED <<claimed, deleted, caller>>
  BY DEF Tick
<1>v. \A i \in 1..Len(claimed) : claimed[i] \in Nat
  BY <1>t DEF BudgetTypeOK
<1>2. BudgetTypeOK' /\ OneTransaction' /\ WindowLimit'
  BY <1>1, <1>t DEF BudgetInv, BudgetTypeOK, OneTransaction, InTransaction, WindowLimit
<1>3. ClaimsOrdered'
  BY <1>1, <1>t, <1>v DEF BudgetInv, BudgetTypeOK, ClaimsOrdered, OnlyOldEventsDeleted
<1>4. ASSUME NEW p \in Caller
      PROVE  TransactionSees(p)' /\ ClaimFits(p)'
  <2>1. caller[p].at \in Nat /\ caller[p].pruned \in Nat /\ deleted \in Nat /\ Len(claimed) \in Nat
    BY <1>t DEF BudgetTypeOK, BudgetCall
  <2>2. TransactionSees(p) /\ ClaimFits(p)
    BY DEF BudgetInv
  <2> QED
    BY <1>1, <1>t, <1>v, <2>1, <2>2 DEF TransactionSees, ClaimFits, InTransaction, Left
<1> QED
  BY <1>2, <1>3, <1>4 DEF BudgetInv

(* Every step of the budget keeps its invariant. *)
LEMMA BudgetInductive == BudgetInv /\ [BudgetNext]_budgetVars => BudgetInv'
<1> SUFFICES ASSUME BudgetInv, [BudgetNext]_budgetVars
             PROVE  BudgetInv'
  OBVIOUS
<1>1. CASE Tick
  BY <1>1, TickInv
<1>2. ASSUME NEW p \in Caller, Acquire(p) \/ Connect(p) \/ Wake(p) \/ BudgetCancel(p)
      PROVE  BudgetInv'
  BY <1>2, OutsideSteps
<1>3. ASSUME NEW p \in Caller, Lock(p) \/ Prune(p) \/ Count(p) \/ Insert(p)
      PROVE  BudgetInv'
  BY <1>3, LockInv, PruneInv, CountInv, InsertInv
<1>4. ASSUME NEW p \in Caller, Grant(p) \/ Deny(p)
      PROVE  BudgetInv'
  BY <1>4, GrantInv, DenyInv
<1>5. CASE UNCHANGED budgetVars
  BY <1>5 DEF budgetVars, BudgetInv, BudgetTypeOK, OneTransaction, ClaimsOrdered,
     OnlyOldEventsDeleted, TransactionSees, ClaimFits, InTransaction, Left, WindowLimit
<1> QED
  BY <1>1, <1>2, <1>3, <1>4, <1>5 DEF BudgetNext, Serve

(* The invariant holds in every state. *)
LEMMA BudgetInvariant == BudgetFairSpec => []BudgetInv
<1>1. BudgetFairSpec => BudgetInit /\ [][BudgetNext]_budgetVars
  BY PTL DEF BudgetFairSpec
<1> QED
  BY BudgetInitInv, BudgetInductive, <1>1, PTL

(* For any number of callers, any limit and any window: of Limit + 1 claims that
   acquire granted in a row, the last is at least a window after the first, so no
   window holds more than Limit of them, however the callers interleave, are
   aborted or wait. *)
THEOREM LimitHolds == BudgetFairSpec => [](BudgetTypeOK /\ WindowLimit)
<1>1. BudgetInv => BudgetTypeOK /\ WindowLimit
  BY DEF BudgetInv
<1> QED
  BY BudgetInvariant, <1>1, PTL

(* The events that acquire deleted, its own and those of the transactions before
   it, are the oldest, and each of them has left the window: no claim that still
   counts is pruned. *)
THEOREM OnlyOldAreDeleted == BudgetFairSpec => []OnlyOldEventsDeleted
<1>1. BudgetInv => OnlyOldEventsDeleted
  BY DEF BudgetInv, ClaimsOrdered
<1> QED
  BY BudgetInvariant, <1>1, PTL

-----------------------------------------------------------------------------
(* Catalog discovery (TargetRotation). *)

(* Division by seven: the quotient and the rest determine the number. *)
LEMMA BySeven ==
  ASSUME NEW a \in Nat, NEW b \in 0..6
  PROVE  (7 * a + b) % 7 = b /\ (7 * a + b) \div 7 = a
OBVIOUS

(* Every number is its sevens and a rest below seven. *)
LEMMA Sevens ==
  ASSUME NEW n \in Nat
  PROVE  \E a \in Nat, b \in 0..6 : n = 7 * a + b
<1>1. n \div 7 \in Nat /\ n % 7 \in 0..6 /\ n = 7 * (n \div 7) + (n % 7)
  OBVIOUS
<1> QED
  BY <1>1

(* Every number is its sixes and a rest below six. *)
LEMMA Sixes ==
  ASSUME NEW n \in Nat
  PROVE  \E a \in Nat, b \in 0..5 : n = 6 * a + b
<1>1. n \div 6 \in Nat /\ n % 6 \in 0..5 /\ n = 6 * (n \div 6) + (n % 6)
  OBVIOUS
<1> QED
  BY <1>1

(* The page of a run that is not the first of its seven. *)
LEMMA InterveningPage ==
  ASSUME NEW a \in Nat, NEW b \in 1..6
  PROVE  catalogDiscoveryPageForCompletedRuns(7 * a + b) = 2 + ((6 * a + b - 1) % 99)
<1>1. (7 * a + b) % 7 = b /\ (7 * a + b) \div 7 = a
  BY BySeven
<1>2. (7 * a + b) - a - 1 = 6 * a + b - 1
  OBVIOUS
<1> QED
  BY <1>1, <1>2 DEF catalogDiscoveryPageForCompletedRuns

(* The cursor repeats after 99 rounds of seven runs: 693 does not disturb the rest. *)
LEMMA Wrapped ==
  ASSUME NEW n \in 0..1385
  PROVE  /\ n % 693 \in 0..692
         /\ (n % 693) % 7 = n % 7
         /\ catalogDiscoveryPageForCompletedRuns(n % 693) = catalogDiscoveryPageForCompletedRuns(n)
<1>0. n \in Nat
  OBVIOUS
<1>1. PICK a \in Nat, b \in 0..6 : n = 7 * a + b
  BY <1>0, Sevens
<1>2. CASE n < 693
  <2>1. n % 693 = n
    BY <1>2
  <2> QED
    BY <1>2, <2>1
<1>3. CASE n >= 693
  <2>1. a - 99 \in Nat /\ n % 693 = 7 * (a - 99) + b
    BY <1>1, <1>3
  <2>2. (n % 693) % 7 = b /\ n % 7 = b
    <3> DEFINE e == a - 99
    <3>1. e \in Nat /\ n % 693 = 7 * e + b
      BY <2>1
    <3> HIDE DEF e
    <3>2. (7 * e + b) % 7 = b /\ (7 * a + b) % 7 = b
      BY <3>1, BySeven
    <3> QED
      BY <1>1, <3>1, <3>2
  <2>3. CASE b = 0
    BY <2>2, <2>3, <2>1 DEF catalogDiscoveryPageForCompletedRuns
  <2>4. CASE b \in 1..6
    <3>1. (6 * (a - 99) + b - 1) % 99 = (6 * a + b - 1) % 99
      BY <1>3, <2>1, <2>4
    <3> QED
      BY <1>1, <2>1, <2>2, <2>4, <3>1, InterveningPage
  <2> QED
    BY <2>1, <2>2, <2>3, <2>4
<1> QED
  BY <1>2, <1>3

(* A run reads a page of 1..100, and page 1 when its number divides by seven. *)
LEMMA PageOfRun ==
  ASSUME NEW n \in Nat
  PROVE  /\ catalogDiscoveryPageForCompletedRuns(n) \in 1..100
         /\ catalogDiscoveryPageForCompletedRuns(n) = 1 <=> n % 7 = 0
<1>1. CASE n % 7 = 0
  BY <1>1 DEF catalogDiscoveryPageForCompletedRuns
<1>2. CASE n % 7 # 0
  <2>1. (n - (n \div 7) - 1) \in Int
    OBVIOUS
  <2>2. (n - (n \div 7) - 1) % 99 \in 0..98
    BY <2>1
  <2> QED
    BY <1>2, <2>2 DEF catalogDiscoveryPageForCompletedRuns
<1> QED
  BY <1>1, <1>2

(* From any run on, the next 116 read page p: the first of them that is    *)
(* not the first of its seven is number c of those six, and d runs of that *)
(* kind later it is the turn of p. *)
LEMMA EveryPageInTurn ==
  ASSUME NEW m \in 0..692, NEW p \in 1..100
  PROVE  \E i \in 0..115 : catalogDiscoveryPageForCompletedRuns(m + i) = p
<1>0. m \in Nat
  OBVIOUS
<1>1. PICK a \in Nat, b \in 0..6 : m = 7 * a + b
  BY <1>0, Sevens
<1>2. CASE p = 1
  <2>1. CASE b = 0
    <3>1. m + 0 \in Nat /\ (m + 0) % 7 = 0
      BY <1>1, <2>1
    <3> QED
      BY <1>2, <3>1, PageOfRun
  <2>2. CASE b # 0
    <3>1. m + (7 - b) \in Nat /\ (m + (7 - b)) % 7 = 0 /\ 7 - b \in 0..115
      BY <1>1, <2>2
    <3>2. catalogDiscoveryPageForCompletedRuns(m + (7 - b)) = 1
      BY <3>1, PageOfRun
    <3> QED
      BY <1>2, <3>1, <3>2
  <2> QED
    BY <2>1, <2>2
<1>3. CASE p # 1
  <2> DEFINE c == IF b = 0 THEN 0 ELSE b - 1
             d == (p - 2 - (6 * a + c)) % 99
  <2>1. c \in 0..5
    OBVIOUS
  <2>2. d \in 0..98 /\ (6 * a + c + d) % 99 = p - 2
    <3> DEFINE x == p - 2 - (6 * a + c)
    <3>1. x \in Int
      BY <2>1, <1>3
    <3>2. x % 99 \in 0..98 /\ (p - 2 - x + (x % 99)) % 99 = p - 2
      <4> HIDE DEF x
      <4> QED
        BY <1>3, <3>1
    <3> QED
      BY <2>1, <3>2
  <2> HIDE DEF c, d
  <2>3. PICK e \in Nat, f \in 0..5 : c + d = 6 * e + f
    <3>1. c + d \in Nat
      BY <2>1, <2>2
    <3> QED
      BY <3>1, Sixes
  <2>4. catalogDiscoveryPageForCompletedRuns(7 * (a + e) + (f + 1)) = p
    <3>1. 6 * (a + e) + (f + 1) - 1 = 6 * a + c + d
      BY <2>1, <2>2, <2>3
    <3>2. a + e \in Nat /\ f + 1 \in 1..6
      BY <2>3
    <3>3. catalogDiscoveryPageForCompletedRuns(7 * (a + e) + (f + 1))
            = 2 + ((6 * (a + e) + (f + 1) - 1) % 99)
      BY <3>2, InterveningPage
    <3> QED
      BY <1>3, <2>2, <3>1, <3>3
  <2>5. 7 * (a + e) + (f + 1) - m \in 0..115
    BY <1>1, <2>1, <2>2, <2>3 DEF c
  <2>6. m + (7 * (a + e) + (f + 1) - m) = 7 * (a + e) + (f + 1)
    BY <2>3
  <2> QED
    BY <2>4, <2>5, <2>6
<1> QED
  BY <1>2, <1>3

(* Of seven runs in a row one reads page 1. *)
LEMMA OneFirstPage ==
  ASSUME NEW m \in 0..692
  PROVE  Cardinality({i \in 0..6 : catalogDiscoveryPageForCompletedRuns(m + i) = 1}) = 1
<1>0. m \in Nat
  OBVIOUS
<1>1. PICK a \in Nat, b \in 0..6 : m = 7 * a + b
  BY <1>0, Sevens
<1>2. PICK k \in 0..6 : k = IF b = 0 THEN 0 ELSE 7 - b
  OBVIOUS
<1>3. ASSUME NEW i \in 0..6
      PROVE  catalogDiscoveryPageForCompletedRuns(m + i) = 1 <=> i = k
  <2>1. m + i \in Nat
    OBVIOUS
  <2>2. (m + i) % 7 = 0 <=> i = k
    BY <1>1, <1>2
  <2> QED
    BY <2>1, <2>2, PageOfRun
<1>4. {i \in 0..6 : catalogDiscoveryPageForCompletedRuns(m + i) = 1} = {k}
  BY <1>3
<1> QED
  BY <1>4, FS_Singleton

(* The cursor stays below its bound. *)
CursorInRange == catalog \in 0..(NCatalog - 1)

(* It does: it is counted modulo the bound. *)
LEMMA CursorStays == Spec => []CursorInRange
<1>1. Init => CursorInRange
  BY RotationAssumption DEF Init, CursorInRange
<1>2. CursorInRange /\ [Next]_vars => CursorInRange'
  <2>1. CursorInRange => (catalog + 1) % NCatalog \in 0..(NCatalog - 1)
    BY RotationAssumption DEF CursorInRange
  <2> QED
    BY <2>1 DEF CursorInRange, Next, CompletePriceRun, LosePriceRun, CompleteCatalogRun, vars
<1> QED
  BY <1>1, <1>2, PTL DEF Spec

(* "Page 1 is revisited every seventh ... run; the intervening runs rotate
   deterministically through pages 2-100" (docs/runbooks/worker.md:69-71),
   for the 693 runs that the code counts, from every cursor and over its
   wrap-around, whatever the targets, the pages and the schedule. *)
THEOREM DiscoveryIsComplete ==
  ASSUME NCatalog = 693
  PROVE  Spec => []DiscoveryReachesEveryPage
<1>1. ASSUME CursorInRange
      PROVE  DiscoveryReachesEveryPage
  <2> DEFINE PageAt(i) == catalogDiscoveryPageForCompletedRuns((catalog + i) % NCatalog)
  <2>1. ASSUME NEW i \in 0..115
        PROVE  /\ PageAt(i) = catalogDiscoveryPageForCompletedRuns(catalog + i)
               /\ PageAt(i) \in 1..100
    <3>1. catalog + i \in 0..1385 /\ catalog + i \in Nat
      BY <1>1 DEF CursorInRange
    <3>2. catalogDiscoveryPageForCompletedRuns((catalog + i) % 693)
            = catalogDiscoveryPageForCompletedRuns(catalog + i)
      BY <3>1, Wrapped
    <3>3. catalogDiscoveryPageForCompletedRuns(catalog + i) \in 1..100
      BY <3>1, PageOfRun
    <3> QED
      BY <3>2, <3>3
  <2>2. {PageAt(i) : i \in 0..115} = 1..100
    <3>1. ASSUME NEW p \in 1..100
          PROVE  \E i \in 0..115 : PageAt(i) = p
      <4>1. catalog \in 0..692
        BY <1>1 DEF CursorInRange
      <4>2. PICK i \in 0..115 : catalogDiscoveryPageForCompletedRuns(catalog + i) = p
        BY <4>1, EveryPageInTurn
      <4> HIDE DEF PageAt
      <4> QED
        BY <2>1, <4>2
    <3> HIDE DEF PageAt
    <3> QED
      BY <2>1, <3>1
  <2>3. {i \in 0..6 : PageAt(i) = 1}
          = {i \in 0..6 : catalogDiscoveryPageForCompletedRuns(catalog + i) = 1}
    <3> HIDE DEF PageAt
    <3>1. 0..6 \subseteq 0..115
      OBVIOUS
    <3> QED
      BY <2>1, <3>1
  <2>4. Cardinality({i \in 0..6 : PageAt(i) = 1}) = 1
    <3>1. catalog \in 0..692
      BY <1>1 DEF CursorInRange
    <3> HIDE DEF PageAt
    <3> QED
      BY <2>3, <3>1, OneFirstPage
  <2> QED
    BY <2>2, <2>4 DEF DiscoveryReachesEveryPage
<1> QED
  BY <1>1, CursorStays, PTL
=============================================================================
