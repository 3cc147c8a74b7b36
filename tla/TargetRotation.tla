--------------------------- MODULE TargetRotation ---------------------------
(***************************************************************************)
(* Which products a Kassalapp run refreshes                                *)
(* (packages/db/src/worker-targets.ts): the discovery page of a catalog    *)
(* run, and the page of the least-recently-refreshed queue of a price run. *)
(*                                                                         *)
(* The price queue orders the verified active products by the fetch time   *)
(* of their newest observation in a completed run of that claim class,     *)
(* never-refreshed first, then by GTIN; the run takes limit of them from   *)
(* an offset that a count of completed runs rotates.  Time is abstracted   *)
(* to the order of the queue: a run puts the products it observed at its   *)
(* end.  Prices that share a fetch time stay in GTIN order.                *)
(***************************************************************************)
EXTENDS Integers, Sequences, FiniteSets, SequencesExt

CONSTANTS
  NTarget,      \* verified active products, 1..NTarget in GTIN order
  PageLimit,    \* WORKER_TARGET_LIMIT
  Day,          \* the price runs of a day, in schedule order, by run type
  NCatalog      \* bound: catalog runs counted before the cursor repeats

Target == 1..NTarget
Kinds == {"benchmark-prices", "historical-prices"}

ASSUME RotationAssumption ==
  /\ NTarget \in Nat \ {0} /\ PageLimit \in Nat \ {0}
  /\ Day \in Seq(Kinds) /\ Day # <<>>
  /\ NCatalog \in Nat \ {0}

VARIABLES
  priced,     \* the products for which the source has a price
  slot,       \* the next price run of the day
  completed,  \* completed price runs of both types, modulo the page count
  queue,      \* the least-recently-refreshed queue of each run type
  unseen,     \* history: completed runs of a type since each target's turn
  catalog     \* completed non-empty catalog runs, modulo 693

vars == <<priced, slot, completed, queue, unseen, catalog>>

Ascending(S) == SetToSortSeq(S, <)

(* ceil(eligibleCount / pageLimit), at least 1.                            *)
PageCount == (NTarget + PageLimit - 1) \div PageLimit
Cap == PageCount * PageCount + 1   \* bound on the history

TypeOK ==
  /\ priced \subseteq Target
  /\ slot \in 1..Len(Day)
  /\ completed \in 0..(PageCount - 1)
  /\ queue \in [Kinds -> Seq(Target)]
  /\ \A k \in Kinds : Len(queue[k]) = NTarget /\ ToSet(queue[k]) = Target
  /\ unseen \in [Kinds -> [Target -> 0..Cap]]
  /\ catalog \in 0..(NCatalog - 1)

Init ==
  /\ priced \in (SUBSET Target) \ {{}}
  /\ slot = 1
  /\ completed = 0
  /\ queue = [k \in Kinds |-> Ascending(Target)]
  /\ unseen = [k \in Kinds |-> [t \in Target |-> 0]]
  /\ catalog = 0

-----------------------------------------------------------------------------
(* A ...Mutant is a deliberate error in the definition after it.           *)

priceTargetPageState(n) == (n % PageCount) * PageLimit

(* order by last_refreshed_at nulls first, value limit .. offset ..        *)
Page(k) ==
  LET offset == priceTargetPageState(completed) IN
  {queue[k][i] : i \in {j \in 1..NTarget : offset < j /\ j <= offset + PageLimit}}

Requeued(q, seen) ==
  SelectSeq(q, LAMBDA t : t \notin seen) \o Ascending(seen)

(* A price run completes: its observations now count as refreshes.         *)
CompletePriceRun ==
  LET k == Day[slot] IN
  /\ slot' = (slot % Len(Day)) + 1
  /\ completed' = (completed + 1) % PageCount
  /\ queue' = [queue EXCEPT ![k] = Requeued(@, Page(k) \cap priced)]
  /\ unseen' = [unseen EXCEPT ![k] =
       [t \in Target |-> IF t \in Page(k) THEN 0
                         ELSE IF @[t] < Cap THEN @[t] + 1 ELSE Cap]]
  /\ UNCHANGED <<priced, catalog>>

(* A run that is degraded or fails counts for nothing.                     *)
LosePriceRun ==
  /\ slot' = (slot % Len(Day)) + 1
  /\ UNCHANGED <<priced, completed, queue, unseen, catalog>>

(* The cursor is the number of completed non-empty runs modulo 693.        *)
CompleteCatalogRun ==
  /\ catalog' = (catalog + 1) % NCatalog
  /\ UNCHANGED <<priced, slot, completed, queue, unseen>>

Next == CompletePriceRun \/ LosePriceRun \/ CompleteCatalogRun

Spec == Init /\ [][Next]_vars

(* Every slot of the schedule is served and every price run completes.     *)
DailySpec == Init /\ [][CompletePriceRun]_vars /\ WF_vars(CompletePriceRun)

-----------------------------------------------------------------------------
(* Catalog discovery.                                                      *)
EveryRunDeepMutant(n) == IF n % 7 = 0 THEN 1 ELSE 2 + ((n - 1) % 100)
catalogDiscoveryPageForCompletedRuns(n) ==
  IF n % 7 = 0 THEN 1 ELSE 2 + ((n - (n \div 7) - 1) % 99)

(* "Page 1 is revisited every seventh ... run; the intervening runs rotate *)
(* deterministically through pages 2-100" (docs/runbooks/worker.md:69-71): *)
(* wherever the cursor is, and across its wrap-around, the next 116 runs   *)
(* read every page, and any seven of them read page 1 exactly once.        *)
DiscoveryReachesEveryPage ==
  LET PageAt(i) == catalogDiscoveryPageForCompletedRuns((catalog + i) % NCatalog) IN
  /\ {PageAt(i) : i \in 0..115} = 1..100
  /\ Cardinality({i \in 0..6 : PageAt(i) = 1}) = 1

(* "use separate least-recently-refreshed queues, with never-observed rows *)
(* first, so a lexical first page cannot permanently starve later          *)
(* products" (docs/runbooks/worker.md:77-79): while the schedule is kept,  *)
(* every product gets its turn in the queue of historical prices.  (So     *)
(* does "every eligible target is revisited once per                       *)
(* ceil(eligibleCount / pageLimit) runs", worker-targets.ts:91-93.)        *)
HistoryIsNeverStarved ==
  \A t \in Target : []<>(unseen["historical-prices"][t] = 0)

=============================================================================
