----------------------------- MODULE PagesProofs ----------------------------
(* Theorems about TripStore, DiscoveryPage, ShellCache and PlanPage, for   *)
(* any number of tabs, trips, items, markets, filters, products, answers,  *)
(* builds, workers, baskets, plans, starts and operations.                 *)
(*                                                                         *)
(* The trip: setCompleted reads the record in the transaction that writes  *)
(* it, and writes nothing when it is of another trip.  A trip that         *)
(* was not started has no ticks (TicksAreOfTrips), so a new one begins     *)
(* without any, and the trip stored was started (StoredWasStarted).        *)
(*                                                                         *)
(* The page: what is in flight and not aborted was asked for what is chosen*)
(* now (SearchesAreOfTheChoice), whether a list is shown or not, and the   *)
(* cursors are of the list under way too (CursorsAreOfTheList).  The state *)
(* of the batch is kept under a key of the basket and the products, so it  *)
(* never outlives either of them (RenderKeepsBatch).                       *)
(*                                                                         *)
(* The offline shell: one worker is in charge at most, and a build has one *)
(* live worker at most (WorkersInv), so nobody else works on the caches of *)
(* the build in charge (OthersIdle).  A page that was told that it works   *)
(* offline has a ready cache, and a search of its worker is going to find  *)
(* it (ProofInv).  A cache of another build that is not listed for         *)
(* deletion is owed by a handler under way, which deletes it or whose      *)
(* worker is installed (RetireInv).                                        *)
(*                                                                         *)
(* The page of plans: its invariant relates the page to its controls and   *)
(* to what is in flight.  At most one travel operation is current, and it  *)
(* is the one the controls are busy with, for the means of transport, the  *)
(* start and the basket they have (OperationsInv), so whatever supersedes  *)
(* it leaves none; a request for plans is of the basket of the page, which *)
(* waits (AskedInv); and the controls know of a start, of candidates or of *)
(* a route only while they are switched on, on plans (ControlsInv).        *)
EXTENDS TripStore, DiscoveryPage, ShellCache, PlanPage, SequenceTheorems, TLAPS

-----------------------------------------------------------------------------
(* The active trip. *)

(* The record, if there is one, is of a trip that was started. *)
StoredWasStarted == stored.active.trip \in used \cup {NoTrip}

(* A trip that was not started has no ticks to lose. *)
TicksAreOfTrips == \A t \in Trip : ticks[t] # {} => t \in used

(* The invariant. *)
TripInv == TripTypeOK /\ StoredWasStarted /\ TicksAreOfTrips /\ NoTickIsLost

-----------------------------------------------------------------------------
(* What the record of a trip is and what it is not. *)
LEMMA ActiveValues ==
  /\ Empty \notin Record /\ Empty.active = NoActive /\ Empty.format = "current"
  /\ NoActive.trip = NoTrip
  /\ \A a \in Active : a.trip \in Trip /\ a.trip # NoTrip /\ a.done \in SUBSET Item
  /\ \A a \in Active : [active |-> a, format |-> "current"] \in Record
  /\ \A t \in Trip : [trip |-> t, done |-> {}] \in Active
<1>1. \A a \in Active : a.trip \in Trip /\ a.trip # NoTrip /\ a.done \in SUBSET Item
  BY TripAssumption DEF Active
<1>2. Empty \notin Record
  BY TripAssumption DEF Empty, Record, NoActive, Active
<1>3. \A a \in Active : [active |-> a, format |-> "current"] \in Record
  BY DEF Record, Formats
<1>4. \A t \in Trip : [trip |-> t, done |-> {}] \in Active
  BY DEF Active
<1> QED
  BY <1>1, <1>2, <1>3, <1>4 DEF Empty, NoActive

(* setCompleted changes the items of the trip, not the trip. *)
LEMMA ToggledActive ==
  ASSUME NEW a \in Active, NEW i \in Item, NEW c
  PROVE  LET r == [a EXCEPT !.done = Toggled(@, i, c)] IN
         r \in Active /\ r.trip = a.trip /\ r.done = Toggled(a.done, i, c)
BY DEF Active, Toggled

(* A record in another format is of the same trip. *)
LEMMA Reformatted ==
  ASSUME NEW r \in Record \cup {Empty}, NEW f \in Formats
  PROVE  LET s == [r EXCEPT !.format = f] IN
         /\ s.active = r.active /\ s.format = f
         /\ r \in Record => s \in Record
         /\ r = Empty /\ f = "current" => s = Empty
BY DEF Record, Empty

(* No trip was ticked before the first one is started. *)
LEMMA TripInitInv == TripInit => TripInv
<1> SUFFICES ASSUME TripInit
             PROVE  TripInv
  OBVIOUS
<1>1. stored \in Record \cup {Empty} /\ stored.active \in Active \cup {NoActive}
  BY ActiveValues DEF TripInit, Record, Formats
<1>2. TripTypeOK
  BY <1>1, ActiveValues DEF TripInit, TripTypeOK, NoActive, Activities
<1>3. StoredWasStarted
  BY <1>1, ActiveValues DEF TripInit, StoredWasStarted
<1>4. NoTickIsLost
  BY <1>1, ActiveValues DEF TripInit, NoTickIsLost, Present, Record
<1>5. TicksAreOfTrips
  BY DEF TripInit, TicksAreOfTrips
<1> QED
  BY <1>2, <1>3, <1>4, <1>5 DEF TripInv

(* A step that leaves the record and the history alone, but for the format of
   the record. *)
LEMMA RecordKept ==
  ASSUME TripInv, UNCHANGED <<used, ticks>>,
         \/ stored' \in {stored, Empty}
         \/ Readable /\ stored' = Migrated
         \/ Present /\ stored' = [stored EXCEPT !.format = "corrupt"]
  PROVE  stored' \in Record \cup {Empty} /\ StoredWasStarted' /\ TicksAreOfTrips'
         /\ NoTickIsLost'
<1> USE ActiveValues DEF TripInv, TripTypeOK
<1>t. TicksAreOfTrips'
  BY DEF TicksAreOfTrips
<1>1. CASE stored' \in {stored, Empty}
  BY <1>t, <1>1 DEF StoredWasStarted, NoTickIsLost, Present, Readable
<1>2. CASE Readable /\ stored' = Migrated
  <2>1. /\ stored'.active = stored.active
        /\ stored' \in Record \cup {Empty}
        /\ Present' => Present
    BY <1>2, Reformatted DEF Migrated, Formats, Present
  <2> QED
    BY <1>t, <1>2, <2>1 DEF StoredWasStarted, NoTickIsLost
<1>3. CASE Present /\ stored' = [stored EXCEPT !.format = "corrupt"]
  <2>1. stored'.active = stored.active /\ ~Readable' /\ stored' \in Record \cup {Empty}
    BY <1>3, Reformatted DEF Formats, Present, Readable
  <2> QED
    BY <1>t, <2>1 DEF StoredWasStarted, NoTickIsLost
<1> QED
  BY <1>1, <1>2, <1>3

(* Every step of every tab keeps the invariant. *)
LEMMA TripInductive == TripInv /\ [TripNext]_tripVars => TripInv'
<1> SUFFICES ASSUME TripInv, [TripNext]_tripVars
             PROVE  TripInv'
  OBVIOUS
<1>t. TripTypeOK /\ StoredWasStarted /\ TicksAreOfTrips /\ NoTickIsLost
  BY DEF TripInv
<1>a. stored.active \in Active \cup {NoActive}
  BY <1>t, ActiveValues DEF TripTypeOK, Record
<1>1. ASSUME NEW b \in Tab, MeetCorrupt(b) \/ CorruptFinish(b) \/ Close(b)
                            \/ RemoveCorrupt(b) \/ Clear(b)
      PROVE  TripInv'
  <2>1. stored' \in {stored, Empty} /\ UNCHANGED <<used, ticks, early>>
    BY <1>1 DEF MeetCorrupt, CorruptFinish, Close, RemoveCorrupt, Clear
  <2>2. view' \in [Tab -> Active \cup {NoActive}] /\ tab' \in [Tab -> Activities]
    BY <1>1, <1>t DEF MeetCorrupt, CorruptFinish, Close, RemoveCorrupt, Clear,
                      TripTypeOK, Show, Become, Activities
  <2> QED
    BY <2>1, <2>2, <1>t, RecordKept DEF TripInv, TripTypeOK
<1>2. ASSUME NEW b \in Tab, GetActive(b) \/ BeginFinish(b) \/ RefuseFinish(b)
      PROVE  TripInv'
  <2>1. Readable /\ stored' = Migrated /\ UNCHANGED <<used, ticks, early>>
    BY <1>2 DEF GetActive, BeginFinish, RefuseFinish, Holds
  <2>2. view' \in [Tab -> Active \cup {NoActive}] /\ tab' \in [Tab -> Activities]
    BY <1>2, <1>t, <1>a DEF GetActive, BeginFinish, RefuseFinish,
                            TripTypeOK, Show, Become, Activities
  <2> QED
    BY <2>1, <2>2, <1>t, RecordKept DEF TripInv, TripTypeOK
<1>3. ASSUME NEW b \in Tab, EndFinish(b) \/ Remove(b)
      PROVE  TripInv'
  <2>1. stored' \in {stored, Empty} /\ UNCHANGED <<used, ticks>>
    BY <1>3 DEF EndFinish, Remove, Delete
  <2>2. view' \in [Tab -> Active \cup {NoActive}] /\ tab' \in [Tab -> Activities]
    BY <1>3, <1>t DEF EndFinish, Remove, TripTypeOK, Show, Become, Activities
  <2>3. early' \subseteq used
    <3>1. stored' # stored => stored.active.trip \in used
      BY <1>3, <1>t, <1>a, ActiveValues
         DEF EndFinish, Remove, Delete, Holds, Present, TripTypeOK, StoredWasStarted, Record
    <3> QED
      BY <1>3, <1>t, <3>1 DEF EndFinish, Remove, TripTypeOK
  <2> QED
    BY <2>1, <2>2, <2>3, <1>t, RecordKept DEF TripInv, TripTypeOK
<1>4. ASSUME NEW b \in Tab, NEW t \in Trip, StartTrip(b, t)
      PROVE  TripInv'
  <2>1. /\ stored' = [active |-> [trip |-> t, done |-> {}], format |-> "current"]
        /\ stored' \in Record
    BY <1>4, ActiveValues DEF StartTrip
  <2>2. TripTypeOK'
    BY <1>4, <1>t, <2>1 DEF StartTrip, TripTypeOK
  <2>3. StoredWasStarted'
    BY <1>4, <2>1 DEF StartTrip, StoredWasStarted
  <2>4. NoTickIsLost'
    BY <1>4, <1>t, <2>1 DEF StartTrip, NoTickIsLost, TicksAreOfTrips
  <2>5. TicksAreOfTrips'
    BY <1>4, <1>t DEF StartTrip, TicksAreOfTrips
  <2> QED
    BY <2>2, <2>3, <2>4, <2>5 DEF TripInv
<1>5. ASSUME NEW b \in Tab, NEW i \in Item, SetCompleted(b, i)
      PROVE  TripInv'
  <2> DEFINE t == view[b].trip
             c == i \notin view[b].done
  <2>1. Present /\ Readable /\ stored.active.trip = t /\ stored.active \in Active
    BY <1>5, <1>t, <1>a, ActiveValues DEF SetCompleted, Holds, TripTypeOK, Present, Record
  <2>2. /\ Updated(b, i, c) \in Active /\ Updated(b, i, c).trip = t
        /\ Updated(b, i, c).done = Toggled(stored.active.done, i, c)
    BY <2>1, ToggledActive DEF Updated
  <2>3. stored' = [active |-> Updated(b, i, c), format |-> "current"]
    BY <1>5 DEF SetCompleted
  <2>4. stored' \in Record /\ stored'.active = Updated(b, i, c)
    BY <2>2, <2>3, ActiveValues
  <2>5. t \in Trip /\ ticks' = [ticks EXCEPT ![t] = Toggled(@, i, c)]
    BY <1>5, <2>1, ActiveValues DEF SetCompleted
  <2>6. TripTypeOK'
    <3>1. view' \in [Tab -> Active \cup {NoActive}]
      BY <1>5, <1>t, <2>2, <2>4 DEF SetCompleted, Show, TripTypeOK
    <3>2. ticks' \in [Trip -> SUBSET Item]
      BY <1>t, <2>5 DEF TripTypeOK, Toggled
    <3> QED
      BY <1>5, <1>t, <2>4, <3>1, <3>2 DEF SetCompleted, TripTypeOK
  <2>7. StoredWasStarted'
    BY <1>5, <1>t, <2>1, <2>2, <2>4 DEF SetCompleted, StoredWasStarted
  <2>8. NoTickIsLost'
    <3>1. stored.active.done = ticks[t]
      BY <1>t, <2>1 DEF NoTickIsLost
    <3>2. ticks'[t] = Toggled(ticks[t], i, c)
      BY <1>t, <2>5 DEF TripTypeOK
    <3> QED
      BY <2>2, <2>4, <3>1, <3>2 DEF NoTickIsLost
  <2>9. TicksAreOfTrips'
    BY <1>5, <1>t, <2>1, <2>5, ActiveValues
       DEF SetCompleted, StoredWasStarted, TicksAreOfTrips, TripTypeOK
  <2> QED
    BY <2>6, <2>7, <2>8, <2>9 DEF TripInv
<1>6. CASE Corrupt
  <2>1. stored' \in Record \cup {Empty} /\ StoredWasStarted' /\ TicksAreOfTrips'
        /\ NoTickIsLost'
    BY <1>6, RecordKept DEF Corrupt
  <2> QED
    BY <1>6, <1>t, <2>1 DEF Corrupt, TripInv, TripTypeOK
<1>7. CASE UNCHANGED tripVars
  BY <1>7 DEF tripVars, TripInv, TripTypeOK, StoredWasStarted, TicksAreOfTrips, NoTickIsLost,
              Present, Readable
<1> QED
  BY <1>1, <1>2, <1>3, <1>4, <1>5, <1>6, <1>7 DEF TripNext

(* In every tab and however the tabs interleave, a stored trip has
   exactly the items of it that were ticked and not cleared since: a tab that
   shows an older state of the trip, or the same trip in an older format, takes
   no tick of another tab away. *)
THEOREM NoTickLost == TripSpec => []NoTickIsLost
<1>1. TripInv => NoTickIsLost
  BY DEF TripInv
<1> QED
  BY TripInitInv, TripInductive, <1>1, PTL DEF TripSpec

(* What one step does to the trip that is stored. *)
TripStepOK ==
  /\ \A t \in used : stored'.active.trip = t => stored.active.trip = t
  /\ Present => stored'.active.trip \in {stored.active.trip, NoTrip}
  /\ \A b \in Tab :
       tab[b] = "finishing" /\ tab'[b] = "idle" /\ stored' # stored
       => stored.active.trip = view[b].trip

(* Every step of every tab does to the stored trip what the theorem says. *)
LEMMA TripStepsOK == TripInv /\ [TripNext]_tripVars => TripStepOK \/ UNCHANGED tripVars
<1> SUFFICES ASSUME TripInv, TripNext
             PROVE  TripStepOK
  OBVIOUS
<1>t. TripTypeOK /\ StoredWasStarted
  BY DEF TripInv
<1>a. used \subseteq Trip /\ NoTrip \notin used /\ stored \in Record \cup {Empty}
  BY <1>t, TripAssumption DEF TripTypeOK
<1>n. Empty.active.trip = NoTrip
  BY ActiveValues
<1>r. \A f \in Formats : [stored EXCEPT !.format = f].active = stored.active
  BY <1>a, Reformatted
<1>1. ASSUME NEW b \in Tab,
             \/ MeetCorrupt(b) \/ RemoveCorrupt(b) \/ GetActive(b)
             \/ BeginFinish(b) \/ RefuseFinish(b) \/ CorruptFinish(b)
             \/ Remove(b) \/ Clear(b) \/ Close(b)
      PROVE  TripStepOK
  <2>1. stored'.active = stored.active \/ stored'.active.trip = NoTrip
    BY <1>1, <1>n, <1>r DEF MeetCorrupt, RemoveCorrupt, GetActive, BeginFinish, RefuseFinish,
       CorruptFinish, Remove, Clear, Close, Delete, Migrated, Formats
  <2>2. \A d \in Tab : tab[d] = "finishing" /\ tab'[d] = "idle" => stored' = stored
    BY <1>1, <1>t DEF MeetCorrupt, RemoveCorrupt, GetActive, BeginFinish, RefuseFinish,
       CorruptFinish, Remove, Clear, Close, Become, TripTypeOK
  <2> QED
    BY <2>1, <2>2, <1>a DEF TripStepOK
<1>2. ASSUME NEW b \in Tab, EndFinish(b)
      PROVE  TripStepOK
  <2>1. stored' # stored => stored' = Empty /\ stored.active.trip = view[b].trip
    BY <1>2 DEF EndFinish, Delete, Holds, Present, Readable
  <2>2. \A d \in Tab : tab[d] = "finishing" /\ tab'[d] = "idle" => d = b
    BY <1>2, <1>t DEF EndFinish, Become, TripTypeOK
  <2> QED
    BY <2>1, <2>2, <1>a, <1>n DEF TripStepOK
<1>3. ASSUME NEW b \in Tab, NEW t \in Trip, StartTrip(b, t)
      PROVE  TripStepOK
  <2>1. ~Present /\ stored'.active.trip = t /\ t \notin used /\ UNCHANGED tab
    BY <1>3 DEF StartTrip, NoneActive
  <2> QED
    BY <2>1 DEF TripStepOK
<1>4. ASSUME NEW b \in Tab, NEW i \in Item, SetCompleted(b, i)
      PROVE  TripStepOK
  <2> DEFINE c == i \notin view[b].done
  <2>1. Present /\ stored.active \in Active
    BY <1>4, <1>a DEF SetCompleted, Holds, Present, Record
  <2>2. stored' = [active |-> Updated(b, i, c), format |-> "current"] /\ UNCHANGED tab
    BY <1>4 DEF SetCompleted
  <2>3. Updated(b, i, c).trip = stored.active.trip
    BY <2>1, ToggledActive DEF Updated
  <2> QED
    BY <2>2, <2>3 DEF TripStepOK
<1>5. CASE Corrupt
  BY <1>5, <1>r DEF Corrupt, TripStepOK, Formats
<1> QED
  BY <1>1, <1>2, <1>3, <1>4, <1>5 DEF TripNext

(* A trip that was finished or removed is not stored again by a tab that still
   shows it, a trip replaces another only after that one is gone, and a finish
   that was confirmed deletes no other trip than the one it was confirmed for. *)
THEOREM NoTripReturns == TripSpec => TripsDoNotReturn
<1>1. TripInv /\ [TripNext]_tripVars => [TripStepOK]_tripVars
  BY TripStepsOK
<1> QED
  BY TripInitInv, TripInductive, <1>1, PTL DEF TripSpec, TripsDoNotReturn, TripStepOK

-----------------------------------------------------------------------------
(* The discovery page. *)

(* What the variables are. *)
MaybeMarket == Market \cup {NoMarket}
ShoppingBasket == [market : MaybeMarket,
                   needs : [BasketNeed -> CatalogProduct \cup {"free", "family"}]]
Cursor == [number : Nat, market : MaybeMarket, filter : Filter]
SearchRequests == [market : MaybeMarket, filter : Filter, cursor : Cursor \cup {NoCursor}]
Results == [products : SUBSET CatalogProduct, more : BOOLEAN,
            of : SearchRequests \cup {"nothing"}]
Listing == [filter : Filter, cursors : Seq(Cursor), status : {"loading", "ready", "error"},
            result : Results]
BatchRequest == [basket : ShoppingBasket, actions : SUBSET Action]
Batch == [chosen : SUBSET Action, pending : BatchRequest \cup {NoBatch},
          completed : BatchRequest \cup {NoBatch}, status : {"idle", "loading", "error"}]

DiscoveryShape ==
    /\ shopping \in ShoppingBasket
    /\ listing \in Listing
    /\ searches \subseteq [request : SearchRequests, current : BOOLEAN]
    /\ batch \in Batch
    /\ impacts \subseteq [request : BatchRequest, current : BOOLEAN]

(* The cursors are of this list, whether its answer is there or not. *)
CursorsAreOfTheList ==
    \A n \in 1..Len(listing.cursors) :
        listing.cursors[n] = [number |-> n, market |-> shopping.market, filter |-> listing.filter]

(* What is under way, and what arrived, was asked for what is chosen now. *)
SearchesAreOfTheChoice ==
    /\ \A s \in searches : s.current => s.request = SearchRequest(shopping, listing)
    /\ listing.status = "ready" => listing.result.of = SearchRequest(shopping, listing)

(* One action is chosen for a product on the page. *)
ChosenAreVisible ==
    /\ \A a \in batch.chosen : a.product \in VisibleProducts(shopping, listing)
    /\ \A a, b \in batch.chosen : a.product = b.product => a = b

(* The invariant. *)
ListInv == CursorsAreOfTheList /\ SearchesAreOfTheChoice /\ Len(listing.cursors) <= MaxCursor
BatchInv == ChosenAreVisible /\ ImpactIsOfThisBasket
DiscoveryInv == DiscoveryShape /\ ListInv /\ BatchInv
-----------------------------------------------------------------------------
(* An offered action leaves a well-typed basket. *)
LEMMA BasketChanges ==
    ASSUME NEW b \in ShoppingBasket, NEW product \in CatalogProduct
    PROVE  /\ WithProduct(b, product) \in ShoppingBasket
           /\ WithProduct(b, product).market = b.market
           /\ \A n \in BasketNeed : /\ WithNeed(b, n, product) \in ShoppingBasket
                                    /\ WithNeed(b, n, product).market = b.market
<1>1. ASSUME NEW n \in BasketNeed
      PROVE  /\ [b EXCEPT !.needs[n] = product] \in ShoppingBasket
             /\ [b EXCEPT !.needs[n] = product].market = b.market
  BY DEF ShoppingBasket
<1>2. MayAdd(b, product) => (CHOOSE n \in BasketNeed : b.needs[n] = "free") \in BasketNeed
  BY DEF MayAdd, Needed
<1> QED
  BY <1>1, <1>2 DEF WithProduct, WithNeed

(* A rendering with another basket or listing keeps what is about both, and
   drops the rest. *)
LEMMA RenderKeepsBatch ==
    ASSUME DiscoveryShape, BatchInv, NEW basket \in ShoppingBasket, NEW v \in Listing,
           Render(basket, v)
    PROVE  /\ shopping' = basket /\ listing' = v
           /\ batch' \in Batch /\ impacts' \subseteq [request : BatchRequest, current : BOOLEAN]
           /\ BatchInv'
<1>1. shopping' = basket /\ listing' = v
  BY DEF Render
<1>2. CASE BatchKey(basket, v) = BatchKey(shopping, listing)
  <2>1. UNCHANGED <<batch, impacts>> /\ basket = shopping
        /\ VisibleProducts(basket, v) = VisibleProducts(shopping, listing)
    BY <1>2 DEF Render, BatchKey
  <2>2. VisibleProducts(shopping, listing)' = VisibleProducts(shopping, listing)
    BY <1>1, <2>1 DEF VisibleProducts, EffectiveStatus
  <2>3. ChosenAreVisible'
    BY <2>1, <2>2 DEF BatchInv, ChosenAreVisible
  <2>4. ImpactIsOfThisBasket'
    <3>1. \A a : ActionOffered(shopping, a)' <=> ActionOffered(shopping, a)
      BY <1>1, <2>1 DEF ActionOffered, MayAdd, MaySet, Needed, Exactly
    <3> QED
      BY <1>1, <2>1, <2>2, <3>1 DEF BatchInv, ImpactIsOfThisBasket
  <2> QED
    BY <1>1, <2>1, <2>3, <2>4 DEF BatchInv, DiscoveryShape
<1>3. CASE BatchKey(basket, v) # BatchKey(shopping, listing)
  <2>1. batch' = FreshBatch /\ impacts' = AbortAll(impacts)
    BY <1>3 DEF Render
  <2>2. \A f \in impacts' : f.current = FALSE /\ f \in [request : BatchRequest, current : BOOLEAN]
    BY <2>1 DEF AbortAll, DiscoveryShape
  <2>3. batch' \in Batch /\ batch'.pending = NoBatch /\ batch'.completed = NoBatch
        /\ batch'.chosen = {}
    BY <2>1 DEF FreshBatch, Batch
  <2> QED
    BY <1>1, <2>2, <2>3 DEF BatchInv, ChosenAreVisible, ImpactIsOfThisBasket
<1> QED
  BY <1>1, <1>2, <1>3

(* The request for a list is one. *)
LEMMA RequestTyped ==
    ASSUME NEW b \in ShoppingBasket, NEW v \in Listing
    PROVE  SearchRequest(b, v) \in SearchRequests
<1>1. v.cursors \in Seq(Cursor) /\ v.filter \in Filter /\ b.market \in MaybeMarket
  BY DEF Listing, ShoppingBasket
<1>2. v.cursors # <<>> => v.cursors[Len(v.cursors)] \in Cursor
  BY <1>1, ElementOfSeq, LenProperties
<1> QED
  BY <1>1, <1>2 DEF SearchRequest, SearchRequests

(* A search just begun, as it is in flight. *)
LEMMA NewSearchTyped ==
    ASSUME NEW b \in ShoppingBasket, NEW v \in Listing
    PROVE  [request |-> SearchRequest(b, v), current |-> TRUE]
               \in [request : SearchRequests, current : BOOLEAN]
<1> DEFINE q == SearchRequest(b, v)
<1>1. q \in SearchRequests
  BY RequestTyped
<1> HIDE DEF q
<1>2. [request |-> q, current |-> TRUE] \in [request : SearchRequests, current : BOOLEAN]
  BY <1>1
<1> QED
  BY <1>2 DEF q

(* A new search for the list v of the basket. *)
LEMMA SearchInv ==
    ASSUME DiscoveryInv, NEW b \in ShoppingBasket, NEW v \in Listing,
           Search(b, v), shopping' = b, listing' = v, v.status = "loading",
           Len(v.cursors) <= MaxCursor,
           \A n \in 1..Len(v.cursors) :
               v.cursors[n] = [number |-> n, market |-> b.market, filter |-> v.filter]
    PROVE  /\ searches' \subseteq [request : SearchRequests, current : BOOLEAN]
           /\ ListInv'
<1>1. \A s \in searches' : \/ s.current = FALSE /\ s \in [request : SearchRequests, current : BOOLEAN]
                           \/ s = [request |-> SearchRequest(b, v), current |-> TRUE]
  BY DEF Search, AbortAll, DiscoveryInv, DiscoveryShape
<1>2. searches' \subseteq [request : SearchRequests, current : BOOLEAN]
  BY <1>1, NewSearchTyped
<1>3. SearchRequest(shopping, listing)' = SearchRequest(b, v)
  BY DEF SearchRequest
<1>4. SearchesAreOfTheChoice'
  BY <1>1, <1>3 DEF SearchesAreOfTheChoice
<1>5. CursorsAreOfTheList'
  BY DEF CursorsAreOfTheList
<1> QED
  BY <1>2, <1>4, <1>5 DEF ListInv

(* The page as it is opened. *)
LEMMA DiscoveryInitInv == DiscoveryInit => DiscoveryInv
<1> SUFFICES ASSUME DiscoveryInit
             PROVE  DiscoveryInv
  OBVIOUS
<1>1. NoResult \in Results /\ FreshBatch \in Batch
  BY DEF NoResult, Results, FreshBatch, Batch
<1>2. shopping \in ShoppingBasket
  BY DEF DiscoveryInit, ShoppingBasket, MaybeMarket
<1>3. <<>> \in Seq(Cursor) /\ Len(<<>>) = 0
  BY EmptySeq
<1>4. listing \in Listing /\ listing.cursors = <<>> /\ listing.status = "loading"
  BY <1>1, <1>3 DEF DiscoveryInit, Listing
<1>5. searches \subseteq [request : SearchRequests, current : BOOLEAN]
  BY <1>2, <1>4, NewSearchTyped DEF DiscoveryInit
<1>6. DiscoveryShape
  BY <1>1, <1>2, <1>4, <1>5 DEF DiscoveryInit, DiscoveryShape
<1>7. ListInv
  BY <1>3, <1>4, DiscoveryPageAssumption
     DEF DiscoveryInit, ListInv, CursorsAreOfTheList, SearchesAreOfTheChoice
<1>8. BatchInv
  BY DEF DiscoveryInit, BatchInv, ChosenAreVisible, ImpactIsOfThisBasket, FreshBatch
<1> QED
  BY <1>6, <1>7, <1>8 DEF DiscoveryInv

-----------------------------------------------------------------------------
(* The list: another filter, market or page. *)
LEMMA ListSteps ==
    ASSUME DiscoveryInv,
           NEW b \in ShoppingBasket, NEW v \in Listing,
           Render(b, v), Search(b, v), v.status = "loading",
           Len(v.cursors) <= MaxCursor,
           \A n \in 1..Len(v.cursors) :
               v.cursors[n] = [number |-> n, market |-> b.market, filter |-> v.filter]
    PROVE  DiscoveryInv'
BY RenderKeepsBatch, SearchInv DEF DiscoveryInv, DiscoveryShape

(* The first page of a list has no cursors. *)
LEMMA FirstPage ==
    ASSUME NEW b \in ShoppingBasket, NEW v \in Listing, v.cursors = <<>>
    PROVE  /\ Len(v.cursors) <= MaxCursor
           /\ \A n \in 1..Len(v.cursors) :
                  v.cursors[n] = [number |-> n, market |-> b.market, filter |-> v.filter]
<1>1. Len(v.cursors) = 0
  BY EmptySeq
<1>2. 0 <= MaxCursor /\ 1..0 = {}
  BY DiscoveryPageAssumption
<1> QED
  BY <1>1, <1>2

(* Another query, category, chain or type: the list begins anew. *)
LEMMA FilterInv ==
    ASSUME DiscoveryInv, NEW filter \in Filter, SetFilter(filter)
    PROVE  DiscoveryInv'
<1> DEFINE v == [listing EXCEPT !.filter = filter, !.cursors = <<>>, !.status = "loading"]
<1>1. v \in Listing /\ v.cursors = <<>> /\ v.status = "loading"
  BY EmptySeq DEF DiscoveryInv, DiscoveryShape, Listing
<1>2. Render(shopping, v) /\ Search(shopping, v)
  BY DEF SetFilter
<1>3. shopping \in ShoppingBasket
  BY DEF DiscoveryInv, DiscoveryShape
<1> HIDE DEF v
<1> QED
  BY <1>1, <1>2, <1>3, FirstPage, ListSteps

(* Another market: likewise, and the batch is forgotten. *)
LEMMA MarketInv ==
    ASSUME DiscoveryInv, NEW market \in Market, ChangeMarket(market)
    PROVE  DiscoveryInv'
<1> DEFINE b == [shopping EXCEPT !.market = market]
           v == [listing EXCEPT !.cursors = <<>>, !.status = "loading"]
<1>1. b \in ShoppingBasket
  BY DEF DiscoveryInv, DiscoveryShape, ShoppingBasket, MaybeMarket
<1>2. v \in Listing /\ v.cursors = <<>> /\ v.status = "loading"
  BY EmptySeq DEF DiscoveryInv, DiscoveryShape, Listing
<1>3. Render(b, v) /\ Search(b, v)
  BY DEF ChangeMarket
<1> HIDE DEF b, v
<1> QED
  BY <1>1, <1>2, <1>3, FirstPage, ListSteps

(* The pages of the list that is shown. *)
LEMMA PageInv ==
    ASSUME DiscoveryInv, NEW cursors \in Seq(Cursor), Len(cursors) <= MaxCursor,
           LET v == [listing EXCEPT !.cursors = cursors, !.status = "loading"]
           IN  Render(shopping, v) /\ Search(shopping, v),
           \A n \in 1..Len(cursors) : cursors[n] =
               [number |-> n, market |-> shopping.market, filter |-> listing.filter]
    PROVE  DiscoveryInv'
<1> DEFINE v == [listing EXCEPT !.cursors = cursors, !.status = "loading"]
<1>1. /\ v \in Listing /\ v.cursors = cursors /\ v.status = "loading"
      /\ v.filter = listing.filter
  BY DEF DiscoveryInv, DiscoveryShape, Listing
<1> QED
  BY <1>1, ListSteps DEF DiscoveryInv, DiscoveryShape

(* A search that failed is made again. *)
LEMMA RetryInv == DiscoveryInv /\ RetrySearch => DiscoveryInv'
<1> SUFFICES ASSUME DiscoveryInv, RetrySearch
             PROVE  DiscoveryInv'
  OBVIOUS
<1>1. listing.cursors \in Seq(Cursor)
  BY DEF DiscoveryInv, DiscoveryShape, Listing
<1>2. [listing EXCEPT !.status = "loading"]
        = [listing EXCEPT !.cursors = listing.cursors, !.status = "loading"]
  BY DEF DiscoveryInv, DiscoveryShape, Listing
<1> QED
  BY <1>1, <1>2, PageInv DEF RetrySearch, DiscoveryInv, ListInv, CursorsAreOfTheList

(* The page before has the cursors before. *)
LEMMA PreviousInv == DiscoveryInv /\ PreviousPage => DiscoveryInv'
<1> SUFFICES ASSUME DiscoveryInv, PreviousPage
             PROVE  DiscoveryInv'
  OBVIOUS
<1> DEFINE n == Len(listing.cursors)
           back == SubSeq(listing.cursors, 1, n - 1)
<1>1. listing.cursors \in Seq(Cursor) /\ listing.cursors # <<>> /\ n \in Nat /\ n # 0
  BY DEF DiscoveryInv, DiscoveryShape, Listing, PreviousPage
<1>2. /\ back \in Seq(Cursor) /\ Len(back) = n - 1
      /\ \A i \in 1..n - 1 : back[i] = listing.cursors[i]
  BY <1>1
<1>3. n <= MaxCursor
  BY DEF DiscoveryInv, ListInv
<1>4. \A i \in 1..Len(back) :
        back[i] = [number |-> i, market |-> shopping.market, filter |-> listing.filter]
  BY <1>1, <1>2 DEF DiscoveryInv, ListInv, CursorsAreOfTheList
<1>5. Len(back) <= MaxCursor
  BY <1>1, <1>2, <1>3, DiscoveryPageAssumption
<1> QED
  BY <1>2, <1>4, <1>5, PageInv DEF PreviousPage, TurnPage

(* The next cursor is numbered by the request of the list that is shown. *)
LEMMA NextPageInv == DiscoveryInv /\ NextPage => DiscoveryInv'
<1> SUFFICES ASSUME DiscoveryInv, NextPage
             PROVE  DiscoveryInv'
  OBVIOUS
<1> DEFINE n == Len(listing.cursors)
           next == NextCursor(listing.result.of)
           on == Append(listing.cursors, next)
<1>1. /\ listing.cursors \in Seq(Cursor) /\ n \in Nat /\ n < MaxCursor
      /\ shopping.market \in MaybeMarket /\ listing.filter \in Filter
  BY DEF DiscoveryInv, DiscoveryShape, Listing, ShoppingBasket, NextPage
<1>2. listing.result.of = SearchRequest(shopping, listing)
  BY DEF NextPage, TurnPage, EffectiveStatus, DiscoveryInv, ListInv, SearchesAreOfTheChoice
<1>3. SearchRequest(shopping, listing).cursor.number = n
  <2>1. CASE listing.cursors = <<>>
    BY <2>1, EmptySeq DEF SearchRequest, NoCursor
  <2>2. CASE listing.cursors # <<>>
    <3>1. n \in 1..n
      BY <1>1, <2>2
    <3>0. listing.cursors[n]
            = [number |-> n, market |-> shopping.market, filter |-> listing.filter]
      BY <3>1 DEF DiscoveryInv, ListInv, CursorsAreOfTheList
    <3> HIDE DEF n
    <3>2. listing.cursors[n].number = n
      BY <3>0
    <3> USE DEF n
    <3> QED
      BY <2>2, <3>2 DEF SearchRequest
  <2> QED
    BY <2>1, <2>2
<1>4. next = [number |-> n + 1, market |-> shopping.market, filter |-> listing.filter]
  BY <1>2, <1>3 DEF NextCursor, SearchRequest
<1>5. next \in Cursor
  BY <1>1, <1>4 DEF Cursor
<1>6. /\ on \in Seq(Cursor) /\ Len(on) = n + 1 /\ on[n + 1] = next
      /\ \A i \in 1..n : on[i] = listing.cursors[i]
  BY <1>1, <1>5, AppendProperties
<1>7. \A i \in 1..Len(on) :
        on[i] = [number |-> i, market |-> shopping.market, filter |-> listing.filter]
  BY <1>1, <1>4, <1>6 DEF DiscoveryInv, ListInv, CursorsAreOfTheList
<1>8. Len(on) <= MaxCursor
  BY <1>1, <1>6, DiscoveryPageAssumption
<1>9. LET v == [listing EXCEPT !.cursors = on, !.status = "loading"]
      IN  Render(shopping, v) /\ Search(shopping, v)
  BY DEF NextPage, TurnPage
<1> HIDE DEF on
<1> QED
  BY <1>6, <1>7, <1>8, <1>9, PageInv

(* A product added, or an action applied, changes the needs only. *)
LEMMA NeedsInv ==
    ASSUME DiscoveryInv, NEW b \in ShoppingBasket, b.market = shopping.market,
           Render(b, listing), UNCHANGED searches
    PROVE  DiscoveryInv'
<1>1. /\ shopping' = b /\ listing' = listing /\ BatchInv' /\ batch' \in Batch
      /\ impacts' \subseteq [request : BatchRequest, current : BOOLEAN]
  BY RenderKeepsBatch DEF DiscoveryInv, DiscoveryShape
<1>2. SearchRequest(shopping, listing)' = SearchRequest(shopping, listing)
  BY <1>1 DEF SearchRequest
<1>3. ListInv'
  BY <1>1, <1>2 DEF DiscoveryInv, ListInv, CursorsAreOfTheList, SearchesAreOfTheChoice
<1> QED
  BY <1>1, <1>3 DEF DiscoveryInv, DiscoveryShape

(* The answer to a search that was not aborted. *)
LEMMA AnswerInv ==
    ASSUME DiscoveryInv, NEW s \in searches, SearchAnswered(s)
    PROVE  DiscoveryInv'
<1>1. PICK v \in Listing :
        /\ Render(shopping, v) /\ v.filter = listing.filter /\ v.cursors = listing.cursors
        /\ v.status = "ready" => v.result.of = s.request
  <2>1. CASE \E products \in SUBSET CatalogProduct, more \in BOOLEAN :
               Render(shopping, [listing EXCEPT !.status = "ready",
                                   !.result = Result(s.request, products, more)])
    <3>1. PICK products \in SUBSET CatalogProduct, more \in BOOLEAN :
               Render(shopping, [listing EXCEPT !.status = "ready",
                                   !.result = Result(s.request, products, more)])
      BY <2>1
    <3> DEFINE r == Result(s.request, products, more)
               v == [listing EXCEPT !.status = "ready", !.result = r]
    <3>2. r \in Results /\ r.of = s.request
      BY DEF DiscoveryInv, DiscoveryShape, Result, Results
    <3> HIDE DEF r
    <3>3. /\ v \in Listing /\ v.filter = listing.filter /\ v.cursors = listing.cursors
          /\ v.status = "ready" /\ v.result = r
      BY <3>2 DEF DiscoveryInv, DiscoveryShape, Listing
    <3> QED
      BY <3>1, <3>2, <3>3 DEF r
  <2>2. CASE Render(shopping, [listing EXCEPT !.status = "error", !.result = NoResult])
    <3> DEFINE v == [listing EXCEPT !.status = "error", !.result = NoResult]
    <3>1. NoResult \in Results
      BY DEF NoResult, Results
    <3>2. /\ v \in Listing /\ v.filter = listing.filter /\ v.cursors = listing.cursors
          /\ v.status = "error"
      BY <3>1 DEF DiscoveryInv, DiscoveryShape, Listing
    <3> QED
      BY <2>2, <3>2
  <2> QED
    BY <2>1, <2>2 DEF SearchAnswered
<1>2. searches' = searches \ {s} /\ s.current
  BY DEF SearchAnswered, IsAborted, DiscoveryInv, DiscoveryShape
<1>3. /\ shopping' = shopping /\ listing' = v /\ BatchInv' /\ batch' \in Batch
      /\ impacts' \subseteq [request : BatchRequest, current : BOOLEAN]
  BY <1>1, RenderKeepsBatch DEF DiscoveryInv, DiscoveryShape
<1>4. SearchRequest(shopping, listing)' = SearchRequest(shopping, listing)
  BY <1>1, <1>3 DEF SearchRequest
<1>5. ListInv'
  BY <1>1, <1>2, <1>3, <1>4
     DEF DiscoveryInv, ListInv, CursorsAreOfTheList, SearchesAreOfTheChoice
<1> QED
  BY <1>2, <1>3, <1>5 DEF DiscoveryInv, DiscoveryShape

(* A product is added from the list. *)
LEMMA AddInv ==
    ASSUME DiscoveryInv, NEW product \in CatalogProduct, AddProduct(product)
    PROVE  DiscoveryInv'
BY BasketChanges, NeedsInv DEF AddProduct, DiscoveryInv, DiscoveryShape

(* An action is applied whose outcome is shown. *)
LEMMA ApplyInv ==
    ASSUME DiscoveryInv, NEW a \in Action, ApplyAction(a)
    PROVE  DiscoveryInv'
<1>0. shopping \in ShoppingBasket
  BY DEF DiscoveryInv, DiscoveryShape
<1>1. a.product \in CatalogProduct /\ (a.kind # "add" => a.need \in BasketNeed)
  BY DEF Action
<1>2. Applied(shopping, a) \in ShoppingBasket /\ Applied(shopping, a).market = shopping.market
  BY <1>0, <1>1, BasketChanges DEF Applied
<1> QED
  BY <1>2, NeedsInv DEF ApplyAction

-----------------------------------------------------------------------------
(* The batch: a step that leaves the list and the basket alone. *)
LEMMA BatchSteps ==
    ASSUME DiscoveryInv, UNCHANGED listVars,
           batch' \in Batch, impacts' \subseteq [request : BatchRequest, current : BOOLEAN],
           \A a \in batch'.chosen : a.product \in VisibleProducts(shopping, listing),
           \A a, b \in batch'.chosen : a.product = b.product => a = b,
           \A r \in {batch'.pending, batch'.completed}
                      \cup {i.request : i \in {f \in impacts' : f.current}} :
               r # NoBatch =>
                   /\ r.basket = shopping
                   /\ \A a \in r.actions : /\ a.product \in VisibleProducts(shopping, listing)
                                           /\ ActionOffered(shopping, a)
    PROVE  DiscoveryInv'
<1>1. UNCHANGED <<shopping, listing, searches>>
  BY DEF listVars
<1>2. /\ VisibleProducts(shopping, listing)' = VisibleProducts(shopping, listing)
      /\ SearchRequest(shopping, listing)' = SearchRequest(shopping, listing)
      /\ \A a : ActionOffered(shopping, a)' <=> ActionOffered(shopping, a)
  BY <1>1 DEF VisibleProducts, EffectiveStatus, SearchRequest, ActionOffered, MayAdd, MaySet,
              Needed, Exactly
<1>3. ListInv'
  BY <1>1, <1>2 DEF DiscoveryInv, ListInv, CursorsAreOfTheList, SearchesAreOfTheChoice
<1>4. BatchInv'
  BY <1>1, <1>2 DEF BatchInv, ChosenAreVisible, ImpactIsOfThisBasket
<1> QED
  BY <1>1, <1>3, <1>4 DEF DiscoveryInv, DiscoveryShape

(* What the batch is about, as a fact about any of its requests. *)
LEMMA BatchFacts ==
    ASSUME DiscoveryInv
    PROVE  /\ batch \in Batch
           /\ \A a \in batch.chosen : /\ a \in Action
                                      /\ a.product \in VisibleProducts(shopping, listing)
           /\ \A r \in {batch.pending, batch.completed}
                         \cup {i.request : i \in {f \in impacts : f.current}} :
                  r # NoBatch =>
                      /\ r.basket = shopping
                      /\ \A a \in r.actions : /\ a.product \in VisibleProducts(shopping, listing)
                                              /\ ActionOffered(shopping, a)
BY DEF DiscoveryInv, DiscoveryShape, BatchInv, ChosenAreVisible, ImpactIsOfThisBasket, Batch

(* The choices change: what was computed for them is dropped. *)
LEMMA ChoosingInv ==
    ASSUME DiscoveryInv, UNCHANGED <<listVars, impacts>>, NEW chosen \in SUBSET Action,
           Choosing(chosen),
           \A a \in chosen : a.product \in VisibleProducts(shopping, listing),
           \A a, b \in chosen : a.product = b.product => a = b
    PROVE  DiscoveryInv'
<1>1. batch' = [FreshBatch EXCEPT !.chosen = chosen]
  BY DEF Choosing
<1>2. /\ batch' \in Batch /\ batch'.chosen = chosen
      /\ batch'.pending = NoBatch /\ batch'.completed = NoBatch
  BY <1>1 DEF FreshBatch, Batch
<1> QED
  BY <1>2, BatchSteps, BatchFacts DEF DiscoveryInv, DiscoveryShape

(* A product is given another action, or none. *)
LEMMA ChooseInv ==
    ASSUME DiscoveryInv, NEW product \in CatalogProduct, ChooseAction(product)
    PROVE  DiscoveryInv'
<1> DEFINE others == {a \in batch.chosen : a.product # product}
<1>1. /\ others \in SUBSET Action
      /\ \A a \in others : a.product \in VisibleProducts(shopping, listing) /\ a.product # product
      /\ \A a, b \in others : a.product = b.product => a = b
  BY BatchFacts DEF DiscoveryInv, BatchInv, ChosenAreVisible
<1>2. product \in VisibleProducts(shopping, listing) /\ UNCHANGED <<listVars, impacts>>
  BY DEF ChooseAction
<1>3. CASE Choosing(others)
  BY <1>1, <1>2, <1>3, ChoosingInv
<1>4. ASSUME NEW a \in Action, a.product = product, Choosing(others \cup {a})
      PROVE  DiscoveryInv'
  <2> DEFINE chosen == others \cup {a}
  <2>1. /\ chosen \in SUBSET Action
        /\ \A b \in chosen : b.product \in VisibleProducts(shopping, listing)
        /\ \A b, d \in chosen : b.product = d.product => b = d
    BY <1>1, <1>2, <1>4
  <2> HIDE DEF chosen
  <2> QED
    BY <1>2, <1>4, <2>1, ChoosingInv DEF chosen
<1> QED
  BY <1>3, <1>4 DEF ChooseAction

(* Every product that may be added is chosen. *)
LEMMA SelectAllInv == DiscoveryInv /\ SelectAllAdds => DiscoveryInv'
<1> SUFFICES ASSUME DiscoveryInv, SelectAllAdds
             PROVE  DiscoveryInv'
  OBVIOUS
<1> DEFINE adds == {a \in Action : /\ a.kind = "add" /\ ActionOffered(shopping, a)
                                   /\ a.product \in VisibleProducts(shopping, listing)}
<1>1. \A a, b \in adds : a.product = b.product => a = b
  BY DEF Action
<1>2. Choosing(adds) /\ UNCHANGED <<listVars, impacts>>
  BY DEF SelectAllAdds
<1> QED
  BY <1>1, <1>2, ChoosingInv

(* A calculation starts for a request about the basket and the page. *)
LEMMA ExecuteInv ==
    ASSUME DiscoveryInv, NEW r \in BatchRequest, Execute(r), UNCHANGED listVars,
           r.basket = shopping,
           \A a \in r.actions : /\ a.product \in VisibleProducts(shopping, listing)
                                /\ ActionOffered(shopping, a)
    PROVE  DiscoveryInv'
<1>1. batch \in Batch /\ batch.chosen \in SUBSET Action
  BY BatchFacts DEF Batch
<1>2. /\ batch' \in Batch /\ batch'.chosen = batch.chosen
      /\ batch'.pending = NoBatch /\ batch'.completed = NoBatch
  BY <1>1 DEF Execute, FreshBatch, Batch
<1>3. \A f \in impacts' :
        \/ f.current = FALSE /\ f \in [request : BatchRequest, current : BOOLEAN]
        \/ f = [request |-> r, current |-> TRUE]
  BY DEF Execute, AbortAll, DiscoveryInv, DiscoveryShape
<1>n. [request |-> r, current |-> TRUE] \in [request : BatchRequest, current : BOOLEAN]
  OBVIOUS
<1>4. impacts' \subseteq [request : BatchRequest, current : BOOLEAN]
  BY <1>3, <1>n
<1>5. \A i \in {f \in impacts' : f.current} : i.request = r
  BY <1>3
<1>6. \A a, b \in batch.chosen : a.product = b.product => a = b
  BY DEF DiscoveryInv, BatchInv, ChosenAreVisible
<1> QED
  BY <1>2, <1>4, <1>5, <1>6, BatchFacts, BatchSteps

(* The calculation begins, or waits for a confirmation. *)
LEMMA BeginInv == DiscoveryInv /\ BeginCalculation => DiscoveryInv'
<1> SUFFICES ASSUME DiscoveryInv, BeginCalculation
             PROVE  DiscoveryInv'
  OBVIOUS
<1> DEFINE r == ImpactRequest
<1>1. /\ r \in BatchRequest /\ r.basket = shopping
      /\ \A a \in r.actions : /\ a.product \in VisibleProducts(shopping, listing)
                              /\ ActionOffered(shopping, a)
  BY BatchFacts DEF ImpactRequest, BatchRequest, DiscoveryInv, DiscoveryShape
<1>2. UNCHANGED listVars
  BY DEF BeginCalculation
<1> HIDE DEF r
<1>3. CASE Execute(r)
  BY <1>1, <1>2, <1>3, ExecuteInv
<1>4. CASE /\ UNCHANGED impacts
           /\ batch' = [batch EXCEPT !.pending = r, !.completed = NoBatch, !.status = "idle"]
  <2>1. /\ batch' \in Batch /\ batch'.chosen = batch.chosen
        /\ batch'.pending = r /\ batch'.completed = NoBatch
    BY <1>1, <1>4, BatchFacts DEF Batch
  <2>2. \A a, b \in batch.chosen : a.product = b.product => a = b
    BY DEF DiscoveryInv, BatchInv, ChosenAreVisible
  <2>3. impacts' = impacts /\ impacts' \subseteq [request : BatchRequest, current : BOOLEAN]
    BY <1>4 DEF DiscoveryInv, DiscoveryShape
  <2> QED
    BY <1>1, <1>2, <2>1, <2>2, <2>3, BatchFacts, BatchSteps
<1> QED
  BY <1>3, <1>4 DEF BeginCalculation, r

(* The replacement is confirmed. *)
LEMMA ConfirmInv == DiscoveryInv /\ ConfirmReplacement => DiscoveryInv'
<1> SUFFICES ASSUME DiscoveryInv, ConfirmReplacement
             PROVE  DiscoveryInv'
  OBVIOUS
<1>1. batch.pending \in BatchRequest /\ batch.pending # NoBatch
  BY BatchFacts DEF ConfirmReplacement, Batch
<1> QED
  BY <1>1, BatchFacts, ExecuteInv DEF ConfirmReplacement

(* An answer of the batch, or the end of a replacement. *)
LEMMA BatchAnswers ==
    ASSUME DiscoveryInv,
           \/ CancelReplacement
           \/ \E i \in impacts : LateImpact(i) \/ ImpactAnswered(i)
    PROVE  DiscoveryInv'
<1>u. UNCHANGED listVars /\ impacts' \subseteq impacts
  BY DEF CancelReplacement, LateImpact, ImpactAnswered
<1>c. \A a, b \in batch.chosen : a.product = b.product => a = b
  BY DEF DiscoveryInv, BatchInv, ChosenAreVisible
<1>i. impacts \subseteq [request : BatchRequest, current : BOOLEAN]
  BY DEF DiscoveryInv, DiscoveryShape
<1>1. /\ batch' \in Batch /\ batch'.chosen = batch.chosen
      /\ \A r \in {batch'.pending, batch'.completed} :
           r \in {NoBatch, batch.pending, batch.completed}
                   \cup {i.request : i \in {f \in impacts : f.current}}
  <2>1. CASE CancelReplacement
    BY <2>1, BatchFacts DEF CancelReplacement, Batch
  <2>2. ASSUME NEW i \in impacts, LateImpact(i)
        PROVE  batch' = batch
    BY <2>2 DEF LateImpact
  <2>3. ASSUME NEW i \in impacts, ImpactAnswered(i)
        PROVE  <1>1!:
    <3>1. i.current /\ i.request \in BatchRequest
      BY <2>3, <1>i DEF ImpactAnswered, IsAborted
    <3>2. CASE batch' = [batch EXCEPT !.completed = i.request, !.status = "idle"]
      BY <3>1, <3>2, BatchFacts DEF Batch
    <3>3. CASE batch' = [batch EXCEPT !.status = "error"]
      BY <3>3, BatchFacts DEF Batch
    <3> QED
      BY <2>3, <3>2, <3>3 DEF ImpactAnswered
  <2> QED
    BY <2>1, <2>2, <2>3, BatchFacts
<1>2. impacts' \subseteq [request : BatchRequest, current : BOOLEAN]
  BY <1>u, <1>i
<1>3. \A r \in {batch'.pending, batch'.completed}
                 \cup {i.request : i \in {f \in impacts' : f.current}} :
        r \in {NoBatch, batch.pending, batch.completed}
                \cup {i.request : i \in {f \in impacts : f.current}}
  BY <1>1, <1>u
<1> QED
  BY <1>u, <1>c, <1>1, <1>2, <1>3, BatchFacts, BatchSteps

(* The answer to a search that was aborted. *)
LEMMA LateInv ==
    ASSUME DiscoveryInv, NEW s \in searches, LateSearch(s)
    PROVE  DiscoveryInv'
<1>1. searches' \subseteq searches /\ UNCHANGED <<shopping, listing, batch, impacts>>
  BY DEF LateSearch
<1>2. ListInv' /\ DiscoveryShape'
  BY <1>1 DEF DiscoveryInv, DiscoveryShape, ListInv, CursorsAreOfTheList,
              SearchesAreOfTheChoice, SearchRequest
<1>3. BatchInv'
  BY <1>1 DEF DiscoveryInv, BatchInv, ChosenAreVisible, ImpactIsOfThisBasket,
              VisibleProducts, EffectiveStatus, ActionOffered, MayAdd, MaySet, Needed, Exactly
<1> QED
  BY <1>2, <1>3 DEF DiscoveryInv

(* Every step of the page keeps its invariant. *)
LEMMA DiscoveryInductive == DiscoveryInv /\ [DiscoveryNext]_discoveryVars => DiscoveryInv'
<1> SUFFICES ASSUME DiscoveryInv, [DiscoveryNext]_discoveryVars
             PROVE  DiscoveryInv'
  OBVIOUS
<1>1. CASE DiscoveryNext
  BY <1>1, FilterInv, MarketInv, RetryInv, PreviousInv, NextPageInv, AddInv, ChooseInv, LateInv,
     AnswerInv, SelectAllInv, BeginInv, ConfirmInv, BatchAnswers, ApplyInv DEF DiscoveryNext
<1>2. CASE UNCHANGED discoveryVars
  <2>1. UNCHANGED <<shopping, listing, searches, batch, impacts>>
    BY <1>2 DEF discoveryVars
  <2>2. ListInv' /\ DiscoveryShape'
    BY <2>1 DEF DiscoveryInv, DiscoveryShape, ListInv, CursorsAreOfTheList,
                SearchesAreOfTheChoice, SearchRequest
  <2>3. BatchInv'
    BY <2>1 DEF DiscoveryInv, BatchInv, ChosenAreVisible, ImpactIsOfThisBasket,
                VisibleProducts, EffectiveStatus, ActionOffered, MayAdd, MaySet, Needed, Exactly
  <2> QED
    BY <2>2, <2>3 DEF DiscoveryInv
<1> QED
  BY <1>1, <1>2

(* The invariant holds in every state. *)
LEMMA DiscoveryInvariant == DiscoverySpec => []DiscoveryInv
BY DiscoveryInitInv, DiscoveryInductive, PTL DEF DiscoverySpec

(* For any markets, filters and products, any number of requests in flight and
   any order of their answers: a list that the discovery page shows is the answer
   for the market, the filter and the page chosen, and every page of it was
   turned to from a page of the same list. *)
THEOREM ListIsCurrent == DiscoverySpec => [](DiscoveryTypeOK /\ ListAnswersTheChoice)
<1>1. DiscoveryInv => DiscoveryTypeOK
  BY DEF DiscoveryInv, DiscoveryShape, ListInv, BatchInv, ChosenAreVisible, DiscoveryTypeOK,
         ShoppingBasket, MaybeMarket, Listing, Results, Batch
<1>2. DiscoveryInv => ListAnswersTheChoice
  <2>1. DiscoveryInv => DOMAIN listing.cursors = 1..Len(listing.cursors)
    BY DEF DiscoveryInv, DiscoveryShape, Listing
  <2>2. EffectiveStatus(shopping, listing) = "ready" => listing.status = "ready"
    BY DEF EffectiveStatus
  <2> QED
    BY <2>1, <2>2 DEF DiscoveryInv, ListInv, CursorsAreOfTheList, SearchesAreOfTheChoice,
                      ListAnswersTheChoice
<1> QED
  BY DiscoveryInvariant, <1>1, <1>2, PTL

(* What the batch shows, waits for or asks to be confirmed was computed for the
   basket as it is and for products on the page, so an action whose outcome is
   shown can be applied, and does what was calculated. *)
THEOREM ImpactIsCurrent == DiscoverySpec => []ImpactIsOfThisBasket
<1>1. DiscoveryInv => ImpactIsOfThisBasket
  BY DEF DiscoveryInv, BatchInv
<1> QED
  BY DiscoveryInvariant, <1>1, PTL

-----------------------------------------------------------------------------
(* The offline shell: what holds of its workers, handlers and caches. *)

(* A worker that the browser has not given up. *)
Live(w) == worker[w].state \in {"installing", "installed", "activating", "active"}

(* One worker is in charge at most, and a build has one live worker at most. *)
WorkersInv ==
    /\ \A v, w \in InCharge : v = w
    /\ \A v, w \in Worker : Live(v) /\ Live(w) /\ BuildOf(v) = BuildOf(w) => v = w

(* What the handlers of a worker are in the middle of, by its state. *)
LifeShape(w) ==
    LET t == task[<<w, "life">>] IN
    /\ ~t.find /\ t.kind = "shell"
    /\ CASE worker[w].state = "installing" -> t.step \in {"open", "document", "rest", "verify"}
         [] worker[w].state = "activating" -> t.step \in {"names", "sweep"}
         [] OTHER -> t.step = "idle"

Finding(t) == t.find /\ t.step \in {"names", "open", "check"}
              /\ (t.step # "names" => t.kind \in {"shell", "repair"})
Repairing(t) == ~t.find /\ t.step \in {"open", "document", "rest", "verify", "recheck"}
                /\ t.kind = "repair"
Fetching(t) ==
    /\ ~t.find /\ t.step \in {"match", "runtime", "opened", "fetch", "stored"}
    /\ t.step # "match" => t.kind = "runtime"

FetchShape(w) ==
    /\ task[<<w, "again">>].step = "idle"
    /\ task[<<w, "ensure">>].step # "idle" => Finding(task[<<w, "ensure">>]) \/ Repairing(task[<<w, "ensure">>])
    /\ task[<<w, "asset">>].step # "idle" => Finding(task[<<w, "asset">>]) \/ Fetching(task[<<w, "asset">>])
    /\ worker[w].state \in {"none", "installing", "installed", "activating"} =>
         task[<<w, "ensure">>].step = "idle" /\ task[<<w, "asset">>].step = "idle"

HandlersInv == \A w \in Worker : LifeShape(w) /\ FetchShape(w)

(* Nobody else works on the caches of the build in charge. *)
OthersIdle ==
    \A w \in InCharge, v \in Worker : v # w /\ BuildOf(v) = BuildOf(w) => ~Busy(v)

(* The active worker has open what is stored under the name, and it has seen *)
(* that its repair is ready.                                                 *)
AttachedOf(w) ==
    LET t == task[<<w, "ensure">>] IN
    /\ t.step \in {"check", "document", "rest", "verify", "recheck"} => t.handle = "attached"
    /\ t.step = "recheck" => cacheOf[Named(w, "repair")] = "ready"
AttachedInv == \A w \in Worker : worker[w].state = "active" => AttachedOf(w)

(* The search under way is going to find a ready cache. *)
FindsReady(w) ==
    LET t == task[<<w, "ensure">>] IN
    /\ t.find
    /\ t.step # "names" =>
         \/ cacheOf[Named(w, t.kind)] = "ready"
         \/ /\ t.kind = "repair" /\ Named(w, "shell") \in t.names
            /\ cacheOf[Named(w, "shell")] = "ready"

ProofOf(w) ==
    Ready(page.build) /\ (task[<<w, "ensure">>].step # "idle" => FindsReady(w))
ProofInv ==
    /\ page.proof # "none" => \E w \in Worker : worker[w].state = "active" /\ BuildOf(w) = page.build
    /\ \A w \in Worker :
         page.proof = "ready" /\ worker[w].state = "active" /\ BuildOf(w) = page.build => ProofOf(w)

(* A cache is going to be deleted, or to be that of an installed worker: by the *)
(* worker that installs it or repairs it; or, unless it is ready, by one that   *)
(* checks it, has just opened it, or has put an asset there.                    *)
Makes(v, h, c) ==
    /\ BuildOf(v) = c[2]
    /\ \/ h = "life" /\ worker[v].state = "installing"
       \/ /\ h = "ensure" /\ c[1] = "repair" /\ ~task[<<v, h>>].find
          /\ task[<<v, h>>].step \in {"document", "rest", "verify", "recheck"}
Keeps(v, h, c) ==
    /\ BuildOf(v) = c[2] /\ task[<<v, h>>].kind = c[1] /\ task[<<v, h>>].handle = "attached"
    /\ task[<<v, h>>].step \in {"check", "opened", "stored"}
Owes(v, h, c) == Makes(v, h, c) \/ (cacheOf[c] # "ready" /\ Keeps(v, h, c))
Owed(c) == \E v \in Worker, h \in Handler : Owes(v, h, c)

(* What the worker in charge is going to delete, once it has listed it. *)
Listed(w) == IF worker[w].state = "activating" THEN task[<<w, "life">>].names ELSE {}
Swept(w) == worker[w].state = "active" \/ (worker[w].state = "activating" /\ task[<<w, "life">>].step = "sweep")
RetireInv ==
    ~killed => \A w \in Worker : Swept(w) /\ (\A v \in Worker : worker[v].state # "installed") =>
      \A c \in Visible : c[2] # BuildOf(w) => c \in Listed(w) \/ Owed(c)

(* The invariant. *)
ShellInv == ShellTypeOK /\ WorkersInv /\ HandlersInv /\ OthersIdle /\ AttachedInv /\ ProofInv /\ RetireInv

-----------------------------------------------------------------------------
(* What a handler does to the caches and to the other handlers. *)

(* Handler h of worker u moves: the caches in D are deleted or made anew, those *)
(* in T written to; the other handlers keep what they have open elsewhere.      *)
Moves(u, h, D, T) ==
    /\ task' \in [Worker \X Handler -> ShellTask]
    /\ cacheOf' \in [CacheName -> Contents]
    /\ \A v \in Worker, g \in Handler : v # u \/ g # h =>
         /\ task'[<<v, g>>].step = task[<<v, g>>].step /\ task'[<<v, g>>].find = task[<<v, g>>].find
         /\ task'[<<v, g>>].kind = task[<<v, g>>].kind /\ task'[<<v, g>>].names = task[<<v, g>>].names
         /\ <<task[<<v, g>>].kind, BuildOf(v)>> \notin D => task'[<<v, g>>] = task[<<v, g>>]
    /\ \A c \in CacheName : c \notin D \cup T => cacheOf'[c] = cacheOf[c]

(* The types, one by one. *)
LEMMA ShellTypes ==
    ASSUME ShellTypeOK
    PROVE  /\ \A v \in Worker : BuildOf(v) \in ShellBuild
           /\ \A v \in Worker, g \in Handler : /\ task[<<v, g>>] \in ShellTask
                                               /\ task[<<v, g>>].kind \in CacheKind
                                               /\ task[<<v, g>>].names \in SUBSET CacheName
           /\ \A k \in CacheKind, b \in ShellBuild : <<k, b>> \in CacheName
           /\ \A c \in CacheName : cacheOf[c] \in Contents /\ c[1] \in CacheKind /\ c[2] \in ShellBuild
                                   /\ c = <<c[1], c[2]>>
           /\ \A v \in Worker, k \in CacheKind : Named(v, k) \in OwnCaches(v) /\ Named(v, k) \in CacheName
           /\ \A v \in Worker : /\ OwnCaches(v) \subseteq CacheName
                                /\ \A c \in OwnCaches(v) : c[2] = BuildOf(v)
<1>1. \A v \in Worker : BuildOf(v) \in ShellBuild
  BY DEF ShellTypeOK, BuildOf
<1>2. \A v \in Worker, g \in Handler : task[<<v, g>>] \in ShellTask
  BY DEF ShellTypeOK
<1>3. \A t \in ShellTask : t.kind \in CacheKind /\ t.names \in SUBSET CacheName
  BY DEF ShellTask
<1>4. \A k \in CacheKind, b \in ShellBuild : <<k, b>> \in CacheName
  BY DEF CacheName
<1>5. \A c \in CacheName : cacheOf[c] \in Contents
  BY DEF ShellTypeOK
<1>6. \A c \in CacheName : c[1] \in CacheKind /\ c[2] \in ShellBuild /\ c = <<c[1], c[2]>>
  BY DEF CacheName
<1>7. \A v \in Worker, k \in CacheKind : Named(v, k) \in OwnCaches(v) /\ Named(v, k) \in CacheName
  BY <1>1, <1>4 DEF Named, OwnCaches
<1>8. \A v \in Worker : OwnCaches(v) \subseteq CacheName /\ \A c \in OwnCaches(v) : c[2] = BuildOf(v)
  BY <1>1, <1>4 DEF Named, OwnCaches
<1> QED
  BY <1>1, <1>2, <1>3, <1>4, <1>5, <1>6, <1>7, <1>8

(* A handler under way in the next state. *)
LEMMA TaskValues ==
    /\ NoTask \in ShellTask /\ NoTask.step = "idle" /\ ~NoTask.find /\ NoTask.kind = "shell"
    /\ NoTask.names = {}
    /\ \A t \in ShellTask, s \in {"idle", "names", "open", "check", "document", "rest", "verify", "recheck",
                                  "sweep", "match", "runtime", "opened", "fetch", "stored"} :
         /\ [t EXCEPT !.step = s] \in ShellTask
         /\ [t EXCEPT !.step = s].step = s /\ [t EXCEPT !.step = s].find = t.find
         /\ [t EXCEPT !.step = s].kind = t.kind /\ [t EXCEPT !.step = s].handle = t.handle
         /\ [t EXCEPT !.step = s].names = t.names
    /\ \A t \in ShellTask, x \in {"attached"} \cup Contents :
         /\ [t EXCEPT !.handle = x] \in ShellTask
         /\ [t EXCEPT !.handle = x].step = t.step /\ [t EXCEPT !.handle = x].find = t.find
         /\ [t EXCEPT !.handle = x].kind = t.kind /\ [t EXCEPT !.handle = x].handle = x
         /\ [t EXCEPT !.handle = x].names = t.names
BY DEF NoTask, ShellTask, CacheKind, Contents

LEMMA GoingMoves ==
    ASSUME ShellTypeOK, NEW u \in Worker, NEW h \in Handler, NEW r \in ShellTask, Going(u, h, r)
    PROVE  Moves(u, h, {}, {}) /\ task'[<<u, h>>] = r /\ cacheOf' = cacheOf
<1>1. task \in [Worker \X Handler -> ShellTask] /\ cacheOf \in [CacheName -> Contents]
  BY DEF ShellTypeOK
<1>2. task' = [task EXCEPT ![<<u, h>>] = r] /\ cacheOf' = cacheOf
  BY DEF Going
<1>3. /\ task' \in [Worker \X Handler -> ShellTask] /\ task'[<<u, h>>] = r
      /\ \A v \in Worker, g \in Handler : v # u \/ g # h => task'[<<v, g>>] = task[<<v, g>>]
  BY <1>1, <1>2
<1> QED
  BY <1>1, <1>2, <1>3 DEF Moves

LEMMA OpeningMoves ==
    ASSUME ShellTypeOK, NEW u \in Worker, NEW h \in Handler, NEW r \in ShellTask, Opening(u, h, r)
    PROVE  /\ Moves(u, h, {}, {Named(u, r.kind)})
           /\ task'[<<u, h>>] = [r EXCEPT !.handle = "attached"] /\ task'[<<u, h>>] \in ShellTask
           /\ \A c \in CacheName : cacheOf'[c] = cacheOf[c]
                \/ (c = Named(u, r.kind) /\ cacheOf[c] = "absent" /\ cacheOf'[c] = "partial")
<1>1. task \in [Worker \X Handler -> ShellTask] /\ cacheOf \in [CacheName -> Contents]
  BY DEF ShellTypeOK
<1> DEFINE a == [r EXCEPT !.handle = "attached"]
<1>2. a \in ShellTask
  BY TaskValues
<1>3. task' = [task EXCEPT ![<<u, h>>] = a]
  BY DEF Opening
<1> HIDE DEF a
<1>4. /\ task' \in [Worker \X Handler -> ShellTask] /\ task'[<<u, h>>] = a
      /\ \A v \in Worker, g \in Handler : v # u \/ g # h => task'[<<v, g>>] = task[<<v, g>>]
  BY <1>1, <1>2, <1>3
<1>5. /\ cacheOf' \in [CacheName -> Contents]
      /\ \A c \in CacheName : cacheOf'[c] = cacheOf[c]
           \/ (c = Named(u, r.kind) /\ cacheOf[c] = "absent" /\ cacheOf'[c] = "partial")
  BY <1>1 DEF Opening, Contents
<1> QED
  BY <1>2, <1>4, <1>5 DEF Moves, a

LEMMA PuttingMoves ==
    ASSUME ShellTypeOK, NEW u \in Worker, NEW h \in Handler, NEW r \in ShellTask,
           NEW content \in Contents, Putting(u, h, r, content)
    PROVE  /\ Moves(u, h, {}, {Named(u, r.kind)})
           /\ task'[<<u, h>>].step = r.step /\ task'[<<u, h>>].find = r.find /\ task'[<<u, h>>].kind = r.kind
           /\ r.handle = "attached" => task'[<<u, h>>].handle = "attached"
           /\ \A c \in CacheName : cacheOf'[c] = cacheOf[c] \/ c = Named(u, r.kind)
<1>1. task \in [Worker \X Handler -> ShellTask] /\ cacheOf \in [CacheName -> Contents]
  BY DEF ShellTypeOK
<1>2. CASE r.handle = "attached"
  <2>1. task' = [task EXCEPT ![<<u, h>>] = r]
        /\ cacheOf' = [cacheOf EXCEPT ![Named(u, r.kind)] = content]
    BY <1>2 DEF Putting
  <2>2. /\ task' \in [Worker \X Handler -> ShellTask] /\ task'[<<u, h>>] = r
        /\ \A v \in Worker, g \in Handler : v # u \/ g # h => task'[<<v, g>>] = task[<<v, g>>]
    BY <1>1, <2>1
  <2>3. /\ cacheOf' \in [CacheName -> Contents]
        /\ \A c \in CacheName : cacheOf'[c] = cacheOf[c] \/ c = Named(u, r.kind)
    BY <1>1, <2>1
  <2> QED
    BY <1>2, <2>2, <2>3 DEF Moves
<1>3. CASE r.handle # "attached"
  <2> DEFINE a == [r EXCEPT !.handle = content]
  <2>1. a \in ShellTask /\ a.step = r.step /\ a.find = r.find /\ a.kind = r.kind
    BY TaskValues
  <2>2. Going(u, h, a)
    BY <1>3 DEF Putting
  <2> HIDE DEF a
  <2>3. Moves(u, h, {}, {}) /\ task'[<<u, h>>] = a /\ cacheOf' = cacheOf
    BY <2>1, <2>2, GoingMoves
  <2> QED
    BY <1>3, <2>1, <2>3 DEF Moves
<1> QED
  BY <1>2, <1>3

(* What is open under a name that is deleted. *)
LEMMA DetachedKeeps ==
    ASSUME ShellTypeOK, NEW S \in SUBSET CacheName, NEW v \in Worker, NEW g \in Handler
    PROVE  LET t == task[<<v, g>>]
               d == Detached(<<v, g>>, S) IN
           /\ d \in ShellTask /\ d.step = t.step /\ d.find = t.find /\ d.kind = t.kind /\ d.names = t.names
           /\ <<t.kind, BuildOf(v)>> \notin S => d = t
<1>1. task[<<v, g>>] \in ShellTask /\ \A c \in CacheName : cacheOf[c] \in Contents
  BY ShellTypes
<1> DEFINE t == task[<<v, g>>]
           a(c) == [t EXCEPT !.handle = cacheOf[c]]
<1>2. \A c \in CacheName : /\ a(c) \in ShellTask /\ a(c).step = t.step /\ a(c).find = t.find
                           /\ a(c).kind = t.kind /\ a(c).names = t.names
  <2>1. t \in ShellTask /\ \A c \in CacheName : cacheOf[c] \in {"attached"} \cup Contents
    BY <1>1
  <2> HIDE DEF t
  <2>2. \A x \in {"attached"} \cup Contents :
          /\ [t EXCEPT !.handle = x] \in ShellTask
          /\ [t EXCEPT !.handle = x].step = t.step /\ [t EXCEPT !.handle = x].find = t.find
          /\ [t EXCEPT !.handle = x].kind = t.kind /\ [t EXCEPT !.handle = x].names = t.names
    BY <2>1 DEF ShellTask, Contents
  <2> QED
    BY <2>1, <2>2
<1>3. CASE task[<<v, g>>].handle = "attached" /\ Named(v, task[<<v, g>>].kind) \in S
  <2>1. Detached(<<v, g>>, S) = [task[<<v, g>>] EXCEPT !.handle = cacheOf[Named(v, task[<<v, g>>].kind)]]
    BY <1>3 DEF Detached
  <2> QED
    BY <1>2, <1>3, <2>1 DEF Named
<1>4. CASE ~(task[<<v, g>>].handle = "attached" /\ Named(v, task[<<v, g>>].kind) \in S)
  <2>1. Detached(<<v, g>>, S) = task[<<v, g>>]
    BY <1>4 DEF Detached
  <2> QED
    BY <1>1, <2>1
<1> QED
  BY <1>3, <1>4

LEMMA DeletingMoves ==
    ASSUME ShellTypeOK, NEW u \in Worker, NEW h \in Handler, NEW r \in ShellTask,
           NEW S \in SUBSET CacheName, Deleting(u, h, r, S)
    PROVE  /\ Moves(u, h, S, {}) /\ task'[<<u, h>>] = r
           /\ \A c \in S : cacheOf'[c] = "absent"
<1>1. task \in [Worker \X Handler -> ShellTask] /\ cacheOf \in [CacheName -> Contents]
  BY DEF ShellTypeOK
<1>2. /\ task' = [x \in Worker \X Handler |-> IF x = <<u, h>> THEN r ELSE Detached(x, S)]
      /\ cacheOf' = [c \in CacheName |-> IF c \in S THEN "absent" ELSE cacheOf[c]]
  BY DEF Deleting
<1>3. \A v \in Worker, g \in Handler :
        /\ Detached(<<v, g>>, S) \in ShellTask
        /\ task'[<<v, g>>] = IF v = u /\ g = h THEN r ELSE Detached(<<v, g>>, S)
  BY <1>2, DetachedKeeps
<1>4. task' \in [Worker \X Handler -> ShellTask]
  <2>1. \A x \in Worker \X Handler : x = <<x[1], x[2]>> /\ x[1] \in Worker /\ x[2] \in Handler
    OBVIOUS
  <2>2. \A x \in Worker \X Handler : Detached(x, S) \in ShellTask
    BY <1>3, <2>1
  <2> QED
    BY <1>2, <2>2
<1>5. /\ cacheOf' \in [CacheName -> Contents]
      /\ \A c \in S : cacheOf'[c] = "absent"
      /\ \A c \in CacheName : c \notin S => cacheOf'[c] = cacheOf[c]
  BY <1>1, <1>2 DEF Contents
<1>6. \A v \in Worker, g \in Handler : v # u \/ g # h =>
         /\ task'[<<v, g>>].step = task[<<v, g>>].step /\ task'[<<v, g>>].find = task[<<v, g>>].find
         /\ task'[<<v, g>>].kind = task[<<v, g>>].kind /\ task'[<<v, g>>].names = task[<<v, g>>].names
         /\ <<task[<<v, g>>].kind, BuildOf(v)>> \notin S => task'[<<v, g>>] = task[<<v, g>>]
  BY <1>3, DetachedKeeps
<1> QED
  BY <1>3, <1>4, <1>5, <1>6 DEF Moves

(* Whoever acts for the build in charge is in charge. *)
LEMMA ActsInCharge ==
    ASSUME ShellInv, NEW u \in Worker, NEW w \in InCharge, Busy(u) \/ worker[u].state = "active",
           BuildOf(u) = BuildOf(w)
    PROVE  u = w
BY DEF ShellInv, WorkersInv, OthersIdle, InCharge

(* A handler that moves leaves the handlers and the caches of other builds alone. *)
LEMMA AwayStays ==
    ASSUME ShellTypeOK, NEW u \in Worker, NEW h \in Handler,
           NEW D \in SUBSET OwnCaches(u), NEW T \in SUBSET OwnCaches(u), Moves(u, h, D, T)
    PROVE  /\ \A v \in Worker, g \in Handler : BuildOf(v) # BuildOf(u) => task'[<<v, g>>] = task[<<v, g>>]
           /\ \A c \in CacheName : c[2] # BuildOf(u) => cacheOf'[c] = cacheOf[c]
<1>1. \A c \in D \cup T : c[2] = BuildOf(u)
  BY ShellTypes
<1>2. ASSUME NEW v \in Worker, NEW g \in Handler, BuildOf(v) # BuildOf(u)
      PROVE  task'[<<v, g>>] = task[<<v, g>>]
  <2>1. v # u
    BY <1>2
  <2>2. <<task[<<v, g>>].kind, BuildOf(v)>> \notin D
    BY <1>1, <1>2
  <2> QED
    BY <2>1, <2>2 DEF Moves
<1> QED
  BY <1>1, <1>2 DEF Moves

LEMMA ShapesMove ==
    ASSUME HandlersInv, NEW u \in Worker, NEW h \in Handler, NEW D, NEW T,
           Moves(u, h, D, T), UNCHANGED worker,
           h = "life" => LifeShape(u)', h # "life" => FetchShape(u)'
    PROVE  HandlersInv'
<1> SUFFICES ASSUME NEW v \in Worker PROVE LifeShape(v)' /\ FetchShape(v)'
  BY DEF HandlersInv
<1>0. LifeShape(v) /\ FetchShape(v)
  BY DEF HandlersInv
<1>1. CASE v = u /\ h = "life"
  <2>1. \A g \in {"ensure", "again", "asset"} :
          /\ task'[<<v, g>>].step = task[<<v, g>>].step /\ task'[<<v, g>>].find = task[<<v, g>>].find
          /\ task'[<<v, g>>].kind = task[<<v, g>>].kind
    <3>1. \A g \in {"ensure", "again", "asset"} : g \in Handler /\ g # h
      BY <1>1 DEF Handler
    <3> QED
      BY <1>1, <3>1 DEF Moves
  <2>2. FetchShape(v)'
    BY <1>0, <2>1 DEF FetchShape, Finding, Repairing, Fetching
  <2> QED
    BY <1>1, <2>2
<1>2. CASE v = u /\ h # "life"
  <2>1. /\ task'[<<v, "life">>].step = task[<<v, "life">>].step
        /\ task'[<<v, "life">>].find = task[<<v, "life">>].find
        /\ task'[<<v, "life">>].kind = task[<<v, "life">>].kind
    BY <1>2 DEF Moves, Handler
  <2>2. LifeShape(v)'
    BY <1>0, <2>1 DEF LifeShape
  <2> QED
    BY <1>2, <2>2
<1>3. CASE v # u
  <2>1. \A g \in Handler :
          /\ task'[<<v, g>>].step = task[<<v, g>>].step /\ task'[<<v, g>>].find = task[<<v, g>>].find
          /\ task'[<<v, g>>].kind = task[<<v, g>>].kind
    BY <1>3 DEF Moves
  <2>2. LifeShape(v)'
    BY <1>0, <2>1 DEF LifeShape, Handler
  <2>3. FetchShape(v)'
    BY <1>0, <2>1 DEF FetchShape, Finding, Repairing, Fetching, Handler
  <2> QED
    BY <2>2, <2>3
<1> QED
  BY <1>1, <1>2, <1>3

LEMMA IdleMove ==
    ASSUME ShellInv, NEW u \in Worker, NEW h \in Handler, NEW D, NEW T,
           Moves(u, h, D, T), UNCHANGED worker, Busy(u) \/ worker[u].state = "active"
    PROVE  OthersIdle'
<1> SUFFICES ASSUME NEW w \in InCharge', NEW v \in Worker, v # w, BuildOf(v)' = BuildOf(w)'
             PROVE  ~Busy(v)'
  BY DEF OthersIdle
<1>1. w \in InCharge /\ BuildOf(v) = BuildOf(w)
  BY DEF InCharge, BuildOf
<1>2. v # u
  BY <1>1, ActsInCharge
<1>3. ~Busy(v)
  BY <1>1 DEF ShellInv, OthersIdle
<1> QED
  BY <1>2, <1>3 DEF Busy, Moves

LEMMA AttachedMove ==
    ASSUME ShellInv, NEW u \in Worker, NEW h \in Handler,
           NEW D \in SUBSET OwnCaches(u), NEW T \in SUBSET OwnCaches(u), Moves(u, h, D, T),
           UNCHANGED worker, Busy(u) \/ worker[u].state = "active",
           worker[u].state = "active" => AttachedOf(u)'
    PROVE  AttachedInv'
<1> SUFFICES ASSUME NEW w \in Worker, worker[w].state = "active", w # u
             PROVE  AttachedOf(w)'
  BY DEF AttachedInv
<1>0. ShellTypeOK
  BY DEF ShellInv
<1>1. BuildOf(w) # BuildOf(u)
  BY ActsInCharge DEF InCharge
<1>2. AttachedOf(w)
  BY DEF ShellInv, AttachedInv
<1>3. task'[<<w, "ensure">>] = task[<<w, "ensure">>]
  BY <1>0, <1>1, AwayStays DEF Handler
<1>4. cacheOf'[Named(w, "repair")] = cacheOf[Named(w, "repair")] /\ Named(w, "repair")' = Named(w, "repair")
  <2>1. Named(w, "repair") \in CacheName /\ Named(w, "repair")[2] = BuildOf(w)
    BY <1>0, ShellTypes DEF Named, CacheKind
  <2> QED
    BY <1>0, <1>1, <2>1, AwayStays DEF Named, BuildOf
<1> QED
  BY <1>2, <1>3, <1>4 DEF AttachedOf

LEMMA ProofMove ==
    ASSUME ShellInv, NEW u \in Worker, NEW h \in Handler,
           NEW D \in SUBSET OwnCaches(u), NEW T \in SUBSET OwnCaches(u), Moves(u, h, D, T),
           UNCHANGED worker, Busy(u) \/ worker[u].state = "active",
           page'.build = page.build,
           page' = page \/ (worker[u].state = "active" /\ BuildOf(u) = page.build),
           page'.proof = "ready" /\ worker[u].state = "active" /\ BuildOf(u) = page.build => ProofOf(u)'
    PROVE  ProofInv'
<1>0. ShellTypeOK
  BY DEF ShellInv
<1>1. page'.proof # "none" =>
        \E w \in Worker : (worker[w].state = "active" /\ BuildOf(w) = page.build)'
  BY DEF ShellInv, ProofInv, BuildOf
<1>2. ASSUME NEW w \in Worker, page'.proof = "ready", worker[w].state = "active", BuildOf(w) = page.build,
             w # u
      PROVE  ProofOf(w)'
  <2>1. BuildOf(w) # BuildOf(u)
    BY <1>2, ActsInCharge DEF InCharge
  <2>2. page' = page
    BY <1>2, <2>1
  <2>3. ProofOf(w)
    BY <1>2, <2>2 DEF ShellInv, ProofInv
  <2>4. task'[<<w, "ensure">>] = task[<<w, "ensure">>]
    BY <1>0, <2>1, AwayStays DEF Handler
  <2>5. \A k \in CacheKind : /\ <<k, BuildOf(w)>> \in CacheName
                             /\ cacheOf'[<<k, BuildOf(w)>>] = cacheOf[<<k, BuildOf(w)>>]
    <3>1. \A k \in CacheKind : <<k, BuildOf(w)>> \in CacheName /\ <<k, BuildOf(w)>>[2] = BuildOf(w)
      BY <1>0, ShellTypes
    <3> QED
      BY <1>0, <2>1, <3>1, AwayStays
  <2>6. Ready(page.build)'
    BY <1>2, <2>2, <2>3, <2>5 DEF ProofOf, Ready, CacheKind
  <2>7. ASSUME FindsReady(w) PROVE FindsReady(w)'
    <3>1. task[<<w, "ensure">>].kind \in CacheKind /\ BuildOf(w)' = BuildOf(w)
      BY <1>0, ShellTypes DEF Handler, BuildOf
    <3> QED
      BY <2>4, <2>5, <2>7, <3>1 DEF FindsReady, Named, CacheKind
  <2> QED
    BY <2>3, <2>4, <2>6, <2>7 DEF ProofOf
<1> QED
  BY <1>1, <1>2 DEF ProofInv, BuildOf

(* What becomes of a cache when handler h of worker u moves: it goes, or somebody *)
(* owes it now, or it stays and the handler was not the one that owed it.         *)
Settled(u, h, D, c) ==
    \/ cacheOf'[c] = "absent"
    \/ Owed(c)'
    \/ c \notin D /\ cacheOf'[c] = cacheOf[c] /\ ~Owes(u, h, c)

LEMMA OwedStays ==
    ASSUME ShellTypeOK, NEW u \in Worker, NEW h \in Handler, NEW D, NEW T, Moves(u, h, D, T),
           NEW c \in CacheName, c \notin D, cacheOf'[c] = cacheOf[c],
           NEW v \in Worker, NEW g \in Handler, v # u \/ g # h, Owes(v, g, c), worker'[v] = worker[v]
    PROVE  Owed(c)'
<1>1. /\ task'[<<v, g>>].step = task[<<v, g>>].step /\ task'[<<v, g>>].find = task[<<v, g>>].find
      /\ task'[<<v, g>>].kind = task[<<v, g>>].kind
      /\ <<task[<<v, g>>].kind, BuildOf(v)>> \notin D => task'[<<v, g>>] = task[<<v, g>>]
  BY DEF Moves
<1>2. c = <<c[1], c[2]>>
  BY ShellTypes
<1>3. CASE Makes(v, g, c)
  BY <1>1, <1>3 DEF Makes, Owes, Owed, BuildOf
<1>4. CASE cacheOf[c] # "ready" /\ Keeps(v, g, c)
  <2>1. <<task[<<v, g>>].kind, BuildOf(v)>> = c
    BY <1>2, <1>4 DEF Keeps
  <2> QED
    BY <1>1, <1>4, <2>1 DEF Keeps, Owes, Owed, BuildOf
<1> QED
  BY <1>3, <1>4 DEF Owes

LEMMA RetireMove ==
    ASSUME ShellInv, NEW u \in Worker, NEW h \in Handler,
           NEW D \in SUBSET OwnCaches(u), NEW T \in SUBSET OwnCaches(u), Moves(u, h, D, T),
           UNCHANGED <<worker, killed>>, Busy(u) \/ worker[u].state = "active",
           h = "life" => worker[u].state = "installing",
           ~IsCurrent(u) => \A c \in CacheName : c[2] = BuildOf(u) => Settled(u, h, D, c)
    PROVE  RetireInv'
<1>0. ShellTypeOK
  BY DEF ShellInv
<1> SUFFICES ASSUME ~killed, NEW w \in Worker, Swept(w)', \A v \in Worker : worker[v].state # "installed",
                    NEW c \in Visible', c[2] # BuildOf(w)'
             PROVE  (c \in Listed(w) \/ Owed(c))'
  BY DEF RetireInv
<1>1. w \in InCharge /\ BuildOf(w)' = BuildOf(w)
  BY DEF Swept, InCharge, BuildOf
<1>2. Swept(w) /\ Listed(w)' = Listed(w)
  <2>1. worker[w].state = "activating" => w # u \/ "life" # h
    BY DEF Swept
  <2>2. worker[w].state = "activating" => /\ task'[<<w, "life">>].step = task[<<w, "life">>].step
                                          /\ task'[<<w, "life">>].names = task[<<w, "life">>].names
    BY <2>1 DEF Moves, Handler
  <2> QED
    BY <2>2 DEF Swept, Listed
<1>3. c \in CacheName /\ cacheOf'[c] # "absent"
  BY DEF Visible
<1>4. ASSUME cacheOf[c] # "absent" PROVE c \in Listed(w) \/ Owed(c)
  BY <1>1, <1>2, <1>3, <1>4 DEF ShellInv, RetireInv, Visible
<1>5. CASE c[2] # BuildOf(u)
  <2>1. cacheOf'[c] = cacheOf[c]
    BY <1>0, <1>3, <1>5, AwayStays
  <2>2. c \in Listed(w) \/ Owed(c)
    BY <1>3, <1>4, <2>1
  <2>3. c \notin D
    BY <1>0, <1>5, ShellTypes
  <2>4. ASSUME NEW v \in Worker, NEW g \in Handler, Owes(v, g, c) PROVE Owed(c)'
    <3>1. v # u
      BY <1>5, <2>4 DEF Owes, Makes, Keeps
    <3> QED
      BY <1>0, <1>3, <2>1, <2>3, <2>4, <3>1, OwedStays
  <2> QED
    BY <1>2, <2>2, <2>4 DEF Owed
<1>6. CASE c[2] = BuildOf(u)
  <2>1. ~IsCurrent(u)
    <3>1. ASSUME NEW v \in InCharge, BuildOf(v) = BuildOf(u) PROVE FALSE
      <4>1. v = w
        BY <1>1 DEF ShellInv, WorkersInv
      <4> QED
        BY <1>1, <1>6, <3>1, <4>1
    <3> QED
      BY <3>1 DEF IsCurrent
  <2>2. Settled(u, h, D, c)
    BY <1>3, <1>6, <2>1
  <2>3. CASE Owed(c)'
    BY <2>3
  <2>4. CASE c \notin D /\ cacheOf'[c] = cacheOf[c] /\ ~Owes(u, h, c)
    <3>1. c \in Listed(w) \/ Owed(c)
      BY <1>3, <1>4, <2>4
    <3>2. ASSUME NEW v \in Worker, NEW g \in Handler, Owes(v, g, c) PROVE Owed(c)'
      <4>1. v # u \/ g # h
        BY <2>4, <3>2
      <4> QED
        BY <1>0, <1>3, <2>4, <3>2, <4>1, OwedStays
    <3> QED
      BY <1>2, <3>1, <3>2 DEF Owed
  <2> QED
    BY <1>3, <2>2, <2>3, <2>4 DEF Settled
<1> QED
  BY <1>5, <1>6

(* The step of a handler, of which only its own part is left to show. *)
LEMMA HandlerStep ==
    ASSUME ShellInv, NEW u \in Worker, NEW h \in Handler,
           NEW D \in SUBSET OwnCaches(u), NEW T \in SUBSET OwnCaches(u), Moves(u, h, D, T),
           UNCHANGED <<worker, served, deploys, shellFaults, killed>>,
           Busy(u) \/ worker[u].state = "active",
           h = "life" => worker[u].state = "installing" /\ LifeShape(u)',
           h # "life" => FetchShape(u)',
           worker[u].state = "active" => AttachedOf(u)',
           page'.build = page.build /\ page' \in [build : ShellBuild, proof : {"none", "asking", "ready"}],
           page' = page \/ (worker[u].state = "active" /\ BuildOf(u) = page.build),
           page'.proof = "ready" /\ worker[u].state = "active" /\ BuildOf(u) = page.build => ProofOf(u)',
           ~IsCurrent(u) => \A c \in CacheName : c[2] = BuildOf(u) => Settled(u, h, D, c)
    PROVE  ShellInv'
<1>1. ShellTypeOK'
  BY DEF ShellInv, ShellTypeOK, Moves
<1>2. WorkersInv'
  BY DEF ShellInv, WorkersInv, Live, InCharge, BuildOf
<1>3. HandlersInv'
  BY ShapesMove DEF ShellInv
<1>4. OthersIdle'
  BY IdleMove
<1>5. AttachedInv'
  BY AttachedMove
<1>6. ProofInv'
  BY ProofMove
<1>7. RetireInv'
  BY RetireMove
<1> QED
  BY <1>1, <1>2, <1>3, <1>4, <1>5, <1>6, <1>7 DEF ShellInv

(* What a handler is in the middle of, by the step it is at. *)
LEMMA HandlerFacts ==
    ASSUME ShellInv, NEW u \in Worker, NEW h \in Handler
    PROVE  LET t == task[<<u, h>>] IN
           /\ t \in ShellTask
           /\ t.step # "idle" => Busy(u)
           /\ t.find /\ t.step # "idle" => h \in {"ensure", "asset"} /\ Finding(t)
           /\ t.step = "check" => h \in {"ensure", "asset"} /\ t.find /\ t.kind \in {"shell", "repair"}
           /\ t.step \in {"open", "document", "rest", "verify"} /\ ~t.find =>
                \/ h = "life" /\ worker[u].state = "installing" /\ t.kind = "shell"
                \/ h = "ensure" /\ t.kind = "repair"
           /\ t.step \in {"document", "rest", "verify", "recheck"} => ~t.find
           /\ h \in Ensures /\ t.step \in {"document", "rest", "verify", "recheck"} =>
                h = "ensure" /\ t.kind = "repair"
           /\ t.step \in {"runtime", "opened", "fetch", "stored"} => h = "asset" /\ ~t.find /\ t.kind = "runtime"
           /\ h # "life" /\ t.step # "idle" =>
                worker[u].state \notin {"none", "installing", "installed", "activating"}
           /\ h = "life" => ~t.find /\ (t.step # "idle" => worker[u].state \in {"installing", "activating"})
<1> DEFINE t == task[<<u, h>>]
<1>1. ShellTypeOK /\ LifeShape(u) /\ FetchShape(u)
  BY DEF ShellInv, HandlersInv
<1>2. t \in ShellTask
  BY <1>1, ShellTypes
<1>3. t.step # "idle" => Busy(u)
  BY DEF Busy
<1>4. CASE h = "life"
  <2>1. /\ ~t.find /\ t.kind = "shell"
        /\ worker[u].state = "installing" => t.step \in {"open", "document", "rest", "verify"}
        /\ worker[u].state = "activating" => t.step \in {"names", "sweep"}
        /\ worker[u].state \notin {"installing", "activating"} => t.step = "idle"
    BY <1>1, <1>4 DEF LifeShape
  <2> HIDE DEF t
  <2> QED
    BY <1>2, <1>3, <1>4, <2>1 DEF Ensures, t
<1>5. CASE h = "ensure"
  <2>1. /\ t.step # "idle" => Finding(t) \/ Repairing(t)
        /\ worker[u].state \in {"none", "installing", "installed", "activating"} => t.step = "idle"
    BY <1>1, <1>5 DEF FetchShape
  <2> HIDE DEF t
  <2> QED
    BY <1>2, <1>3, <1>5, <2>1 DEF Finding, Repairing, t
<1>6. CASE h = "asset"
  <2>1. /\ t.step # "idle" => Finding(t) \/ Fetching(t)
        /\ worker[u].state \in {"none", "installing", "installed", "activating"} => t.step = "idle"
    BY <1>1, <1>6 DEF FetchShape
  <2> HIDE DEF t
  <2> QED
    BY <1>2, <1>3, <1>6, <2>1 DEF Finding, Fetching, Ensures, t
<1>7. CASE h = "again"
  <2>1. t.step = "idle"
    BY <1>1, <1>7 DEF FetchShape
  <2> HIDE DEF t
  <2> QED
    BY <1>2, <1>3, <1>7, <2>1 DEF t
<1> QED
  BY <1>4, <1>5, <1>6, <1>7 DEF Handler

(* The caches of a worker's build are told apart by their kind. *)
LEMMA OwnNames ==
    ASSUME ShellInv, NEW u \in Worker
    PROVE  /\ \A k \in CacheKind : /\ Named(u, k) \in CacheName /\ Named(u, k) \in OwnCaches(u)
                                   /\ Named(u, k)[1] = k /\ Named(u, k)[2] = BuildOf(u)
           /\ \A c \in CacheName : c[2] = BuildOf(u) => c = Named(u, c[1]) /\ c[1] \in CacheKind
           /\ {} \in SUBSET OwnCaches(u)
           /\ \A k \in CacheKind : {Named(u, k)} \in SUBSET OwnCaches(u)
<1>1. ShellTypeOK
  BY DEF ShellInv
<1> QED
  BY <1>1, ShellTypes DEF Named

(* An active worker is current. *)
LEMMA ActiveIsCurrent ==
    ASSUME NEW u \in Worker, worker[u].state = "active"
    PROVE  IsCurrent(u)
BY DEF IsCurrent, InCharge

(* The other handlers of an active worker do not disturb the search for a ready cache. *)
LEMMA EnsureStays ==
    ASSUME ShellInv, NEW u \in Worker, NEW h \in Handler, h # "ensure", NEW T, Moves(u, h, {}, T),
           UNCHANGED worker, worker[u].state = "active",
           \A c \in CacheName : cacheOf[c] = "ready" /\ c[1] # "runtime" => cacheOf'[c] = "ready"
    PROVE  /\ AttachedOf(u)'
           /\ page' = page /\ page.proof = "ready" /\ BuildOf(u) = page.build => ProofOf(u)'
<1>1. task'[<<u, "ensure">>] = task[<<u, "ensure">>]
  BY DEF Moves, Handler
<1>2. \A k \in {"shell", "repair"} :
        /\ Named(u, k)' = Named(u, k) /\ Named(u, k) = <<k, BuildOf(u)>>
        /\ cacheOf[<<k, BuildOf(u)>>] = "ready" => cacheOf'[<<k, BuildOf(u)>>] = "ready"
  BY OwnNames DEF CacheKind, Named, BuildOf
<1>3. AttachedOf(u)'
  BY <1>1, <1>2 DEF ShellInv, AttachedInv, AttachedOf
<1>4. ASSUME page' = page, page.proof = "ready", BuildOf(u) = page.build PROVE ProofOf(u)'
  <2>1. ProofOf(u)
    BY <1>4 DEF ShellInv, ProofInv
  <2>2. Ready(page.build)'
    BY <1>2, <1>4, <2>1 DEF ProofOf, Ready
  <2>3. ASSUME task[<<u, "ensure">>].step # "idle" PROVE FindsReady(u)'
    <3>1. FindsReady(u)
      BY <2>1, <2>3 DEF ProofOf
    <3>2. task[<<u, "ensure">>].step # "names" => task[<<u, "ensure">>].kind \in {"shell", "repair"}
      BY <2>3, <3>1, HandlerFacts DEF FindsReady, Finding, Handler
    <3> QED
      BY <1>1, <1>2, <3>1, <3>2 DEF FindsReady
  <2> QED
    BY <1>1, <2>2, <2>3 DEF ProofOf
<1> QED
  BY <1>3, <1>4

(* A page that knows that it works offline asks for nothing that is not there. *)
LEMMA ProvenFinds ==
    ASSUME ShellInv, NEW u \in Worker, worker[u].state = "active", BuildOf(u) = page.build,
           page.proof = "ready"
    PROVE  /\ \E k \in {"shell", "repair"} : cacheOf[Named(u, k)] = "ready"
           /\ task[<<u, "ensure">>].step # "idle" => FindsReady(u)
BY DEF ShellInv, ProofInv, ProofOf, Ready, Named

-----------------------------------------------------------------------------
(* Each handler keeps the invariant: installing, repairing, finding, assets. *)

(* The shape of a worker's handlers after one of them has moved. *)
LEMMA FetchShapeKept ==
    ASSUME ShellInv, NEW u \in Worker, NEW h \in {"ensure", "asset"}, NEW D, NEW T, Moves(u, h, D, T),
           worker' = worker, task[<<u, h>>].step # "idle" \/ worker[u].state = "active",
           \/ task'[<<u, h>>].step = "idle"
           \/ Finding(task'[<<u, h>>])
           \/ h = "ensure" /\ Repairing(task'[<<u, h>>])
           \/ h = "asset" /\ Fetching(task'[<<u, h>>])
    PROVE  FetchShape(u)'
<1>1. worker[u].state \notin {"none", "installing", "installed", "activating"}
  BY HandlerFacts DEF Handler
<1>2. FetchShape(u)
  BY DEF ShellInv, HandlersInv
<1>3. \A g \in {"ensure", "again", "asset"} : g # h =>
        /\ task'[<<u, g>>].step = task[<<u, g>>].step /\ task'[<<u, g>>].find = task[<<u, g>>].find
        /\ task'[<<u, g>>].kind = task[<<u, g>>].kind
  BY DEF Moves, Handler
<1>4. task'[<<u, "again">>].step = "idle"
  BY <1>2, <1>3 DEF FetchShape
<1>5. task'[<<u, "ensure">>].step # "idle" =>
        Finding(task'[<<u, "ensure">>]) \/ Repairing(task'[<<u, "ensure">>])
  BY <1>2, <1>3 DEF FetchShape, Finding, Repairing
<1>6. task'[<<u, "asset">>].step # "idle" =>
        Finding(task'[<<u, "asset">>]) \/ Fetching(task'[<<u, "asset">>])
  BY <1>2, <1>3 DEF FetchShape, Finding, Fetching
<1> QED
  BY <1>1, <1>4, <1>5, <1>6 DEF FetchShape

LEMMA PopulateOpensKeeps ==
    ASSUME ShellInv, NEW u \in Worker, NEW h \in Handler, PopulateOpens(u, h)
    PROVE  ShellInv'
<1> DEFINE t == task[<<u, h>>]
           k == t.kind
           S == IF h = "life" THEN OwnCaches(u) ELSE {Named(u, k)}
           a == [t EXCEPT !.step = "document"]
           r == [a EXCEPT !.handle = "attached"]
<1>0. ShellTypeOK
  BY DEF ShellInv
<1>1. /\ t \in ShellTask /\ t.step = "open" /\ ~t.find /\ k \in CacheKind
      /\ \/ h = "life" /\ worker[u].state = "installing" /\ k = "shell"
         \/ h = "ensure" /\ k = "repair"
  BY HandlerFacts DEF PopulateOpens, Populates, CacheKind
<1>2. r \in ShellTask /\ r.step = "document" /\ ~r.find /\ r.kind = k /\ r.handle = "attached"
  <2>1. a \in ShellTask /\ a.kind = k /\ a.step = "document" /\ ~a.find
    BY <1>1, TaskValues
  <2> HIDE DEF a
  <2> QED
    BY <2>1 DEF ShellTask, Contents
<1>3. /\ task' = [x \in Worker \X Handler |-> IF x = <<u, h>> THEN r ELSE Detached(x, S)]
      /\ cacheOf' = [c \in CacheName |-> IF c = Named(u, k) THEN "partial"
                                         ELSE IF h = "life" /\ c \in OwnCaches(u) THEN "absent" ELSE cacheOf[c]]
      /\ UNCHANGED <<worker, served, deploys, shellFaults, killed, page>>
  BY <1>1 DEF PopulateOpens, Rest, Surroundings
<1>4. S \in SUBSET OwnCaches(u) /\ S \in SUBSET CacheName /\ Named(u, k) \in S
  BY <1>0, <1>1, OwnNames, ShellTypes
<1> HIDE DEF S, r, t, k
<1>5. Moves(u, h, S, {}) /\ task'[<<u, h>>] = r
  <2>1. \A v \in Worker, g \in Handler :
          LET d == Detached(<<v, g>>, S) IN
          /\ d \in ShellTask /\ d.step = task[<<v, g>>].step /\ d.find = task[<<v, g>>].find
          /\ d.kind = task[<<v, g>>].kind /\ d.names = task[<<v, g>>].names
          /\ <<task[<<v, g>>].kind, BuildOf(v)>> \notin S => d = task[<<v, g>>]
    BY <1>0, <1>4, DetachedKeeps
  <2>2. \A v \in Worker, g \in Handler :
          task'[<<v, g>>] = IF v = u /\ g = h THEN r ELSE Detached(<<v, g>>, S)
    BY <1>3
  <2>3. task' \in [Worker \X Handler -> ShellTask]
    <3>1. \A x \in Worker \X Handler : x = <<x[1], x[2]>> /\ x[1] \in Worker /\ x[2] \in Handler
      OBVIOUS
    <3>2. \A x \in Worker \X Handler : Detached(x, S) \in ShellTask
      BY <2>1, <3>1
    <3> QED
      BY <1>2, <1>3, <3>2
  <2>4. cacheOf' \in [CacheName -> Contents]
    BY <1>0, <1>3 DEF ShellTypeOK, Contents
  <2>5. \A c \in CacheName : c \notin S => cacheOf'[c] = cacheOf[c]
    BY <1>3, <1>4 DEF S
  <2>6. \A v \in Worker, g \in Handler : v # u \/ g # h =>
          /\ task'[<<v, g>>].step = task[<<v, g>>].step /\ task'[<<v, g>>].find = task[<<v, g>>].find
          /\ task'[<<v, g>>].kind = task[<<v, g>>].kind /\ task'[<<v, g>>].names = task[<<v, g>>].names
          /\ <<task[<<v, g>>].kind, BuildOf(v)>> \notin S => task'[<<v, g>>] = task[<<v, g>>]
    BY <2>1, <2>2
  <2> QED
    BY <2>2, <2>3, <2>4, <2>5, <2>6 DEF Moves
<1>6. h = "life" => worker[u].state = "installing" /\ LifeShape(u)'
  BY <1>1, <1>2, <1>3, <1>5 DEF LifeShape
<1>7. h # "life" => FetchShape(u)'
  BY <1>1, <1>2, <1>3, <1>5, FetchShapeKept DEF Repairing, t
<1>8. worker[u].state = "active" => AttachedOf(u)'
  BY <1>1, <1>2, <1>5 DEF AttachedOf
<1>9. ASSUME page.proof = "ready", worker[u].state = "active", BuildOf(u) = page.build PROVE FALSE
  <2>1. h = "ensure"
    BY <1>1, <1>9
  <2>2. FindsReady(u)
    BY <1>1, <1>9, <2>1, ProvenFinds DEF t
  <2> QED
    BY <1>1, <2>1, <2>2 DEF FindsReady, t
<1>10. ASSUME NEW c \in CacheName, c[2] = BuildOf(u) PROVE Settled(u, h, S, c)
  <2>1. BuildOf(u)' = BuildOf(u) /\ worker'[u] = worker[u]
    BY <1>3 DEF BuildOf
  <2>2. c = Named(u, c[1])
    BY <1>10, OwnNames
  <2>3. CASE h = "life"
    <3>1. Makes(u, h, c)'
      BY <1>1, <1>10, <2>1, <2>3 DEF Makes
    <3> QED
      BY <3>1 DEF Settled, Owed, Owes
  <2>4. CASE h = "ensure" /\ c[1] = "repair"
    <3>1. Makes(u, h, c)'
      BY <1>2, <1>5, <1>10, <2>1, <2>4 DEF Makes
    <3> QED
      BY <3>1 DEF Settled, Owed, Owes
  <2>5. CASE h = "ensure" /\ c[1] # "repair"
    <3>1. c \notin S /\ cacheOf'[c] = cacheOf[c]
      <4>1. c # Named(u, k) /\ k = "repair"
        BY <1>1, <2>5 DEF Named
      <4> QED
        BY <1>3, <2>5, <4>1 DEF S
    <3>2. ~Owes(u, h, c)
      BY <1>1, <2>5 DEF Owes, Makes, Keeps, t
    <3> QED
      BY <3>1, <3>2 DEF Settled
  <2> QED
    BY <1>1, <2>3, <2>4, <2>5
<1>11. Busy(u)
  BY <1>1, HandlerFacts DEF t
<1>12. page' \in [build : ShellBuild, proof : {"none", "asking", "ready"}]
  BY <1>0, <1>3 DEF ShellTypeOK
<1>13. {} \in SUBSET OwnCaches(u)
  OBVIOUS
<1> QED
  BY <1>3, <1>4, <1>5, <1>6, <1>7, <1>8, <1>9, <1>10, <1>11, <1>12, <1>13, HandlerStep

LEMMA FetchDocumentKeeps ==
    ASSUME ShellInv, NEW u \in Worker, NEW h \in Handler,
           FetchDocument(u, h) \/ FetchRest(u, h)
    PROVE  ShellInv'
<1> DEFINE t == task[<<u, h>>]
           k == t.kind
<1>0. ShellTypeOK
  BY DEF ShellInv
<1>1. /\ t \in ShellTask /\ t.step \in {"document", "rest"} /\ ~t.find /\ k \in CacheKind
      /\ \/ h = "life" /\ worker[u].state = "installing" /\ k = "shell"
         \/ h = "ensure" /\ k = "repair"
  BY HandlerFacts DEF FetchDocument, FetchRest, CacheKind
<1>2. PICK s \in {"rest", "verify"}, content \in {"partial", "ready"} :
        Putting(u, h, [t EXCEPT !.step = s], content)
  BY DEF FetchDocument, FetchRest
<1> DEFINE r == [t EXCEPT !.step = s]
<1>3. r \in ShellTask /\ r.step = s /\ ~r.find /\ r.kind = k /\ r.handle = t.handle
  <2> HIDE DEF t
  <2> QED
    BY <1>1 DEF ShellTask
<1>4. Putting(u, h, r, content)
  BY <1>2
<1>5. UNCHANGED <<worker, served, deploys, shellFaults, killed, page>>
  BY DEF FetchDocument, FetchRest, Rest, Surroundings
<1> HIDE DEF r, t, k
<1>6. /\ Moves(u, h, {}, {Named(u, k)})
      /\ task'[<<u, h>>].step = s /\ ~task'[<<u, h>>].find /\ task'[<<u, h>>].kind = k
      /\ t.handle = "attached" => task'[<<u, h>>].handle = "attached"
      /\ \A c \in CacheName : cacheOf'[c] = cacheOf[c] \/ c = Named(u, k)
  <2>1. content \in Contents
    BY DEF Contents
  <2> QED
    BY <1>0, <1>3, <1>4, <2>1, PuttingMoves
<1>7. h = "life" => worker[u].state = "installing" /\ LifeShape(u)'
  BY <1>1, <1>5, <1>6 DEF LifeShape
<1>8. h # "life" => FetchShape(u)'
  BY <1>1, <1>5, <1>6, FetchShapeKept DEF Repairing, t
<1>9. worker[u].state = "active" => AttachedOf(u)'
  <2>1. worker[u].state = "active" => h = "ensure" /\ t.handle = "attached"
    BY <1>1 DEF ShellInv, AttachedInv, AttachedOf, t
  <2> QED
    BY <1>6, <2>1 DEF AttachedOf
<1>10. ASSUME page.proof = "ready", worker[u].state = "active", BuildOf(u) = page.build PROVE FALSE
  BY <1>1, <1>10, ProvenFinds DEF FindsReady, t
<1>11. ASSUME NEW c \in CacheName, c[2] = BuildOf(u) PROVE Settled(u, h, {}, c)
  <2>1. BuildOf(u)' = BuildOf(u) /\ worker'[u] = worker[u]
    BY <1>5 DEF BuildOf
  <2>2. CASE h = "life"
    <3>1. Makes(u, h, c)'
      BY <1>1, <1>11, <2>1, <2>2 DEF Makes
    <3> QED
      BY <3>1 DEF Settled, Owed, Owes
  <2>3. CASE h = "ensure" /\ c[1] = "repair"
    <3>1. Makes(u, h, c)'
      BY <1>6, <1>11, <2>1, <2>3 DEF Makes
    <3> QED
      BY <3>1 DEF Settled, Owed, Owes
  <2>4. CASE h = "ensure" /\ c[1] # "repair"
    <3>1. cacheOf'[c] = cacheOf[c]
      BY <1>1, <1>6, <2>4 DEF Named
    <3>2. ~Owes(u, h, c)
      BY <1>1, <2>4 DEF Owes, Makes, Keeps, t
    <3> QED
      BY <3>1, <3>2 DEF Settled
  <2> QED
    BY <1>1, <2>2, <2>3, <2>4
<1>12. Busy(u)
  BY <1>1, HandlerFacts DEF t
<1>13. page' \in [build : ShellBuild, proof : {"none", "asking", "ready"}]
  BY <1>0, <1>5 DEF ShellTypeOK
<1>14. {Named(u, k)} \in SUBSET OwnCaches(u) /\ {} \in SUBSET OwnCaches(u)
  BY <1>1, OwnNames
<1> QED
  BY <1>5, <1>6, <1>7, <1>8, <1>9, <1>10, <1>11, <1>12, <1>13, <1>14, HandlerStep

LEMMA RepairVerifiedKeeps ==
    ASSUME ShellInv, NEW u \in Worker, NEW h \in Handler, RepairVerified(u, h)
    PROVE  ShellInv'
<1> DEFINE t == task[<<u, h>>]
           r == [t EXCEPT !.step = "recheck"]
<1>0. ShellTypeOK
  BY DEF ShellInv
<1>1. t \in ShellTask /\ t.step = "verify" /\ ~t.find /\ t.kind = "repair" /\ h = "ensure"
  BY HandlerFacts DEF RepairVerified
<1>2. r \in ShellTask /\ r.step = "recheck" /\ ~r.find /\ r.kind = "repair" /\ r.handle = t.handle
  <2> HIDE DEF t
  <2> QED
    BY <1>1 DEF ShellTask
<1>3. /\ Going(u, h, r) /\ OfflineReady(u, t)
      /\ UNCHANGED <<worker, served, deploys, shellFaults, killed, page>>
  BY DEF RepairVerified, Rest, Surroundings
<1> HIDE DEF r, t
<1>4. Moves(u, h, {}, {}) /\ task'[<<u, h>>] = r /\ cacheOf' = cacheOf
  BY <1>0, <1>2, <1>3, GoingMoves
<1>5. FetchShape(u)'
  BY <1>1, <1>2, <1>3, <1>4, FetchShapeKept DEF Repairing, t
<1>6. worker[u].state = "active" => AttachedOf(u)'
  <2>1. worker[u].state = "active" => t.handle = "attached"
    BY <1>1 DEF ShellInv, AttachedInv, AttachedOf, t
  <2>2. worker[u].state = "active" => cacheOf[Named(u, "repair")] = "ready"
    BY <1>1, <1>3, <2>1 DEF OfflineReady
  <2> QED
    BY <1>1, <1>2, <1>3, <1>4, <2>1, <2>2 DEF AttachedOf, Named, BuildOf
<1>7. ASSUME page.proof = "ready", worker[u].state = "active", BuildOf(u) = page.build PROVE FALSE
  BY <1>1, <1>7, ProvenFinds DEF FindsReady, t
<1>8. ASSUME NEW c \in CacheName, c[2] = BuildOf(u) PROVE Settled(u, h, {}, c)
  <2>1. BuildOf(u)' = BuildOf(u)
    BY <1>3 DEF BuildOf
  <2>2. CASE c[1] = "repair"
    <3>1. Makes(u, h, c)'
      BY <1>1, <1>2, <1>4, <1>8, <2>1, <2>2 DEF Makes
    <3> QED
      BY <3>1 DEF Settled, Owed, Owes
  <2>3. CASE c[1] # "repair"
    BY <1>1, <1>4, <2>3 DEF Settled, Owes, Makes, Keeps, t
  <2> QED
    BY <2>2, <2>3
<1>9. Busy(u)
  BY <1>1, HandlerFacts DEF t
<1>10. page' \in [build : ShellBuild, proof : {"none", "asking", "ready"}]
  BY <1>0, <1>3 DEF ShellTypeOK
<1>11. {} \in SUBSET OwnCaches(u)
  OBVIOUS
<1> QED
  BY <1>1, <1>3, <1>4, <1>5, <1>6, <1>7, <1>8, <1>9, <1>10, <1>11, HandlerStep

(* An answer to the page says that it works offline only if it says so. *)
LEMMA AnsweredIs ==
    ASSUME ShellInv, NEW u \in Worker, NEW h \in Handler, NEW ready \in BOOLEAN,
           Answered(u, h, ready) \/ page' = page
    PROVE  /\ page'.build = page.build
           /\ page' \in [build : ShellBuild, proof : {"none", "asking", "ready"}]
           /\ page' = page \/ (worker[u].state = "active" /\ BuildOf(u) = page.build /\ h \in Ensures)
           /\ page'.proof = "ready" /\ ~ready => page.proof = "ready"
<1>1. page \in [build : ShellBuild, proof : {"none", "asking", "ready"}]
  BY DEF ShellInv, ShellTypeOK
<1>2. CASE page' = page
  BY <1>1, <1>2
<1>3. CASE page' # page
  <2>1. /\ h \in Ensures /\ worker[u].state = "active" /\ BuildOf(u) = page.build
        /\ page' = [page EXCEPT !.proof = IF page.proof # "asking" THEN page.proof
                                          ELSE IF ready THEN "ready" ELSE "none"]
    BY <1>3 DEF Answered
  <2> QED
    BY <1>1, <2>1
<1> QED
  BY <1>2, <1>3

LEMMA RepairEndsKeeps ==
    ASSUME ShellInv, NEW u \in Worker, NEW h \in Handler, RepairEnds(u, h) \/ RepairFails(u, h)
    PROVE  ShellInv'
<1> DEFINE t == task[<<u, h>>]
<1>0. ShellTypeOK
  BY DEF ShellInv
<1>1. /\ t.step \in {"document", "rest", "verify", "recheck"} /\ ~t.find /\ t.kind = "repair" /\ h = "ensure"
      /\ RepairFails(u, h) => t.step # "recheck"
      /\ RepairEnds(u, h) => t.step = "recheck"
  <2>1. /\ h \in Ensures
        /\ RepairFails(u, h) => t.step \in {"document", "rest", "verify"}
        /\ RepairEnds(u, h) => t.step = "recheck"
    BY DEF RepairEnds, RepairFails, Fails
  <2>2. t.step \in {"document", "rest", "verify", "recheck"}
    BY <2>1
  <2> QED
    BY <2>1, <2>2, HandlerFacts
<1>2. UNCHANGED <<worker, served, deploys, shellFaults, killed>>
  BY DEF RepairEnds, RepairFails, Surroundings
<1>3. NoTask \in ShellTask /\ NoTask.step = "idle"
  BY TaskValues
<1>4. PICK D \in {{}, {Named(u, "repair")}} :
        /\ Moves(u, h, D, {}) /\ task'[<<u, h>>] = NoTask
        /\ D = {} => IsCurrent(u) /\ cacheOf' = cacheOf /\ RepairEnds(u, h)
        /\ D # {} => cacheOf'[Named(u, "repair")] = "absent"
        /\ RepairEnds(u, h) /\ IsCurrent(u) => D = {}
  <2>1. {Named(u, "repair")} \in SUBSET CacheName
    BY OwnNames DEF CacheKind
  <2>2. CASE RepairEnds(u, h) /\ IsCurrent(u)
    BY <1>0, <1>3, <2>2, GoingMoves DEF RepairEnds
  <2>3. CASE ~(RepairEnds(u, h) /\ IsCurrent(u))
    <3>1. Deleting(u, h, NoTask, {Named(u, "repair")})
      BY <2>3 DEF RepairEnds, RepairFails
    <3> QED
      BY <1>0, <1>3, <2>1, <2>3, <3>1, DeletingMoves
  <2> QED
    BY <2>2, <2>3
<1>5. FetchShape(u)'
  BY <1>1, <1>2, <1>3, <1>4, FetchShapeKept
<1>6. AttachedOf(u)'
  BY <1>1, <1>3, <1>4 DEF AttachedOf
<1>7. /\ page'.build = page.build
      /\ page' \in [build : ShellBuild, proof : {"none", "asking", "ready"}]
      /\ page' = page \/ (worker[u].state = "active" /\ BuildOf(u) = page.build)
      /\ page'.proof = "ready" /\ ~(RepairEnds(u, h) /\ IsCurrent(u)) => page.proof = "ready"
  <2>1. CASE RepairEnds(u, h)
    <3>1. Answered(u, h, IsCurrent(u)) /\ IsCurrent(u) \in BOOLEAN
      BY <2>1 DEF RepairEnds, IsCurrent
    <3> QED
      BY <2>1, <3>1, AnsweredIs
  <2>2. CASE RepairFails(u, h)
    <3>1. Answered(u, h, FALSE)
      BY <2>2 DEF RepairFails
    <3>2. ~RepairEnds(u, h)
      BY <1>1, <2>2
    <3> QED
      BY <3>1, <3>2, AnsweredIs
  <2> QED
    BY <2>1, <2>2
<1>8. ASSUME page'.proof = "ready", worker[u].state = "active", BuildOf(u) = page.build PROVE ProofOf(u)'
  <2>1. CASE RepairEnds(u, h) /\ IsCurrent(u)
    <3>1. cacheOf[Named(u, "repair")] = "ready"
      BY <1>1, <1>8, <2>1 DEF ShellInv, AttachedInv, AttachedOf
    <3>2. cacheOf'[<<"repair", page.build>>] = "ready"
      BY <1>4, <1>8, <2>1, <3>1 DEF Named
    <3>3. Ready(page.build)'
      BY <1>7, <3>2 DEF Ready
    <3> QED
      BY <1>1, <1>3, <1>4, <3>3 DEF ProofOf
  <2>2. CASE ~(RepairEnds(u, h) /\ IsCurrent(u))
    <3>1. page.proof = "ready"
      BY <1>7, <1>8, <2>2
    <3> QED
      BY <1>1, <1>8, <3>1, ProvenFinds DEF FindsReady
  <2> QED
    BY <2>1, <2>2
<1>9. ASSUME ~IsCurrent(u), NEW c \in CacheName, c[2] = BuildOf(u) PROVE Settled(u, h, D, c)
  <2>1. c = Named(u, c[1]) /\ D = {Named(u, "repair")}
    BY <1>4, <1>9, OwnNames
  <2>2. CASE c[1] = "repair"
    BY <1>4, <2>1, <2>2 DEF Settled
  <2>3. CASE c[1] # "repair"
    <3>1. c \notin D /\ cacheOf'[c] = cacheOf[c]
      BY <1>4, <2>1, <2>3 DEF Moves, Named
    <3>2. ~Owes(u, h, c)
      BY <1>1, <2>3 DEF Owes, Makes, Keeps
    <3> QED
      BY <3>1, <3>2 DEF Settled
  <2> QED
    BY <2>2, <2>3
<1>10. Busy(u)
  BY <1>1, HandlerFacts
<1>11. D \in SUBSET OwnCaches(u) /\ {} \in SUBSET OwnCaches(u)
  BY <1>4, OwnNames DEF CacheKind
<1> QED
  BY <1>1, <1>2, <1>4, <1>5, <1>6, <1>7, <1>8, <1>9, <1>10, <1>11, HandlerStep

(* What follows when no cache is ready. *)
LEMMA NotFoundIs ==
    ASSUME NEW u \in Worker, NEW h \in {"ensure", "asset"}
    PROVE  /\ NotFound(u, h) \in ShellTask
           /\ NotFound(u, h).step # "idle" => IF h = "ensure" THEN Repairing(NotFound(u, h))
                                              ELSE Fetching(NotFound(u, h))
           /\ NotFound(u, h).step \in {"idle", "open", "runtime"}
<1>1. CASE ~IsCurrent(u)
  BY <1>1, TaskValues DEF NotFound
<1>2. CASE IsCurrent(u) /\ h = "ensure"
  <2>1. NotFound(u, h) = [NoTask EXCEPT !.step = "open", !.kind = "repair"]
    BY <1>2 DEF NotFound, Ensures
  <2>2. NotFound(u, h) \in ShellTask /\ NotFound(u, h).step = "open" /\ Repairing(NotFound(u, h))
    BY <2>1 DEF NoTask, ShellTask, CacheKind, Repairing
  <2> QED
    BY <1>2, <2>2
<1>3. CASE IsCurrent(u) /\ h = "asset"
  <2>1. NotFound(u, h) = [NoTask EXCEPT !.step = "runtime", !.kind = "runtime"]
    BY <1>3 DEF NotFound, Ensures
  <2>2. NotFound(u, h) \in ShellTask /\ NotFound(u, h).step = "runtime" /\ Fetching(NotFound(u, h))
    BY <2>1 DEF NoTask, ShellTask, CacheKind, Fetching
  <2> QED
    BY <1>3, <2>2
<1> QED
  BY <1>1, <1>2, <1>3

(* Which cache is looked at next, and what follows when there is none. *)
LEMMA NextIs ==
    ASSUME NEW t \in ShellTask, t.find, NEW u \in Worker, NEW h \in {"ensure", "asset"}
    PROVE  /\ NextKind(t) \in {{}, {"repair"}, {"shell"}}
           /\ NextKind(t) # {} =>
                /\ Looking(t) \in ShellTask /\ Looking(t).step = "open" /\ Looking(t).find
                /\ Looking(t).kind \in NextKind(t) /\ Looking(t).names = t.names
           /\ NotFound(u, h) \in ShellTask
           /\ NotFound(u, h).step # "idle" => IF h = "ensure" THEN Repairing(NotFound(u, h))
                                              ELSE Fetching(NotFound(u, h))
           /\ NotFound(u, h).step \in {"idle", "open", "runtime"}
<1>1. NextKind(t) \in {{}, {"repair"}, {"shell"}}
  BY DEF NextKind
<1>2. ASSUME NextKind(t) # {}
      PROVE  /\ Looking(t) \in ShellTask /\ Looking(t).step = "open" /\ Looking(t).find
             /\ Looking(t).kind \in NextKind(t) /\ Looking(t).names = t.names
  <2> DEFINE k == CHOOSE k \in NextKind(t) : TRUE
  <2>1. k \in NextKind(t) /\ k \in CacheKind
    BY <1>1, <1>2 DEF CacheKind
  <2>2. Looking(t) = [t EXCEPT !.step = "open", !.kind = k]
    BY DEF Looking
  <2> HIDE DEF k
  <2> QED
    BY <2>1, <2>2 DEF ShellTask
<1> QED
  BY <1>1, <1>2, NotFoundIs

LEMMA FindNamesKeeps ==
    ASSUME ShellInv, NEW u \in Worker, NEW h \in Handler, FindNames(u, h)
    PROVE  ShellInv'
<1> DEFINE t0 == task[<<u, h>>]
           t == [t0 EXCEPT !.names = Visible \cap OwnCaches(u)]
           r == IF NextKind(t) = {} THEN NotFound(u, h) ELSE Looking(t)
<1>0. ShellTypeOK
  BY DEF ShellInv
<1>1. t0 \in ShellTask /\ t0.step = "names" /\ t0.find /\ h \in {"ensure", "asset"}
  BY HandlerFacts DEF FindNames
<1>2. /\ t \in ShellTask /\ t.step = "names" /\ t.find /\ t.names = Visible \cap OwnCaches(u)
  <2>1. Visible \cap OwnCaches(u) \in SUBSET CacheName
    BY DEF Visible
  <2> HIDE DEF t0
  <2> QED
    BY <1>1, <2>1 DEF ShellTask
<1>3. /\ Going(u, h, r) /\ Ends(u, h, r, FALSE)
      /\ UNCHANGED <<worker, served, deploys, shellFaults, killed>>
  BY DEF FindNames, Surroundings
<1> HIDE DEF t, t0
<1>4. /\ NextKind(t) \in {{}, {"repair"}, {"shell"}}
      /\ NextKind(t) # {} => /\ r \in ShellTask /\ r.step = "open" /\ r.find
                             /\ r.kind \in NextKind(t) /\ r.names = t.names
      /\ NextKind(t) = {} => /\ r \in ShellTask /\ r.step \in {"idle", "open", "runtime"}
                             /\ r.step # "idle" => IF h = "ensure" THEN Repairing(r) ELSE Fetching(r)
  BY <1>1, <1>2, NextIs
<1>5. Moves(u, h, {}, {}) /\ task'[<<u, h>>] = r /\ cacheOf' = cacheOf
  BY <1>0, <1>3, <1>4, GoingMoves
<1> HIDE DEF r
<1>6. FetchShape(u)'
  BY <1>1, <1>3, <1>4, <1>5, FetchShapeKept DEF Finding, t0
<1>7. /\ page'.build = page.build
      /\ page' \in [build : ShellBuild, proof : {"none", "asking", "ready"}]
      /\ page' = page \/ (worker[u].state = "active" /\ BuildOf(u) = page.build /\ h = "ensure")
      /\ page'.proof = "ready" => page.proof = "ready"
  BY <1>1, <1>3, AnsweredIs DEF Ends, Ensures
<1>8. worker[u].state = "active" => AttachedOf(u)'
  <2>1. CASE h = "ensure"
    BY <1>4, <1>5, <2>1 DEF AttachedOf
  <2>2. CASE h = "asset"
    BY <1>3, <1>5, <2>2, EnsureStays
  <2> QED
    BY <1>1, <2>1, <2>2
<1>9. ASSUME page'.proof = "ready", worker[u].state = "active", BuildOf(u) = page.build PROVE ProofOf(u)'
  <2>1. page.proof = "ready"
    BY <1>7, <1>9
  <2>2. CASE h = "asset"
    BY <1>3, <1>5, <1>7, <1>9, <2>1, <2>2, EnsureStays
  <2>3. CASE h = "ensure"
    <3>1. PICK q \in {"shell", "repair"} : cacheOf[Named(u, q)] = "ready"
      BY <1>9, <2>1, ProvenFinds
    <3>2. \A q1 \in {"shell", "repair"} : cacheOf[Named(u, q1)] = "ready" =>
            Named(u, q1) \in t.names /\ Named(u, q1)[1] = q1
      BY <1>2, OwnNames DEF CacheKind, Visible
    <3>3. /\ NextKind(t) # {}
          /\ NextKind(t) = {"shell"} => q = "shell"
      BY <1>2, <3>1, <3>2 DEF NextKind
    <3>4. r.find /\ r.names = t.names /\ r.step = "open"
          /\ (r.kind = q \/ (r.kind = "repair" /\ q = "shell"))
      BY <1>4, <3>1, <3>3
    <3>5. FindsReady(u)'
      <4>1. \A q1 \in CacheKind : Named(u, q1)' = Named(u, q1)
        BY <1>3 DEF Named, BuildOf
      <4> QED
        BY <1>5, <2>3, <3>1, <3>2, <3>4, <4>1 DEF FindsReady, CacheKind
    <3>6. Ready(page.build)'
      BY <1>5, <1>7, <1>9, <3>1 DEF Ready, Named
    <3> QED
      BY <3>5, <3>6 DEF ProofOf
  <2> QED
    BY <1>1, <2>2, <2>3
<1>10. ASSUME NEW c \in CacheName, c[2] = BuildOf(u) PROVE Settled(u, h, {}, c)
  BY <1>1, <1>5 DEF Settled, Owes, Makes, Keeps, t0
<1>11. Busy(u)
  BY <1>1, HandlerFacts DEF t0
<1>12. {} \in SUBSET OwnCaches(u)
  OBVIOUS
<1> QED
  BY <1>1, <1>3, <1>5, <1>6, <1>7, <1>8, <1>9, <1>10, <1>11, <1>12, HandlerStep

LEMMA FindOpensKeeps ==
    ASSUME ShellInv, NEW u \in Worker, NEW h \in Handler, FindOpens(u, h)
    PROVE  ShellInv'
<1> DEFINE t == task[<<u, h>>]
           k == t.kind
           r == [t EXCEPT !.step = "check"]
<1>0. ShellTypeOK
  BY DEF ShellInv
<1>1. t \in ShellTask /\ t.step = "open" /\ t.find /\ h \in {"ensure", "asset"} /\ k \in {"shell", "repair"}
  BY HandlerFacts DEF FindOpens, Finding
<1>2. /\ r \in ShellTask /\ r.step = "check" /\ r.find /\ r.kind = k /\ r.names = t.names
      /\ [r EXCEPT !.handle = "attached"].step = "check" /\ [r EXCEPT !.handle = "attached"].find
      /\ [r EXCEPT !.handle = "attached"].kind = k /\ [r EXCEPT !.handle = "attached"].names = t.names
      /\ [r EXCEPT !.handle = "attached"].handle = "attached"
  <2> HIDE DEF t
  <2> QED
    BY <1>1 DEF ShellTask
<1>3. /\ Opening(u, h, r)
      /\ UNCHANGED <<worker, served, deploys, shellFaults, killed, page>>
  BY DEF FindOpens, Rest, Surroundings
<1>4. /\ Moves(u, h, {}, {Named(u, k)})
      /\ task'[<<u, h>>].step = "check" /\ task'[<<u, h>>].find /\ task'[<<u, h>>].kind = k
      /\ task'[<<u, h>>].names = t.names /\ task'[<<u, h>>].handle = "attached"
      /\ \A c \in CacheName : cacheOf'[c] = cacheOf[c]
           \/ (c = Named(u, k) /\ cacheOf[c] = "absent" /\ cacheOf'[c] = "partial")
  <2> HIDE DEF r, t, k
  <2>1. /\ Moves(u, h, {}, {Named(u, r.kind)}) /\ task'[<<u, h>>] = [r EXCEPT !.handle = "attached"]
        /\ \A c \in CacheName : cacheOf'[c] = cacheOf[c]
             \/ (c = Named(u, r.kind) /\ cacheOf[c] = "absent" /\ cacheOf'[c] = "partial")
    BY <1>0, <1>2, <1>3, OpeningMoves
  <2> QED
    BY <1>2, <2>1
<1> HIDE DEF r, t, k
<1>5. FetchShape(u)'
  BY <1>1, <1>3, <1>4, FetchShapeKept DEF Finding, t
<1>6. \A c \in CacheName : cacheOf[c] = "ready" => cacheOf'[c] = "ready"
  BY <1>4
<1>7. worker[u].state = "active" => AttachedOf(u)'
  <2>1. CASE h = "ensure"
    BY <1>4, <2>1 DEF AttachedOf
  <2>2. CASE h = "asset"
    BY <1>3, <1>4, <1>6, <2>2, EnsureStays
  <2> QED
    BY <1>1, <2>1, <2>2
<1>8. ASSUME page'.proof = "ready", worker[u].state = "active", BuildOf(u) = page.build PROVE ProofOf(u)'
  <2>1. CASE h = "asset"
    BY <1>3, <1>4, <1>6, <1>8, <2>1, EnsureStays
  <2>2. CASE h = "ensure"
    <3>1. \E q \in {"shell", "repair"} : cacheOf[Named(u, q)] = "ready"
      BY <1>3, <1>8, ProvenFinds
    <3>2. FindsReady(u)
      BY <1>1, <1>3, <1>8, <2>2, ProvenFinds DEF t
    <3>3. \A q \in {"shell", "repair"} : /\ Named(u, q)' = Named(u, q)
                                         /\ cacheOf[Named(u, q)] = "ready" => cacheOf'[Named(u, q)] = "ready"
      BY <1>3, <1>6, OwnNames DEF CacheKind, Named, BuildOf
    <3>4. Ready(page.build)'
      BY <1>3, <1>8, <3>1, <3>3 DEF Ready, Named
    <3>5. FindsReady(u)'
      BY <1>1, <1>4, <2>2, <3>2, <3>3 DEF FindsReady, t, k
    <3> QED
      BY <3>4, <3>5 DEF ProofOf
  <2> QED
    BY <1>1, <2>1, <2>2
<1>9. ASSUME NEW c \in CacheName, c[2] = BuildOf(u) PROVE Settled(u, h, {}, c)
  <2>1. CASE c = Named(u, k) /\ cacheOf'[c] # "ready"
    <3>1. Keeps(u, h, c)'
      BY <1>3, <1>4, <1>9, <2>1 DEF Keeps, Named, BuildOf
    <3> QED
      BY <2>1, <3>1 DEF Settled, Owed, Owes
  <2>2. CASE c # Named(u, k) \/ cacheOf'[c] = "ready"
    <3>1. cacheOf'[c] = cacheOf[c]
      BY <1>4, <2>2
    <3>2. ~Owes(u, h, c)
      BY <1>1 DEF Owes, Makes, Keeps, t
    <3> QED
      BY <3>1, <3>2 DEF Settled
  <2> QED
    BY <2>1, <2>2
<1>10. Busy(u)
  BY <1>1, HandlerFacts DEF t
<1>11. page' \in [build : ShellBuild, proof : {"none", "asking", "ready"}]
  BY <1>0, <1>3 DEF ShellTypeOK
<1>12. {Named(u, k)} \in SUBSET OwnCaches(u) /\ {} \in SUBSET OwnCaches(u)
  BY <1>1, OwnNames DEF CacheKind
<1> QED
  BY <1>1, <1>3, <1>4, <1>5, <1>7, <1>8, <1>9, <1>10, <1>11, <1>12, HandlerStep

(* What a search does that found a ready cache. *)
LEMMA FoundIs ==
    ASSUME NEW h \in {"ensure", "asset"}
    PROVE  /\ Found(h) \in ShellTask
           /\ h = "ensure" => Found(h).step = "idle"
           /\ h = "asset" => Fetching(Found(h)) /\ Found(h).step = "match"
BY DEF Found, Ensures, Fetching, NoTask, ShellTask, CacheKind

LEMMA FindChecksKeeps ==
    ASSUME ShellInv, NEW u \in Worker, NEW h \in Handler, FindChecks(u, h)
    PROVE  ShellInv'
<1> DEFINE t == task[<<u, h>>]
           k == t.kind
           r == IF NextKind(t) = {} THEN NotFound(u, h) ELSE Looking(t)
<1>0. ShellTypeOK
  BY DEF ShellInv
<1>1. t \in ShellTask /\ t.step = "check" /\ t.find /\ h \in {"ensure", "asset"} /\ k \in {"shell", "repair"}
  BY HandlerFacts DEF FindChecks
<1>2. UNCHANGED <<worker, served, deploys, shellFaults, killed>>
  BY DEF FindChecks, Surroundings
<1>3. PICK f \in ShellTask : /\ f = Found(h)
                             /\ h = "ensure" => f.step = "idle"
                             /\ h = "asset" => Fetching(f) /\ f.step = "match"
  BY <1>1, FoundIs
<1>4. /\ NextKind(t) \in {{}, {"repair"}, {"shell"}}
      /\ NextKind(t) # {} => /\ r \in ShellTask /\ r.step = "open" /\ r.find
                             /\ r.kind \in NextKind(t) /\ r.names = t.names
      /\ NextKind(t) = {} => /\ r \in ShellTask /\ r.step \in {"idle", "open", "runtime"}
                             /\ r.step # "idle" => IF h = "ensure" THEN Repairing(r) ELSE Fetching(r)
  BY <1>1, NextIs
<1>5. IF OfflineReady(u, t) THEN Going(u, h, f) /\ Answered(u, h, TRUE)
      ELSE Deleting(u, h, r, Dropped(u, t)) /\ Ends(u, h, r, FALSE)
  BY <1>3 DEF FindChecks
<1>6. worker[u].state = "active" => IsCurrent(u) /\ (h = "ensure" => t.handle = "attached")
  BY <1>1, ActiveIsCurrent DEF ShellInv, AttachedInv, AttachedOf
<1>7. Named(u, k) \in CacheName /\ {Named(u, k)} \in SUBSET OwnCaches(u) /\ {Named(u, k)} \in SUBSET CacheName
  BY <1>1, OwnNames DEF CacheKind
<1>8. Busy(u)
  BY <1>1, HandlerFacts
<1> HIDE DEF r
<1>9. CASE OfflineReady(u, t)
  <2>1. Moves(u, h, {}, {}) /\ task'[<<u, h>>] = f /\ cacheOf' = cacheOf
    BY <1>0, <1>3, <1>5, <1>9, GoingMoves
  <2>2. FetchShape(u)'
    BY <1>1, <1>2, <1>3, <2>1, FetchShapeKept
  <2>3. /\ page'.build = page.build
        /\ page' \in [build : ShellBuild, proof : {"none", "asking", "ready"}]
        /\ page' = page \/ (worker[u].state = "active" /\ BuildOf(u) = page.build /\ h \in Ensures)
    BY <1>5, <1>9, AnsweredIs
  <2>4. worker[u].state = "active" => AttachedOf(u)'
    <3>1. CASE h = "ensure"
      BY <1>3, <2>1, <3>1 DEF AttachedOf
    <3>2. CASE h = "asset"
      BY <1>2, <2>1, <3>2, EnsureStays
    <3> QED
      BY <1>1, <3>1, <3>2
  <2>5. ASSUME page'.proof = "ready", worker[u].state = "active", BuildOf(u) = page.build PROVE ProofOf(u)'
    <3>1. CASE h = "ensure"
      <4>1. cacheOf[Named(u, k)] = "ready"
        BY <1>6, <1>9, <2>5, <3>1 DEF OfflineReady
      <4>2. Ready(page.build)'
        BY <1>1, <2>1, <2>3, <2>5, <4>1 DEF Ready, Named
      <4> QED
        BY <1>3, <2>1, <3>1, <4>2 DEF ProofOf
    <3>2. CASE h = "asset"
      BY <1>2, <2>1, <2>3, <2>5, <3>2, EnsureStays DEF Ensures
    <3> QED
      BY <1>1, <3>1, <3>2
  <2>6. ASSUME NEW c \in CacheName, c[2] = BuildOf(u) PROVE Settled(u, h, {}, c)
    <3>1. c = Named(u, c[1])
      BY <2>6, OwnNames
    <3>2. ~Owes(u, h, c)
      BY <1>1, <1>9, <3>1 DEF Owes, Makes, Keeps, OfflineReady
    <3> QED
      BY <2>1, <3>2 DEF Settled
  <2>7. {} \in SUBSET OwnCaches(u)
    OBVIOUS
  <2> QED
    BY <1>1, <1>2, <1>8, <2>1, <2>2, <2>3, <2>4, <2>5, <2>6, <2>7, HandlerStep
<1>10. CASE ~OfflineReady(u, t)
  <2> DEFINE D == Dropped(u, t)
  <2>1. /\ D = IF IsCurrent(u) THEN {} ELSE {Named(u, k)}
        /\ D \in SUBSET OwnCaches(u) /\ D \in SUBSET CacheName
    BY <1>7 DEF Dropped
  <2>2. r \in ShellTask
    BY <1>4
  <2> HIDE DEF D
  <2>3. Deleting(u, h, r, D) /\ Ends(u, h, r, FALSE)
    BY <1>5, <1>10 DEF D
  <2>4. /\ Moves(u, h, D, {}) /\ task'[<<u, h>>] = r
        /\ \A c \in D : cacheOf'[c] = "absent"
    BY <1>0, <2>1, <2>2, <2>3, DeletingMoves
  <2>5. FetchShape(u)'
    BY <1>1, <1>2, <1>4, <2>4, FetchShapeKept DEF Finding
  <2>6. /\ page'.build = page.build
        /\ page' \in [build : ShellBuild, proof : {"none", "asking", "ready"}]
        /\ page' = page \/ (worker[u].state = "active" /\ BuildOf(u) = page.build /\ h \in Ensures)
        /\ page'.proof = "ready" => page.proof = "ready"
    BY <2>3, AnsweredIs DEF Ends
  <2>7. worker[u].state = "active" => D = {} /\ \A c \in CacheName : cacheOf'[c] = cacheOf[c]
    BY <1>6, <2>1, <2>4 DEF Moves
  <2>8. worker[u].state = "active" => AttachedOf(u)'
    <3>1. CASE h = "ensure"
      BY <1>4, <2>4, <3>1 DEF AttachedOf
    <3>2. CASE h = "asset"
      BY <1>2, <2>4, <2>7, <3>2, EnsureStays
    <3> QED
      BY <1>1, <3>1, <3>2
  <2>9. ASSUME page'.proof = "ready", worker[u].state = "active", BuildOf(u) = page.build PROVE ProofOf(u)'
    <3>1. page.proof = "ready"
      BY <2>6, <2>9
    <3>2. CASE h = "asset"
      BY <1>2, <2>4, <2>6, <2>7, <2>9, <3>1, <3>2, EnsureStays DEF Ensures
    <3>3. CASE h = "ensure"
      <4>1. FindsReady(u)
        BY <1>1, <2>9, <3>1, <3>3, ProvenFinds
      <4>2. cacheOf[Named(u, k)] # "ready"
        BY <1>6, <1>10, <2>9, <3>3 DEF OfflineReady
      <4>3. k = "repair" /\ Named(u, "shell") \in t.names /\ cacheOf[Named(u, "shell")] = "ready"
        BY <1>1, <3>3, <4>1, <4>2 DEF FindsReady
      <4>4. Named(u, "shell")[1] = "shell" /\ Named(u, "shell") \in CacheName
        BY OwnNames DEF CacheKind
      <4>5. NextKind(t) = {"shell"}
        BY <1>1, <4>3, <4>4 DEF NextKind
      <4>6. r.find /\ r.kind = "shell"
        BY <1>4, <4>5
      <4>7. cacheOf'[Named(u, "shell")] = "ready" /\ Named(u, "shell")' = Named(u, "shell")
        BY <1>2, <2>7, <2>9, <4>3, <4>4 DEF Named, BuildOf
      <4>8. FindsReady(u)'
        BY <2>4, <3>3, <4>6, <4>7 DEF FindsReady
      <4>9. Ready(page.build)'
        BY <2>6, <2>9, <4>7 DEF Ready, Named
      <4> QED
        BY <4>8, <4>9 DEF ProofOf
    <3> QED
      BY <1>1, <3>2, <3>3
  <2>10. ASSUME ~IsCurrent(u), NEW c \in CacheName, c[2] = BuildOf(u) PROVE Settled(u, h, D, c)
    <3>1. c = Named(u, c[1]) /\ D = {Named(u, k)}
      BY <2>1, <2>10, OwnNames
    <3>2. CASE c[1] = k
      BY <2>4, <3>1, <3>2 DEF Settled
    <3>3. CASE c[1] # k
      <4>1. c \notin D /\ cacheOf'[c] = cacheOf[c]
        BY <2>4, <3>1, <3>3 DEF Moves, Named
      <4>2. ~Owes(u, h, c)
        BY <1>1, <3>3 DEF Owes, Makes, Keeps
      <4> QED
        BY <4>1, <4>2 DEF Settled
    <3> QED
      BY <3>2, <3>3
  <2>11. {} \in SUBSET OwnCaches(u)
    OBVIOUS
  <2> QED
    BY <1>1, <1>2, <1>8, <2>1, <2>4, <2>5, <2>6, <2>8, <2>9, <2>10, <2>11, HandlerStep
<1> QED
  BY <1>9, <1>10

(* A search of the active worker begins. *)
LEMMA EnsureBegins ==
    ASSUME ShellInv, NEW u \in Worker, worker[u].state = "active",
           UNCHANGED <<worker, served, deploys, shellFaults, killed>>,
           Ensure(u) \/ UNCHANGED <<task, cacheOf>>,
           page' = page \/ (BuildOf(u) = page.build /\ page' = [page EXCEPT !.proof = "asking"])
    PROVE  ShellInv'
<1>0. ShellTypeOK
  BY DEF ShellInv
<1> DEFINE r == [NoTask EXCEPT !.step = "names", !.find = TRUE]
<1>1. r \in ShellTask /\ r.step = "names" /\ r.find
  BY DEF NoTask, ShellTask, CacheKind
<1> HIDE DEF r
<1>2. \/ task'[<<u, "ensure">>] = r \/ task'[<<u, "ensure">>] = task[<<u, "ensure">>]
  <2>1. CASE Ensure(u)
    <3>1. PICK h \in FreeEnsure(u) : Going(u, h, r)
      BY <2>1 DEF Ensure, r
    <3>2. h = "ensure" /\ h \in Handler
      BY <3>1 DEF FreeEnsure, Handler
    <3> QED
      BY <1>0, <1>1, <3>1, <3>2, GoingMoves
  <2> QED
    BY <2>1
<1>3. Moves(u, "ensure", {}, {}) /\ cacheOf' = cacheOf
  <2>1. CASE Ensure(u)
    <3>1. PICK h \in FreeEnsure(u) : Going(u, h, r)
      BY <2>1 DEF Ensure, r
    <3>2. h = "ensure" /\ h \in Handler
      BY <3>1 DEF FreeEnsure, Handler
    <3> QED
      BY <1>0, <1>1, <3>1, <3>2, GoingMoves
  <2>2. CASE UNCHANGED <<task, cacheOf>>
    BY <1>0, <2>2 DEF Moves, ShellTypeOK
  <2> QED
    BY <2>1, <2>2
<1>4. FetchShape(u)'
  <2>1. CASE task'[<<u, "ensure">>] = r
    BY <1>1, <1>3, <2>1, FetchShapeKept DEF Finding
  <2>2. CASE task'[<<u, "ensure">>] = task[<<u, "ensure">>]
    <3>1. task[<<u, "ensure">>].step # "idle" =>
            Finding(task[<<u, "ensure">>]) \/ Repairing(task[<<u, "ensure">>])
      BY DEF ShellInv, HandlersInv, FetchShape
    <3> QED
      BY <1>3, <2>2, <3>1, FetchShapeKept
  <2> QED
    BY <1>2, <2>1, <2>2
<1>5. AttachedOf(u)'
  <2>1. AttachedOf(u) /\ Named(u, "repair")' = Named(u, "repair")
    BY DEF ShellInv, AttachedInv, Named, BuildOf
  <2> QED
    BY <1>1, <1>2, <1>3, <2>1 DEF AttachedOf
<1>6. /\ page'.build = page.build
      /\ page' \in [build : ShellBuild, proof : {"none", "asking", "ready"}]
      /\ page' = page \/ (worker[u].state = "active" /\ BuildOf(u) = page.build)
      /\ page'.proof = "ready" => page' = page
  <2>1. page \in [build : ShellBuild, proof : {"none", "asking", "ready"}]
    BY <1>0 DEF ShellTypeOK
  <2> QED
    BY <2>1
<1>7. ASSUME page'.proof = "ready", worker[u].state = "active", BuildOf(u) = page.build PROVE ProofOf(u)'
  <2>1. ProofOf(u) /\ page' = page
    BY <1>6, <1>7 DEF ShellInv, ProofInv
  <2>2. Ready(page.build)' /\ \A k \in CacheKind : Named(u, k)' = Named(u, k)
    BY <1>3, <2>1 DEF ProofOf, Ready, Named, BuildOf
  <2>3. task[<<u, "ensure">>] \in ShellTask /\ task[<<u, "ensure">>].kind \in CacheKind
    BY <1>0, ShellTypes DEF Handler
  <2>4. task'[<<u, "ensure">>].step # "idle" => FindsReady(u)'
    BY <1>1, <1>2, <1>3, <2>1, <2>2, <2>3 DEF ProofOf, FindsReady, CacheKind
  <2> QED
    BY <2>2, <2>4 DEF ProofOf
<1>8. IsCurrent(u)
  BY ActiveIsCurrent
<1>9. {} \in SUBSET OwnCaches(u) /\ "ensure" \in Handler
  BY DEF Handler
<1> QED
  BY <1>3, <1>4, <1>5, <1>6, <1>7, <1>8, <1>9, HandlerStep

(* A handler of an asset moves. *)
LEMMA AssetStep ==
    ASSUME ShellInv, NEW u \in Worker, NEW n \in CacheName, n = Named(u, "runtime"),
           NEW D \in SUBSET {n}, NEW T \in SUBSET {n}, Moves(u, "asset", D, T),
           UNCHANGED <<worker, served, deploys, shellFaults, killed, page>>,
           \/ task[<<u, "asset">>].step \in {"match", "runtime", "opened", "fetch", "stored"}
           \/ task[<<u, "asset">>].step = "idle" /\ worker[u].state = "active",
           \/ task'[<<u, "asset">>].step = "idle"
           \/ Finding(task'[<<u, "asset">>])
           \/ Fetching(task'[<<u, "asset">>]),
           IsCurrent(u) => D = {},
           ~IsCurrent(u) => Settled(u, "asset", D, n)
    PROVE  ShellInv'
<1>0. ShellTypeOK
  BY DEF ShellInv
<1>1. FetchShape(u)'
  BY FetchShapeKept
<1>2. D \in SUBSET OwnCaches(u) /\ T \in SUBSET OwnCaches(u) /\ "asset" \in Handler
  BY OwnNames DEF CacheKind, Handler
<1>3. ASSUME worker[u].state = "active"
      PROVE  AttachedOf(u)' /\ (page.proof = "ready" /\ BuildOf(u) = page.build => ProofOf(u)')
  <2>1. D = {}
    BY <1>3, ActiveIsCurrent
  <2>2. \A c \in CacheName : cacheOf[c] = "ready" /\ c[1] # "runtime" => cacheOf'[c] = "ready"
    BY <2>1 DEF Moves, Named
  <2> QED
    BY <1>2, <1>3, <2>1, <2>2, EnsureStays
<1>4. ASSUME ~IsCurrent(u), NEW c \in CacheName, c[2] = BuildOf(u)
      PROVE  Settled(u, "asset", D, c)
  <2>1. c = Named(u, c[1])
    BY <1>4, OwnNames
  <2>2. CASE c[1] = "runtime"
    BY <1>4, <2>1, <2>2
  <2>3. CASE c[1] # "runtime"
    <3>1. c \notin D /\ cacheOf'[c] = cacheOf[c]
      BY <2>3 DEF Moves, Named
    <3>2. CASE ~Owes(u, "asset", c)
      BY <3>1, <3>2 DEF Settled
    <3>3. CASE Owes(u, "asset", c)
      <4>1. cacheOf[c] # "ready" /\ Keeps(u, "asset", c)
        BY <3>3 DEF Owes, Makes
      <4>2. task[<<u, "asset">>].kind = "runtime"
        BY <1>2, <4>1, HandlerFacts DEF Keeps
      <4> QED
        BY <2>3, <4>1, <4>2 DEF Keeps
    <3> QED
      BY <3>2, <3>3
  <2> QED
    BY <2>2, <2>3
<1>5. Busy(u) \/ worker[u].state = "active"
  BY <1>2 DEF Busy
<1>6. page' = page /\ page' \in [build : ShellBuild, proof : {"none", "asking", "ready"}]
  BY <1>0 DEF ShellTypeOK
<1> QED
  BY <1>1, <1>2, <1>3, <1>4, <1>5, <1>6, HandlerStep

LEMMA AssetKeeps ==
    ASSUME ShellInv, NEW u \in Worker,
           \/ AssetRequest(u) \/ AssetMatched(u) \/ OpenRuntime(u) \/ RuntimeOpened(u)
           \/ AssetServed(u) \/ StoreAsset(u) \/ AssetStored(u)
    PROVE  ShellInv'
<1> DEFINE t == task[<<u, "asset">>]
<1>0. ShellTypeOK /\ "asset" \in Handler
  BY DEF ShellInv, Handler
<1>1. NoTask \in ShellTask /\ NoTask.step = "idle"
  BY TaskValues
<1>2. t \in ShellTask /\ (t.step \in {"runtime", "opened", "fetch", "stored"} => ~t.find /\ t.kind = "runtime")
  BY <1>0, HandlerFacts
<1>3. PICK n \in CacheName : n = Named(u, "runtime")
  BY OwnNames DEF CacheKind
<1>4. UNCHANGED <<worker, served, deploys, shellFaults, killed, page>>
  BY DEF AssetRequest, AssetMatched, OpenRuntime, RuntimeOpened, AssetServed, StoreAsset, AssetStored,
         Rest, Surroundings
<1>5. CASE AssetRequest(u)
  <2> DEFINE r == [NoTask EXCEPT !.step = "names", !.find = TRUE]
  <2>1. r \in ShellTask /\ r.step = "names" /\ r.find
    BY DEF NoTask, ShellTask, CacheKind
  <2>2. worker[u].state = "active" /\ t.step = "idle" /\ Going(u, "asset", r)
    BY <1>5 DEF AssetRequest
  <2> HIDE DEF r
  <2>3. Moves(u, "asset", {}, {}) /\ task'[<<u, "asset">>] = r
    BY <1>0, <2>1, <2>2, GoingMoves
  <2>4. Finding(task'[<<u, "asset">>])
    BY <2>1, <2>3 DEF Finding
  <2> QED
    BY <1>3, <1>4, <2>2, <2>3, <2>4, ActiveIsCurrent, AssetStep
<1>6. CASE OpenRuntime(u)
  <2> DEFINE r == [t EXCEPT !.step = "opened"]
  <2>1. t.step = "runtime" /\ Opening(u, "asset", r)
    BY <1>6 DEF OpenRuntime
  <2>2. r \in ShellTask /\ r.step = "opened" /\ ~r.find /\ r.kind = "runtime"
    <3>1. t \in ShellTask /\ ~t.find /\ t.kind = "runtime"
      BY <1>2, <2>1
    <3> HIDE DEF t
    <3> QED
      BY <3>1 DEF ShellTask
  <2> HIDE DEF r
  <2>3. /\ Moves(u, "asset", {}, {n})
        /\ task'[<<u, "asset">>] = [r EXCEPT !.handle = "attached"]
        /\ cacheOf'[n] = cacheOf[n] \/ (cacheOf[n] = "absent" /\ cacheOf'[n] = "partial")
    <3>1. n = Named(u, r.kind)
      BY <1>3, <2>2
    <3> QED
      BY <1>0, <2>1, <2>2, <3>1, OpeningMoves
  <2>4. Fetching(task'[<<u, "asset">>]) /\ task'[<<u, "asset">>].step = "opened"
        /\ task'[<<u, "asset">>].kind = "runtime" /\ task'[<<u, "asset">>].handle = "attached"
    <3>1. \A x \in ShellTask : /\ [x EXCEPT !.handle = "attached"].step = x.step
                               /\ [x EXCEPT !.handle = "attached"].find = x.find
                               /\ [x EXCEPT !.handle = "attached"].kind = x.kind
                               /\ [x EXCEPT !.handle = "attached"].handle = "attached"
      BY DEF ShellTask
    <3> QED
      BY <2>2, <2>3, <3>1 DEF Fetching
  <2>5. Settled(u, "asset", {}, n)
    <3>1. CASE cacheOf[n] = "absent" /\ cacheOf'[n] = "partial"
      <4>1. Keeps(u, "asset", n)'
        BY <1>3, <1>4, <2>4 DEF Keeps, Named, BuildOf
      <4> QED
        BY <1>0, <3>1, <4>1 DEF Settled, Owed, Owes
    <3>2. CASE cacheOf'[n] = cacheOf[n]
      <4>1. ~Owes(u, "asset", n)
        BY <2>1 DEF Owes, Makes, Keeps
      <4> QED
        BY <3>2, <4>1 DEF Settled
    <3> QED
      BY <2>3, <3>1, <3>2
  <2> QED
    BY <1>3, <1>4, <2>1, <2>3, <2>4, <2>5, AssetStep
<1>7. CASE \/ t.step \in {"opened", "stored"} /\ ~IsCurrent(u) /\ Deleting(u, "asset", NoTask, {n})
           \/ t.step = "stored" /\ IsCurrent(u) /\ Going(u, "asset", NoTask)
  <2>1. CASE IsCurrent(u)
    <3>1. Moves(u, "asset", {}, {}) /\ task'[<<u, "asset">>] = NoTask
      BY <1>0, <1>1, <1>7, <2>1, GoingMoves
    <3> QED
      BY <1>3, <1>1, <1>4, <1>7, <2>1, <3>1, AssetStep
  <2>2. CASE ~IsCurrent(u)
    <3>1. Moves(u, "asset", {n}, {}) /\ task'[<<u, "asset">>] = NoTask /\ cacheOf'[n] = "absent"
      BY <1>0, <1>1, <1>3, <1>7, <2>2, DeletingMoves
    <3>2. Settled(u, "asset", {n}, n)
      BY <3>1 DEF Settled
    <3> QED
      BY <1>3, <1>1, <1>4, <1>7, <2>2, <3>1, <3>2, AssetStep
  <2> QED
    BY <2>1, <2>2
<1>8. CASE StoreAsset(u)
  <2> DEFINE r == [t EXCEPT !.step = "stored"]
  <2>1. t.step = "fetch" /\ IsCurrent(u) /\ Putting(u, "asset", r, "partial")
    BY <1>8 DEF StoreAsset
  <2>2. r \in ShellTask /\ r.step = "stored" /\ ~r.find /\ r.kind = "runtime"
    <3>1. t \in ShellTask /\ ~t.find /\ t.kind = "runtime"
      BY <1>2, <2>1
    <3> HIDE DEF t
    <3> QED
      BY <3>1 DEF ShellTask
  <2> HIDE DEF r
  <2>3. /\ Moves(u, "asset", {}, {n})
        /\ task'[<<u, "asset">>].step = "stored" /\ ~task'[<<u, "asset">>].find
        /\ task'[<<u, "asset">>].kind = "runtime"
    <3>1. "partial" \in Contents
      BY DEF Contents
    <3> QED
      BY <1>0, <1>3, <2>1, <2>2, <3>1, PuttingMoves
  <2>4. Fetching(task'[<<u, "asset">>])
    BY <2>3 DEF Fetching
  <2> QED
    BY <1>3, <1>4, <2>1, <2>3, <2>4, AssetStep
<1>9. CASE RuntimeOpened(u)
  <2>1. t.step = "opened" /\ AfterOpen(u)
    BY <1>9 DEF RuntimeOpened
  <2>2. CASE ~IsCurrent(u)
    BY <1>3, <1>7, <2>1, <2>2 DEF AfterOpen
  <2>3. CASE IsCurrent(u)
    <3> DEFINE r == [t EXCEPT !.step = "fetch"]
    <3>1. Going(u, "asset", r)
      BY <2>1, <2>3 DEF AfterOpen
    <3>2. r \in ShellTask /\ Fetching(r)
      <4>1. t \in ShellTask /\ ~t.find /\ t.kind = "runtime"
        BY <1>2, <2>1
      <4> HIDE DEF t
      <4> QED
        BY <4>1 DEF ShellTask, Fetching
    <3> HIDE DEF r
    <3>3. Moves(u, "asset", {}, {}) /\ task'[<<u, "asset">>] = r
      BY <1>0, <3>1, <3>2, GoingMoves
    <3> QED
      BY <1>3, <1>4, <2>1, <2>3, <3>2, <3>3, AssetStep
  <2> QED
    BY <2>2, <2>3
<1>10. CASE AssetServed(u)
  <2>1. t.step = "fetch" /\ Going(u, "asset", NoTask)
    BY <1>10 DEF AssetServed
  <2>2. Moves(u, "asset", {}, {}) /\ task'[<<u, "asset">>] = NoTask /\ cacheOf' = cacheOf
    BY <1>0, <1>1, <2>1, GoingMoves
  <2>3. Settled(u, "asset", {}, n)
    BY <2>1, <2>2 DEF Settled, Owes, Makes, Keeps
  <2> QED
    BY <1>1, <1>3, <1>4, <2>1, <2>2, <2>3, AssetStep
<1>11. CASE AssetMatched(u)
  <2>1. PICK r \in {NoTask, NotFound(u, "asset")} : t.step = "match" /\ Going(u, "asset", r)
    BY <1>11 DEF AssetMatched
  <2>2. r \in ShellTask /\ (r.step = "idle" \/ Fetching(r))
    BY <1>1, <2>1, NotFoundIs
  <2>3. Moves(u, "asset", {}, {}) /\ task'[<<u, "asset">>] = r /\ cacheOf' = cacheOf
    BY <1>0, <2>1, <2>2, GoingMoves
  <2>4. Settled(u, "asset", {}, n)
    BY <2>1, <2>3 DEF Settled, Owes, Makes, Keeps
  <2> QED
    BY <1>3, <1>4, <2>1, <2>2, <2>3, <2>4, AssetStep
<1>12. CASE AssetStored(u)
  BY <1>3, <1>7, <1>12 DEF AssetStored
<1> QED
  BY <1>5, <1>6, <1>8, <1>9, <1>10, <1>11, <1>12

-----------------------------------------------------------------------------
(* The surroundings, and the life of a worker. *)

(* The surroundings: nothing but the page, or nothing that a handler looks at. *)
LEMMA PageKeeps ==
    ASSUME ShellInv, ShellTypeOK', UNCHANGED <<cacheOf, worker, task, killed>>,
           page' = page \/ page'.proof = "none"
    PROVE  ShellInv'
<1>1. WorkersInv' /\ HandlersInv' /\ OthersIdle'
  <2>1. WorkersInv' /\ OthersIdle'
    BY DEF ShellInv, WorkersInv, OthersIdle, InCharge, Live, BuildOf, Busy
  <2>2. HandlersInv'
    BY DEF ShellInv, HandlersInv, LifeShape, FetchShape, Finding, Repairing, Fetching
  <2> QED
    BY <2>1, <2>2
<1>2. AttachedInv' /\ RetireInv'
  <2>1. AttachedInv'
    BY DEF ShellInv, AttachedInv, AttachedOf, Named, BuildOf
  <2>2. \A w \in Worker : /\ BuildOf(w)' = BuildOf(w) /\ (Swept(w)' <=> Swept(w)) /\ Listed(w)' = Listed(w)
    BY DEF BuildOf, Swept, Listed
  <2>3. Visible' = Visible
    BY DEF Visible
  <2>4. \A c \in Visible : Owed(c) => Owed(c)'
    BY DEF Owed, Owes, Makes, Keeps, BuildOf
  <2>5. RetireInv'
    BY <2>2, <2>3, <2>4 DEF ShellInv, RetireInv
  <2> QED
    BY <2>1, <2>5
<1>3. ProofInv'
  BY DEF ShellInv, ProofInv, ProofOf, Ready, FindsReady, Named, BuildOf
<1> QED
  BY <1>1, <1>2, <1>3 DEF ShellInv

LEMMA SurroundingsKeep ==
    ASSUME ShellInv, DeployBuild \/ LoadPage \/ PageTimesOut
    PROVE  ShellInv'
<1>1. ShellTypeOK /\ deploys \in 0..MaxDeploys /\ MaxDeploys \in Nat
  BY ShellAssumption DEF ShellInv, ShellTypeOK
<1>2. CASE DeployBuild
  <2>1. deploys' \in 0..MaxDeploys
    BY <1>1, <1>2 DEF DeployBuild
  <2>2. ShellTypeOK'
    BY <1>1, <1>2, <2>1 DEF DeployBuild, ShellTypeOK
  <2> QED
    BY <1>2, <2>2, PageKeeps DEF DeployBuild
<1>3. CASE LoadPage
  <2>1. page' \in [build : ShellBuild, proof : {"none", "asking", "ready"}] /\ page'.proof = "none"
    BY <1>1, <1>3 DEF LoadPage, ShellTypeOK
  <2>2. ShellTypeOK'
    BY <1>1, <1>3, <2>1 DEF LoadPage, Surroundings, ShellTypeOK
  <2> QED
    BY <1>3, <2>1, <2>2, PageKeeps DEF LoadPage, Surroundings
<1>4. CASE PageTimesOut
  <2>1. page' \in [build : ShellBuild, proof : {"none", "asking", "ready"}] /\ page'.proof = "none"
    BY <1>1, <1>4 DEF PageTimesOut, ShellTypeOK
  <2>2. ShellTypeOK'
    BY <1>1, <1>4, <2>1 DEF PageTimesOut, Surroundings, ShellTypeOK
  <2> QED
    BY <1>4, <2>1, <2>2, PageKeeps DEF PageTimesOut, Surroundings
<1> QED
  BY <1>2, <1>3, <1>4

(* A ready cache is damaged while nobody checks or repairs one. *)
LEMMA DamageKeeps ==
    ASSUME ShellInv, Damage
    PROVE  ShellInv'
<1>0. ShellTypeOK /\ UNCHANGED <<served, deploys, worker, task, killed>>
  BY DEF ShellInv, Damage
<1>1. PICK c \in CacheName : cacheOf[c] = "ready" /\ cacheOf' = [cacheOf EXCEPT ![c] = "partial"]
  BY DEF Damage
<1>2. /\ cacheOf' \in [CacheName -> Contents]
      /\ \A d \in CacheName : d # c => cacheOf'[d] = cacheOf[d]
      /\ cacheOf'[c] = "partial"
  BY <1>0, <1>1 DEF ShellTypeOK, Contents
<1>3. /\ page' \in [build : ShellBuild, proof : {"none", "asking", "ready"}]
      /\ page'.build = page.build /\ page'.proof # "ready"
      /\ page'.proof # "none" => page.proof # "none"
  BY <1>0 DEF Damage, ShellTypeOK
<1>4. ShellTypeOK'
  <2>1. shellFaults' \in 0..MaxShellFaults
    BY <1>0, ShellAssumption DEF Damage, ShellTypeOK
  <2> QED
    BY <1>0, <1>2, <1>3, <2>1 DEF ShellTypeOK
<1>5. WorkersInv' /\ HandlersInv' /\ OthersIdle'
  <2>1. WorkersInv'
    BY <1>0 DEF ShellInv, WorkersInv, InCharge, Live, BuildOf
  <2>2. HandlersInv'
    BY <1>0 DEF ShellInv, HandlersInv, LifeShape, FetchShape, Finding, Repairing, Fetching
  <2>3. OthersIdle'
    BY <1>0 DEF ShellInv, OthersIdle, InCharge, BuildOf, Busy
  <2> QED
    BY <2>1, <2>2, <2>3
<1>6. AttachedInv'
  <2>1. \A w \in Worker, h \in Ensures : task[<<w, h>>].step = "idle"
    BY DEF Damage
  <2>2. \A w \in Worker : task[<<w, "ensure">>].step = "idle"
    BY <2>1 DEF Ensures
  <2> QED
    BY <1>0, <2>2 DEF AttachedInv, AttachedOf
<1>7. ProofInv'
  BY <1>0, <1>3 DEF ShellInv, ProofInv, BuildOf
<1>8. RetireInv'
  <2> SUFFICES ASSUME ~killed, NEW w \in Worker, Swept(w)', \A v \in Worker : worker[v].state # "installed",
                      NEW d \in Visible', d[2] # BuildOf(w)'
               PROVE  (d \in Listed(w) \/ Owed(d))'
    BY <1>0 DEF RetireInv
  <2>1. /\ Swept(w) /\ BuildOf(w)' = BuildOf(w) /\ Listed(w)' = Listed(w)
        /\ d \in CacheName /\ cacheOf'[d] # "absent"
    BY <1>0 DEF Swept, BuildOf, Listed, Visible
  <2>2. d \in Visible
    BY <1>1, <1>2, <2>1 DEF Visible
  <2>3. d \in Listed(w) \/ Owed(d)
    BY <2>1, <2>2 DEF ShellInv, RetireInv
  <2>4. ASSUME NEW v \in Worker, NEW g \in Handler, Owes(v, g, d) PROVE Owes(v, g, d)'
    <3>1. (Makes(v, g, d)' <=> Makes(v, g, d)) /\ (Keeps(v, g, d)' <=> Keeps(v, g, d))
      BY <1>0 DEF Makes, Keeps, BuildOf
    <3> QED
      BY <1>1, <1>2, <2>1, <2>4, <3>1 DEF Owes
  <2> QED
    BY <2>1, <2>3, <2>4 DEF Owed
<1> QED
  BY <1>4, <1>5, <1>6, <1>7, <1>8 DEF ShellInv

(* A worker gets another state. *)
LEMMA StateOfOne ==
    ASSUME ShellTypeOK, NEW u \in Worker,
           NEW s \in {"none", "installing", "installed", "activating", "active", "redundant"},
           worker' = [worker EXCEPT ![u].state = s]
    PROVE  /\ worker' \in [Worker -> [state : {"none", "installing", "installed", "activating",
                                               "active", "redundant"}, build : ShellBuild]]
           /\ worker'[u].state = s
           /\ \A v \in Worker : BuildOf(v)' = BuildOf(v) /\ (v # u => worker'[v] = worker[v])
BY DEF ShellTypeOK, BuildOf

(* A worker that is not in charge moves: its build has no worker in charge. *)
LEMMA InChargeIsAway ==
    ASSUME ShellInv, NEW u \in Worker, worker[u].state = "installing", NEW w \in InCharge
    PROVE  BuildOf(w) # BuildOf(u) /\ w # u
BY DEF ShellInv, WorkersInv, Live, InCharge

LEMMA RegisterKeeps ==
    ASSUME ShellInv, NEW u \in Worker, Register(u)
    PROVE  ShellInv'
<1> DEFINE r == [NoTask EXCEPT !.step = "open"]
           n == [state |-> "installing", build |-> page.build]
<1>0. ShellTypeOK
  BY DEF ShellInv
<1>1. r \in ShellTask /\ r.step = "open" /\ ~r.find /\ r.kind = "shell"
  BY TaskValues
<1>2. /\ worker[u].state = "none"
      /\ \A v \in Worker : worker[v].state # "installing"
      /\ \A v \in Worker : worker[v].state \in {"installed", "activating", "active"} => BuildOf(v) # page.build
      /\ worker' = [worker EXCEPT ![u] = n]
      /\ Going(u, "life", r)
      /\ UNCHANGED <<served, deploys, shellFaults, killed, page>>
  BY DEF Register, Rest, Surroundings, Going
<1> HIDE DEF r
<1>3. Moves(u, "life", {}, {}) /\ task'[<<u, "life">>] = r /\ cacheOf' = cacheOf
  BY <1>0, <1>1, <1>2, GoingMoves DEF Handler
<1>4. /\ n \in [state : {"none", "installing", "installed", "activating", "active", "redundant"},
                build : ShellBuild]
      /\ n.state = "installing" /\ n.build = page.build
  BY <1>0 DEF ShellTypeOK
<1> HIDE DEF n
<1>5. /\ worker' \in [Worker -> [state : {"none", "installing", "installed", "activating",
                                          "active", "redundant"}, build : ShellBuild]]
      /\ worker'[u].state = "installing" /\ BuildOf(u)' = page.build
      /\ \A v \in Worker : v # u => worker'[v] = worker[v] /\ BuildOf(v)' = BuildOf(v)
  BY <1>0, <1>2, <1>4 DEF ShellTypeOK, BuildOf
<1>6. ShellTypeOK'
  BY <1>0, <1>2, <1>3, <1>5 DEF ShellTypeOK, Moves
<1>7. \A v \in Worker, g \in Handler : v # u \/ g # "life" => task'[<<v, g>>] = task[<<v, g>>]
  BY <1>3 DEF Moves
<1>8. InCharge' = InCharge /\ u \notin InCharge
  BY <1>2, <1>5 DEF InCharge
<1>9. WorkersInv'
  <2>1. \A v \in Worker : v # u /\ Live(v)' => Live(v) /\ BuildOf(v)' # page.build
    BY <1>2, <1>5 DEF Live
  <2>2. ASSUME NEW v \in Worker, NEW w \in Worker, Live(v)', Live(w)', BuildOf(v)' = BuildOf(w)'
        PROVE  v = w
    BY <1>5, <2>1, <2>2 DEF ShellInv, WorkersInv
  <2> QED
    BY <1>8, <2>2 DEF ShellInv, WorkersInv
<1>10. HandlersInv'
  <2>1. LifeShape(u)'
    BY <1>1, <1>3, <1>5 DEF LifeShape
  <2>2. FetchShape(u)'
    BY <1>2, <1>7 DEF ShellInv, HandlersInv, FetchShape, Handler
  <2>3. ASSUME NEW v \in Worker, v # u PROVE LifeShape(v)' /\ FetchShape(v)'
    <3>1. LifeShape(v) /\ FetchShape(v)
      BY DEF ShellInv, HandlersInv
    <3>2. LifeShape(v)'
      BY <1>5, <1>7, <2>3, <3>1 DEF LifeShape, Handler
    <3>3. FetchShape(v)'
      BY <1>5, <1>7, <2>3, <3>1 DEF FetchShape, Finding, Repairing, Fetching, Handler
    <3> QED
      BY <3>2, <3>3
  <2> QED
    BY <2>1, <2>2, <2>3 DEF HandlersInv
<1>11. OthersIdle'
  <2> SUFFICES ASSUME NEW w \in InCharge', NEW v \in Worker, v # w, BuildOf(v)' = BuildOf(w)'
               PROVE  ~Busy(v)'
    BY DEF OthersIdle
  <2>1. w \in InCharge /\ w # u /\ BuildOf(w)' = BuildOf(w) /\ BuildOf(w) # page.build
    BY <1>2, <1>5, <1>8 DEF InCharge
  <2>2. v # u
    BY <1>5, <2>1
  <2>3. ~Busy(v)
    BY <1>5, <2>1, <2>2 DEF ShellInv, OthersIdle
  <2> QED
    BY <1>7, <2>2, <2>3 DEF Busy
<1>12. \A v \in Worker : worker'[v].state = "active" => v # u /\ worker[v].state = "active"
  BY <1>5
<1>13. AttachedInv'
  <2> SUFFICES ASSUME NEW w \in Worker, worker'[w].state = "active" PROVE AttachedOf(w)'
    BY DEF AttachedInv
  <2>1. AttachedOf(w) /\ task'[<<w, "ensure">>] = task[<<w, "ensure">>] /\ BuildOf(w)' = BuildOf(w)
    BY <1>5, <1>7, <1>12 DEF ShellInv, AttachedInv, Handler
  <2> QED
    BY <1>3, <2>1 DEF AttachedOf, Named
<1>14. ProofInv'
  <2>1. page.proof # "none" => \E w \in Worker : (worker[w].state = "active" /\ BuildOf(w) = page.build)'
    BY <1>2, <1>5 DEF ShellInv, ProofInv
  <2>2. ASSUME NEW w \in Worker, page.proof = "ready", worker'[w].state = "active", BuildOf(w)' = page.build
        PROVE  ProofOf(w)'
    <3>1. ProofOf(w) /\ task'[<<w, "ensure">>] = task[<<w, "ensure">>] /\ BuildOf(w)' = BuildOf(w)
      BY <1>5, <1>7, <1>12, <2>2 DEF ShellInv, ProofInv, Handler
    <3>2. Ready(page.build)'
      BY <1>2, <1>3, <3>1 DEF ProofOf, Ready
    <3> QED
      BY <1>3, <3>1, <3>2 DEF ProofOf, FindsReady, Named
  <2> QED
    BY <1>2, <2>1, <2>2 DEF ProofInv
<1>15. RetireInv'
  <2> SUFFICES ASSUME ~killed, NEW w \in Worker, Swept(w)', \A v \in Worker : worker'[v].state # "installed",
                      NEW c \in Visible', c[2] # BuildOf(w)'
               PROVE  (c \in Listed(w) \/ Owed(c))'
    BY <1>2 DEF RetireInv
  <2>1. w # u /\ worker'[w] = worker[w] /\ BuildOf(w)' = BuildOf(w)
    BY <1>5 DEF Swept
  <2>2. Swept(w) /\ Listed(w)' = Listed(w)
    BY <1>7, <2>1 DEF Swept, Listed, Handler
  <2>3. \A v \in Worker : worker[v].state # "installed"
    BY <1>2, <1>5
  <2>4. c \in CacheName /\ c \in Visible
    BY <1>3 DEF Visible
  <2>5. c \in Listed(w) \/ Owed(c)
    BY <2>1, <2>2, <2>3, <2>4 DEF ShellInv, RetireInv
  <2>6. ASSUME NEW v \in Worker, NEW g \in Handler, Owes(v, g, c) PROVE Owed(c)'
    <3>1. v # u
      <4>1. /\ task[<<u, g>>].step = "idle" /\ worker[u].state # "installing"
        <5>1. LifeShape(u) /\ FetchShape(u)
          BY DEF ShellInv, HandlersInv
        <5> QED
          BY <1>2, <5>1 DEF LifeShape, FetchShape, Handler
      <4> QED
        BY <2>6, <4>1 DEF Owes, Makes, Keeps
    <3>2. worker'[v] = worker[v] /\ cacheOf'[c] = cacheOf[c] /\ "life" \in Handler
      BY <1>3, <1>5, <3>1 DEF Handler
    <3> QED
      BY <1>0, <1>3, <2>4, <2>6, <3>1, <3>2, OwedStays
  <2> QED
    BY <2>2, <2>5, <2>6 DEF Owed
<1> QED
  BY <1>6, <1>9, <1>10, <1>11, <1>13, <1>14, <1>15 DEF ShellInv

(* An install that fails takes away what its build had stored. *)
LEMMA InstallFailsKeeps ==
    ASSUME ShellInv, NEW u \in Worker, InstallFails(u)
    PROVE  ShellInv'
<1>0. ShellTypeOK
  BY DEF ShellInv
<1>1. /\ worker[u].state = "installing" /\ Deleting(u, "life", NoTask, OwnCaches(u))
      /\ worker' = [worker EXCEPT ![u].state = "redundant"]
      /\ UNCHANGED <<served, deploys, shellFaults, killed, page>>
  BY DEF InstallFails, Rest, Surroundings
<1>2. /\ worker' \in [Worker -> [state : {"none", "installing", "installed", "activating",
                                          "active", "redundant"}, build : ShellBuild]]
      /\ worker'[u].state = "redundant"
      /\ \A v \in Worker : BuildOf(v)' = BuildOf(v) /\ (v # u => worker'[v] = worker[v])
  BY <1>0, <1>1, StateOfOne
<1>3. OwnCaches(u) \in SUBSET CacheName /\ {} \in SUBSET OwnCaches(u)
  BY <1>0, ShellTypes
<1>4. /\ Moves(u, "life", OwnCaches(u), {}) /\ task'[<<u, "life">>] = NoTask
      /\ \A c \in OwnCaches(u) : cacheOf'[c] = "absent"
  <2>1. NoTask \in ShellTask /\ "life" \in Handler
    BY TaskValues DEF Handler
  <2> QED
    BY <1>0, <1>1, <1>3, <2>1, DeletingMoves
<1>5. ShellTypeOK'
  BY <1>0, <1>1, <1>2, <1>4 DEF ShellTypeOK, Moves
<1>6. InCharge' = InCharge /\ \A v \in Worker : Live(v)' => Live(v)
  BY <1>1, <1>2 DEF InCharge, Live
<1>7. WorkersInv'
  BY <1>2, <1>6 DEF ShellInv, WorkersInv
<1>8. \A w \in InCharge : BuildOf(w) # BuildOf(u) /\ w # u
  BY <1>1, InChargeIsAway
<1>9. /\ \A v \in Worker, g \in Handler : BuildOf(v) # BuildOf(u) => task'[<<v, g>>] = task[<<v, g>>]
      /\ \A c \in CacheName : c[2] # BuildOf(u) => cacheOf'[c] = cacheOf[c]
  BY <1>0, <1>3, <1>4, AwayStays DEF Handler
<1>10. \A v \in Worker, g \in Handler : v # u \/ g # "life" =>
         /\ task'[<<v, g>>].step = task[<<v, g>>].step /\ task'[<<v, g>>].find = task[<<v, g>>].find
         /\ task'[<<v, g>>].kind = task[<<v, g>>].kind
  BY <1>4 DEF Moves
<1>11. HandlersInv'
  <2>1. LifeShape(u)'
    BY <1>2, <1>4, TaskValues DEF LifeShape
  <2>2. FetchShape(u)'
    <3>1. FetchShape(u)
      BY DEF ShellInv, HandlersInv
    <3> QED
      BY <1>1, <1>2, <1>10, <3>1 DEF FetchShape, Handler
  <2>3. ASSUME NEW v \in Worker, v # u PROVE LifeShape(v)' /\ FetchShape(v)'
    <3>1. LifeShape(v) /\ FetchShape(v)
      BY DEF ShellInv, HandlersInv
    <3>2. LifeShape(v)'
      BY <1>2, <1>10, <2>3, <3>1 DEF LifeShape, Handler
    <3>3. FetchShape(v)'
      BY <1>2, <1>10, <2>3, <3>1 DEF FetchShape, Finding, Repairing, Fetching, Handler
    <3> QED
      BY <3>2, <3>3
  <2> QED
    BY <2>1, <2>2, <2>3 DEF HandlersInv
<1>12. OthersIdle'
  <2> SUFFICES ASSUME NEW w \in InCharge', NEW v \in Worker, v # w, BuildOf(v)' = BuildOf(w)'
               PROVE  ~Busy(v)'
    BY DEF OthersIdle
  <2>1. w \in InCharge /\ BuildOf(v) = BuildOf(w)
    BY <1>2, <1>6 DEF InCharge
  <2>2. v # u /\ ~Busy(v)
    BY <1>8, <2>1 DEF ShellInv, OthersIdle, InCharge
  <2> QED
    BY <1>10, <2>2 DEF Busy
<1>13. ASSUME NEW w \in Worker, worker'[w].state = "active"
       PROVE  /\ worker[w].state = "active" /\ BuildOf(w) # BuildOf(u)
              /\ task'[<<w, "ensure">>] = task[<<w, "ensure">>]
              /\ \A k \in CacheKind : /\ Named(w, k)' = Named(w, k) /\ Named(w, k) = <<k, BuildOf(w)>>
                                      /\ cacheOf'[<<k, BuildOf(w)>>] = cacheOf[<<k, BuildOf(w)>>]
  <2>1. worker[w].state = "active" /\ w \in InCharge
    BY <1>2, <1>13 DEF InCharge
  <2>2. BuildOf(w) # BuildOf(u) /\ BuildOf(w)' = BuildOf(w)
    BY <1>2, <1>8, <2>1
  <2>3. \A k \in CacheKind : <<k, BuildOf(w)>> \in CacheName /\ <<k, BuildOf(w)>>[2] = BuildOf(w)
    BY <1>0, ShellTypes
  <2> QED
    BY <1>9, <2>1, <2>2, <2>3 DEF Named, Handler
<1>14. AttachedInv'
  <2> SUFFICES ASSUME NEW w \in Worker, worker'[w].state = "active" PROVE AttachedOf(w)'
    BY DEF AttachedInv
  <2>1. AttachedOf(w)
    BY <1>13 DEF ShellInv, AttachedInv
  <2> QED
    BY <1>13, <2>1 DEF AttachedOf, CacheKind
<1>15. ProofInv'
  <2>1. page.proof # "none" => \E w \in Worker : (worker[w].state = "active" /\ BuildOf(w) = page.build)'
    BY <1>1, <1>2 DEF ShellInv, ProofInv
  <2>2. ASSUME NEW w \in Worker, page.proof = "ready", worker'[w].state = "active", BuildOf(w)' = page.build
        PROVE  ProofOf(w)'
    <3>1. ProofOf(w) /\ BuildOf(w) = page.build
      BY <1>2, <1>13, <2>2 DEF ShellInv, ProofInv
    <3>2. Ready(page.build)'
      BY <1>1, <1>13, <2>2, <3>1 DEF ProofOf, Ready, CacheKind
    <3>3. task[<<w, "ensure">>].kind \in CacheKind
      BY <1>0, ShellTypes DEF Handler
    <3>4. /\ task'[<<w, "ensure">>] = task[<<w, "ensure">>]
          /\ \A k \in CacheKind : Named(w, k)' = Named(w, k) /\ cacheOf'[Named(w, k)] = cacheOf[Named(w, k)]
      BY <1>13, <2>2
    <3>5. FindsReady(w) => FindsReady(w)'
      BY <3>3, <3>4 DEF FindsReady, CacheKind
    <3> QED
      BY <3>1, <3>2, <3>4, <3>5 DEF ProofOf
  <2> QED
    BY <1>1, <2>1, <2>2 DEF ProofInv
<1>16. RetireInv'
  <2> SUFFICES ASSUME ~killed, NEW w \in Worker, Swept(w)', \A v \in Worker : worker'[v].state # "installed",
                      NEW c \in Visible', c[2] # BuildOf(w)'
               PROVE  (c \in Listed(w) \/ Owed(c))'
    BY <1>1 DEF RetireInv
  <2>1. w # u /\ worker'[w] = worker[w] /\ BuildOf(w)' = BuildOf(w)
    BY <1>2 DEF Swept
  <2>2. Swept(w) /\ Listed(w)' = Listed(w)
    <3>1. task'[<<w, "life">>].step = task[<<w, "life">>].step
          /\ task'[<<w, "life">>].names = task[<<w, "life">>].names
      BY <1>4, <2>1 DEF Moves, Handler
    <3> QED
      BY <2>1, <3>1 DEF Swept, Listed
  <2>3. \A v \in Worker : worker[v].state # "installed"
    BY <1>1, <1>2
  <2>4. c \in CacheName /\ c \notin OwnCaches(u) /\ c[2] # BuildOf(u) /\ cacheOf'[c] = cacheOf[c] /\ c \in Visible
    <3>1. c \in CacheName /\ cacheOf'[c] # "absent"
      BY DEF Visible
    <3>2. c \notin OwnCaches(u)
      BY <1>4, <3>1
    <3>3. c[2] # BuildOf(u)
      BY <3>1, <3>2, OwnNames
    <3> QED
      BY <1>9, <3>1, <3>2, <3>3 DEF Visible
  <2>5. c \in Listed(w) \/ Owed(c)
    BY <2>1, <2>2, <2>3, <2>4 DEF ShellInv, RetireInv
  <2>6. ASSUME NEW v \in Worker, NEW g \in Handler, Owes(v, g, c) PROVE Owed(c)'
    <3>1. v # u
      BY <2>4, <2>6 DEF Owes, Makes, Keeps
    <3>2. worker'[v] = worker[v] /\ "life" \in Handler
      BY <1>2, <3>1 DEF Handler
    <3> QED
      BY <1>0, <1>4, <2>4, <2>6, <3>1, <3>2, OwedStays
  <2> QED
    BY <2>2, <2>5, <2>6 DEF Owed
<1> QED
  BY <1>5, <1>7, <1>11, <1>12, <1>14, <1>15, <1>16 DEF ShellInv

(* The worker that is installed waits until everybody else has left. *)
LEMMA InstalledKeeps ==
    ASSUME ShellInv, NEW u \in Worker, Installed(u)
    PROVE  ShellInv'
<1>0. ShellTypeOK
  BY DEF ShellInv
<1>1. /\ worker[u].state = "installing" /\ Going(u, "life", NoTask)
      /\ worker' = [v \in Worker |->
           IF v = u THEN [worker[v] EXCEPT !.state = "installed"]
           ELSE IF worker[v].state = "installed" THEN [worker[v] EXCEPT !.state = "redundant"]
           ELSE worker[v]]
      /\ UNCHANGED <<served, deploys, shellFaults, killed, page>>
  BY DEF Installed, Rest, Surroundings
<1>2. /\ worker' \in [Worker -> [state : {"none", "installing", "installed", "activating",
                                          "active", "redundant"}, build : ShellBuild]]
      /\ worker'[u].state = "installed"
      /\ \A v \in Worker : BuildOf(v)' = BuildOf(v)
      /\ \A v \in Worker : v # u => worker'[v].state = IF worker[v].state = "installed" THEN "redundant"
                                                       ELSE worker[v].state
  BY <1>0, <1>1 DEF ShellTypeOK, BuildOf
<1>3. Moves(u, "life", {}, {}) /\ task'[<<u, "life">>] = NoTask /\ cacheOf' = cacheOf
  BY <1>0, <1>1, TaskValues, GoingMoves DEF Handler
<1>4. \A v \in Worker, g \in Handler : v # u \/ g # "life" => task'[<<v, g>>] = task[<<v, g>>]
  BY <1>3 DEF Moves
<1>5. ShellTypeOK'
  BY <1>0, <1>1, <1>2, <1>3 DEF ShellTypeOK, Moves
<1>6. InCharge' = InCharge /\ \A v \in Worker : Live(v)' => Live(v)
  BY <1>1, <1>2 DEF InCharge, Live
<1>7. WorkersInv'
  BY <1>2, <1>6 DEF ShellInv, WorkersInv
<1>8. HandlersInv'
  <2>1. LifeShape(u)'
    BY <1>2, <1>3, TaskValues DEF LifeShape
  <2>2. FetchShape(u)'
    <3>1. FetchShape(u)
      BY DEF ShellInv, HandlersInv
    <3> QED
      BY <1>1, <1>2, <1>4, <3>1 DEF FetchShape, Handler
  <2>3. ASSUME NEW v \in Worker, v # u PROVE LifeShape(v)' /\ FetchShape(v)'
    <3>1. LifeShape(v) /\ FetchShape(v)
      BY DEF ShellInv, HandlersInv
    <3>2. LifeShape(v)'
      BY <1>2, <1>4, <2>3, <3>1 DEF LifeShape, Handler
    <3>3. FetchShape(v)'
      BY <1>2, <1>4, <2>3, <3>1 DEF FetchShape, Finding, Repairing, Fetching, Handler
    <3> QED
      BY <3>2, <3>3
  <2> QED
    BY <2>1, <2>2, <2>3 DEF HandlersInv
<1>9. OthersIdle'
  <2>1. \A v \in Worker : Busy(v)' => Busy(v)
    <3>1. NoTask.step = "idle"
      BY TaskValues
    <3>2. \A v \in Worker, g \in Handler : task'[<<v, g>>].step # "idle" => task[<<v, g>>].step # "idle"
      BY <1>3, <1>4, <3>1
    <3> QED
      BY <3>2 DEF Busy
  <2> SUFFICES ASSUME NEW w \in InCharge', NEW v \in Worker, v # w, BuildOf(v)' = BuildOf(w)'
               PROVE  ~Busy(v)'
    BY DEF OthersIdle
  <2>2. w \in InCharge /\ w \in Worker /\ BuildOf(v) = BuildOf(w)
    BY <1>2, <1>6 DEF InCharge
  <2> QED
    BY <2>1, <2>2 DEF ShellInv, OthersIdle
<1>10. ASSUME NEW w \in Worker, worker'[w].state = "active"
       PROVE  /\ worker[w].state = "active" /\ BuildOf(w)' = BuildOf(w)
              /\ task'[<<w, "ensure">>] = task[<<w, "ensure">>]
  BY <1>2, <1>4, <1>10 DEF Handler
<1>11. AttachedInv'
  BY <1>3, <1>10 DEF ShellInv, AttachedInv, AttachedOf, Named
<1>12. ProofInv'
  <2>1. page.proof # "none" => \E w \in Worker : (worker[w].state = "active" /\ BuildOf(w) = page.build)'
    BY <1>1, <1>2 DEF ShellInv, ProofInv
  <2>2. ASSUME NEW w \in Worker, page.proof = "ready", worker'[w].state = "active", BuildOf(w)' = page.build
        PROVE  ProofOf(w)'
    <3>1. ProofOf(w)
      BY <1>10, <2>2 DEF ShellInv, ProofInv
    <3>2. Ready(page.build)'
      BY <1>1, <1>3, <3>1 DEF ProofOf, Ready
    <3> QED
      BY <1>3, <1>10, <2>2, <3>1, <3>2 DEF ProofOf, FindsReady, Named
  <2> QED
    BY <1>1, <2>1, <2>2 DEF ProofInv
<1>13. RetireInv'
  BY <1>2 DEF RetireInv
<1> QED
  BY <1>5, <1>7, <1>8, <1>9, <1>11, <1>12, <1>13 DEF ShellInv

(* A worker takes charge, and the one before it has to leave. *)
LEMMA ActivateKeeps ==
    ASSUME ShellInv, NEW u \in Worker, Activate(u)
    PROVE  ShellInv'
<1> DEFINE r == [NoTask EXCEPT !.step = "names"]
<1>0. ShellTypeOK
  BY DEF ShellInv
<1>1. /\ worker[u].state = "installed"
      /\ \A v \in Worker : worker[v].state # "activating" /\ (worker[v].state = "redundant" => ~Busy(v))
      /\ worker' = [v \in Worker |->
           IF v = u THEN [worker[v] EXCEPT !.state = "activating"]
           ELSE IF worker[v].state = "active" THEN [worker[v] EXCEPT !.state = "redundant"]
           ELSE worker[v]]
      /\ Going(u, "life", r)
      /\ page' = [page EXCEPT !.proof = "none"]
      /\ UNCHANGED <<served, deploys, shellFaults, killed>>
  BY DEF Activate, Surroundings, Going
<1>2. /\ worker' \in [Worker -> [state : {"none", "installing", "installed", "activating",
                                          "active", "redundant"}, build : ShellBuild]]
      /\ worker'[u].state = "activating"
      /\ \A v \in Worker : BuildOf(v)' = BuildOf(v)
      /\ \A v \in Worker : v # u => worker'[v].state = IF worker[v].state = "active" THEN "redundant"
                                                       ELSE worker[v].state
  BY <1>0, <1>1 DEF ShellTypeOK, BuildOf
<1>3. r \in ShellTask /\ r.step = "names" /\ ~r.find /\ r.kind = "shell"
  BY TaskValues
<1> HIDE DEF r
<1>4. Moves(u, "life", {}, {}) /\ task'[<<u, "life">>] = r /\ cacheOf' = cacheOf
  BY <1>0, <1>1, <1>3, GoingMoves DEF Handler
<1>5. \A v \in Worker, g \in Handler : v # u \/ g # "life" => task'[<<v, g>>] = task[<<v, g>>]
  BY <1>4 DEF Moves
<1>6. page' \in [build : ShellBuild, proof : {"none", "asking", "ready"}] /\ page'.proof = "none"
  BY <1>0, <1>1 DEF ShellTypeOK
<1>7. ShellTypeOK'
  BY <1>0, <1>1, <1>2, <1>4, <1>6 DEF ShellTypeOK, Moves
<1>8. InCharge' = {u} /\ \A v \in Worker : Live(v)' => Live(v)
  BY <1>1, <1>2 DEF InCharge, Live
<1>9. WorkersInv'
  BY <1>2, <1>8 DEF ShellInv, WorkersInv
<1>10. HandlersInv'
  <2>1. LifeShape(u)'
    BY <1>2, <1>3, <1>4 DEF LifeShape
  <2>2. FetchShape(u)'
    <3>1. FetchShape(u)
      BY DEF ShellInv, HandlersInv
    <3> QED
      BY <1>1, <1>2, <1>5, <3>1 DEF FetchShape, Handler
  <2>3. ASSUME NEW v \in Worker, v # u PROVE LifeShape(v)' /\ FetchShape(v)'
    <3>1. LifeShape(v) /\ FetchShape(v)
      BY DEF ShellInv, HandlersInv
    <3>2. LifeShape(v)'
      BY <1>2, <1>5, <2>3, <3>1 DEF LifeShape, Handler
    <3>3. FetchShape(v)'
      BY <1>2, <1>5, <2>3, <3>1 DEF FetchShape, Finding, Repairing, Fetching, Handler
    <3> QED
      BY <3>2, <3>3
  <2> QED
    BY <2>1, <2>2, <2>3 DEF HandlersInv
<1>11. OthersIdle'
  <2> SUFFICES ASSUME NEW v \in Worker, v # u, BuildOf(v)' = BuildOf(u)' PROVE ~Busy(v)'
    BY <1>8 DEF OthersIdle
  <2>1. BuildOf(v) = BuildOf(u) /\ Live(u)
    BY <1>1, <1>2 DEF Live
  <2>2. ~Live(v)
    BY <2>1 DEF ShellInv, WorkersInv
  <2>3. worker[v].state \in {"none", "redundant"}
    BY <1>0, <2>2 DEF Live, ShellTypeOK
  <2>4. ~Busy(v)
    <3>1. CASE worker[v].state = "redundant"
      BY <1>1, <3>1
    <3>2. CASE worker[v].state = "none"
      <4>1. LifeShape(v) /\ FetchShape(v)
        BY DEF ShellInv, HandlersInv
      <4> QED
        BY <3>2, <4>1 DEF LifeShape, FetchShape, Busy, Handler
    <3> QED
      BY <2>3, <3>1, <3>2
  <2> QED
    BY <1>5, <2>4 DEF Busy
<1>12. AttachedInv' /\ ProofInv'
  BY <1>2, <1>6 DEF AttachedInv, ProofInv
<1>13. RetireInv'
  <2>1. \A w \in Worker : ~Swept(w)'
    BY <1>1, <1>2, <1>3, <1>4 DEF Swept
  <2> QED
    BY <2>1 DEF RetireInv
<1> QED
  BY <1>7, <1>9, <1>10, <1>11, <1>12, <1>13 DEF ShellInv

(* The worker in charge lists what is not its own. *)
LEMMA RetireNamesKeeps ==
    ASSUME ShellInv, NEW u \in Worker, RetireNames(u)
    PROVE  ShellInv'
<1> DEFINE N == Visible \ OwnCaches(u)
           r == [NoTask EXCEPT !.step = "sweep", !.names = N]
<1>0. ShellTypeOK
  BY DEF ShellInv
<1>1. /\ worker[u].state = "activating" /\ task[<<u, "life">>].step = "names"
      /\ Going(u, "life", r)
      /\ UNCHANGED <<worker, served, deploys, shellFaults, killed, page>>
  BY DEF RetireNames, Rest, Surroundings
<1>2. r \in ShellTask /\ r.step = "sweep" /\ ~r.find /\ r.kind = "shell" /\ r.names = N
  <2>1. N \in SUBSET CacheName
    BY DEF Visible
  <2> HIDE DEF N
  <2> QED
    BY <2>1 DEF NoTask, ShellTask, CacheKind
<1> HIDE DEF r
<1>3. Moves(u, "life", {}, {}) /\ task'[<<u, "life">>] = r /\ cacheOf' = cacheOf
  BY <1>0, <1>1, <1>2, GoingMoves DEF Handler
<1>4. ShellTypeOK'
  BY <1>0, <1>1, <1>3 DEF ShellTypeOK, Moves
<1>5. WorkersInv'
  BY <1>1 DEF ShellInv, WorkersInv, Live, InCharge, BuildOf
<1>6. HandlersInv'
  <2>1. LifeShape(u)'
    BY <1>1, <1>2, <1>3 DEF LifeShape
  <2> QED
    BY <1>1, <1>3, <2>1, ShapesMove DEF ShellInv, Handler
<1>7. Busy(u) /\ {} \in SUBSET OwnCaches(u) /\ "life" \in Handler
  BY <1>1 DEF Busy, Handler
<1>8. OthersIdle'
  BY <1>1, <1>3, <1>7, IdleMove
<1>9. AttachedInv'
  BY <1>1, <1>3, <1>7, AttachedMove
<1>10. ProofInv'
  BY <1>1, <1>3, <1>7, ProofMove
<1>11. RetireInv'
  <2> SUFFICES ASSUME NEW w \in Worker, Swept(w)', NEW c \in Visible', c[2] # BuildOf(w)'
               PROVE  c \in Listed(w)'
    BY DEF RetireInv
  <2>1. w = u
    <3>1. w \in InCharge /\ u \in InCharge
      BY <1>1 DEF Swept, InCharge
    <3> QED
      BY <3>1 DEF ShellInv, WorkersInv
  <2>2. c \in Visible /\ c[2] # BuildOf(u) /\ c \in CacheName
    BY <1>1, <1>3, <2>1 DEF Visible, BuildOf
  <2>3. c \in N
    BY <1>0, <2>2, ShellTypes
  <2> QED
    BY <1>1, <1>2, <1>3, <2>1, <2>3 DEF Listed
<1> QED
  BY <1>4, <1>5, <1>6, <1>8, <1>9, <1>10, <1>11 DEF ShellInv

(* It deletes what it has listed, and is active. *)
LEMMA SweepKeeps ==
    ASSUME ShellInv, NEW u \in Worker, Sweep(u)
    PROVE  ShellInv'
<1>0. ShellTypeOK
  BY DEF ShellInv
<1>1. PICK N \in SUBSET CacheName : N = task[<<u, "life">>].names
  BY <1>0, ShellTypes DEF Handler
<1>2. /\ worker[u].state = "activating" /\ task[<<u, "life">>].step = "sweep"
      /\ Deleting(u, "life", NoTask, N)
      /\ worker' = [worker EXCEPT ![u].state = "active"]
      /\ UNCHANGED <<served, deploys, shellFaults, killed, page>>
  BY <1>1 DEF Sweep, Rest, Surroundings
<1>3. /\ worker' \in [Worker -> [state : {"none", "installing", "installed", "activating",
                                          "active", "redundant"}, build : ShellBuild]]
      /\ worker'[u].state = "active"
      /\ \A v \in Worker : BuildOf(v)' = BuildOf(v) /\ (v # u => worker'[v] = worker[v])
  BY <1>0, <1>2, StateOfOne
<1>4. NoTask \in ShellTask /\ NoTask.step = "idle" /\ ~NoTask.find /\ NoTask.kind = "shell"
      /\ "life" \in Handler
  BY TaskValues DEF Handler
<1>5. /\ Moves(u, "life", N, {}) /\ task'[<<u, "life">>] = NoTask
      /\ \A c \in N : cacheOf'[c] = "absent"
  BY <1>0, <1>2, <1>4, DeletingMoves
<1>6. ShellTypeOK'
  BY <1>0, <1>2, <1>3, <1>5 DEF ShellTypeOK, Moves
<1>7. InCharge' = InCharge /\ (\A v \in Worker : Live(v)' => Live(v)) /\ u \in InCharge
  BY <1>2, <1>3 DEF InCharge, Live
<1>8. WorkersInv'
  BY <1>3, <1>7 DEF ShellInv, WorkersInv
<1>9. \A v \in Worker, g \in Handler : v # u \/ g # "life" =>
         /\ task'[<<v, g>>].step = task[<<v, g>>].step /\ task'[<<v, g>>].find = task[<<v, g>>].find
         /\ task'[<<v, g>>].kind = task[<<v, g>>].kind
  BY <1>5 DEF Moves
<1>10. HandlersInv'
  <2>1. LifeShape(u)'
    BY <1>3, <1>4, <1>5 DEF LifeShape
  <2>2. FetchShape(u)'
    <3>1. FetchShape(u)
      BY DEF ShellInv, HandlersInv
    <3> QED
      BY <1>2, <1>3, <1>9, <3>1 DEF FetchShape, Handler
  <2>3. ASSUME NEW v \in Worker, v # u PROVE LifeShape(v)' /\ FetchShape(v)'
    <3>1. LifeShape(v) /\ FetchShape(v)
      BY DEF ShellInv, HandlersInv
    <3>2. LifeShape(v)'
      BY <1>3, <1>9, <2>3, <3>1 DEF LifeShape, Handler
    <3>3. FetchShape(v)'
      BY <1>3, <1>9, <2>3, <3>1 DEF FetchShape, Finding, Repairing, Fetching, Handler
    <3> QED
      BY <3>2, <3>3
  <2> QED
    BY <2>1, <2>2, <2>3 DEF HandlersInv
<1>11. \A w \in InCharge : w = u
  BY <1>7 DEF ShellInv, WorkersInv
<1>12. OthersIdle'
  <2> SUFFICES ASSUME NEW w \in InCharge', NEW v \in Worker, v # w, BuildOf(v)' = BuildOf(w)'
               PROVE  ~Busy(v)'
    BY DEF OthersIdle
  <2>1. w \in InCharge /\ w = u /\ BuildOf(v) = BuildOf(w)
    BY <1>3, <1>7, <1>11
  <2>2. v # u /\ ~Busy(v)
    BY <2>1 DEF ShellInv, OthersIdle
  <2> QED
    BY <1>9, <2>2 DEF Busy
<1>13. \A w \in Worker : worker[w].state # "active" /\ (worker'[w].state \in {"active", "activating"} => w = u)
  BY <1>2, <1>3, <1>11 DEF InCharge
<1>14. AttachedInv'
  <2>1. task'[<<u, "ensure">>].step = "idle"
    <3>1. FetchShape(u)
      BY DEF ShellInv, HandlersInv
    <3> QED
      BY <1>2, <1>9, <3>1 DEF FetchShape, Handler
  <2> QED
    BY <1>13, <2>1 DEF AttachedInv, AttachedOf
<1>15. ProofInv'
  <2>1. page.proof = "none"
    BY <1>13 DEF ShellInv, ProofInv
  <2> QED
    BY <1>2, <2>1 DEF ProofInv
<1>16. RetireInv'
  <2> SUFFICES ASSUME ~killed, NEW w \in Worker, Swept(w)', \A v \in Worker : worker'[v].state # "installed",
                      NEW c \in Visible', c[2] # BuildOf(w)'
               PROVE  Owed(c)'
    BY <1>2 DEF RetireInv
  <2>1. w = u /\ Swept(u) /\ Listed(u) = N /\ BuildOf(w)' = BuildOf(u)
    BY <1>1, <1>2, <1>3, <1>13 DEF Swept, Listed
  <2>2. \A v \in Worker : worker[v].state # "installed"
    BY <1>2, <1>3
  <2>3. c \in CacheName /\ c \notin N /\ cacheOf'[c] = cacheOf[c] /\ c \in Visible
    <3>1. c \in CacheName /\ cacheOf'[c] # "absent"
      BY DEF Visible
    <3>2. c \notin N
      BY <1>5, <3>1
    <3> QED
      BY <1>5, <3>1, <3>2 DEF Moves, Visible
  <2>4. Owed(c)
    BY <2>1, <2>2, <2>3 DEF ShellInv, RetireInv
  <2>5. PICK v \in Worker, g \in Handler : Owes(v, g, c)
    BY <2>4 DEF Owed
  <2>6. v # u
    BY <2>1, <2>5 DEF Owes, Makes, Keeps
  <2>7. worker'[v] = worker[v]
    BY <1>3, <2>6
  <2> QED
    BY <1>0, <1>4, <1>5, <2>3, <2>5, <2>6, <2>7, OwedStays
<1> QED
  BY <1>6, <1>8, <1>10, <1>12, <1>14, <1>15, <1>16 DEF ShellInv

(* The browser ends a worker, and starts the one in charge again. *)
LEMMA KillWorkerKeeps ==
    ASSUME ShellInv, NEW u \in Worker, KillWorker(u)
    PROVE  ShellInv'
<1> DEFINE s == IF worker[u].state = "installing" THEN "redundant"
                ELSE IF worker[u].state = "activating" THEN "active" ELSE worker[u].state
<1>0. ShellTypeOK
  BY DEF ShellInv
<1>1. /\ worker' = [worker EXCEPT ![u].state = s]
      /\ task' = [x \in Worker \X Handler |-> IF x[1] = u THEN NoTask ELSE task[x]]
      /\ killed' = TRUE /\ UNCHANGED <<served, deploys, cacheOf>>
  BY <1>0 DEF KillWorker, ShellTypeOK
<1>2. NoTask \in ShellTask /\ NoTask.step = "idle" /\ ~NoTask.find /\ NoTask.kind = "shell"
  BY TaskValues
<1>3. s \in {"none", "installing", "installed", "activating", "active", "redundant"}
  BY <1>0 DEF ShellTypeOK
<1>4. /\ worker' \in [Worker -> [state : {"none", "installing", "installed", "activating",
                                          "active", "redundant"}, build : ShellBuild]]
      /\ worker'[u].state = s
      /\ \A v \in Worker : BuildOf(v)' = BuildOf(v) /\ (v # u => worker'[v] = worker[v])
  <2> HIDE DEF s
  <2> QED
    BY <1>0, <1>1, <1>3, StateOfOne
<1>5. /\ task' \in [Worker \X Handler -> ShellTask]
      /\ \A v \in Worker, g \in Handler : task'[<<v, g>>] = IF v = u THEN NoTask ELSE task[<<v, g>>]
  <2>1. task \in [Worker \X Handler -> ShellTask]
    BY <1>0 DEF ShellTypeOK
  <2> HIDE DEF s
  <2> QED
    BY <1>1, <1>2, <2>1
<1>6. /\ page' \in [build : ShellBuild, proof : {"none", "asking", "ready"}]
      /\ page'.proof # "none" => page'.proof = "ready" /\ page.proof = "ready" /\ page'.build = page.build
  BY <1>0 DEF KillWorker, ShellTypeOK
<1>7. ShellTypeOK'
  <2>1. shellFaults' \in 0..MaxShellFaults
    BY <1>0, ShellAssumption DEF KillWorker, ShellTypeOK
  <2> HIDE DEF s
  <2> QED
    BY <1>0, <1>1, <1>4, <1>5, <1>6, <2>1 DEF ShellTypeOK
<1>8. InCharge' = InCharge /\ \A v \in Worker : Live(v)' => Live(v)
  BY <1>4 DEF InCharge, Live
<1>9. WorkersInv'
  BY <1>4, <1>8 DEF ShellInv, WorkersInv
<1>10. HandlersInv'
  <2>1. LifeShape(u)'
    BY <1>2, <1>4, <1>5 DEF LifeShape, Handler
  <2>2. FetchShape(u)'
    BY <1>2, <1>5 DEF FetchShape, Handler
  <2>3. ASSUME NEW v \in Worker, v # u PROVE LifeShape(v)' /\ FetchShape(v)'
    <3>1. LifeShape(v) /\ FetchShape(v)
      BY DEF ShellInv, HandlersInv
    <3>2. LifeShape(v)'
      BY <1>4, <1>5, <2>3, <3>1 DEF LifeShape, Handler
    <3>3. FetchShape(v)'
      BY <1>4, <1>5, <2>3, <3>1 DEF FetchShape, Finding, Repairing, Fetching, Handler
    <3> QED
      BY <3>2, <3>3
  <2> QED
    BY <2>1, <2>2, <2>3 DEF HandlersInv
<1>11. OthersIdle'
  <2>1. \A v \in Worker : Busy(v)' => Busy(v)
    BY <1>2, <1>5 DEF Busy
  <2> SUFFICES ASSUME NEW w \in InCharge', NEW v \in Worker, v # w, BuildOf(v)' = BuildOf(w)'
               PROVE  ~Busy(v)'
    BY DEF OthersIdle
  <2>2. w \in InCharge /\ w \in Worker /\ BuildOf(v) = BuildOf(w)
    BY <1>4, <1>8 DEF InCharge
  <2> QED
    BY <2>1, <2>2 DEF ShellInv, OthersIdle
<1>12. AttachedInv'
  <2> SUFFICES ASSUME NEW w \in Worker, worker'[w].state = "active" PROVE AttachedOf(w)'
    BY DEF AttachedInv
  <2>1. CASE w = u
    BY <1>2, <1>5, <2>1 DEF AttachedOf, Handler
  <2>2. CASE w # u
    <3>1. AttachedOf(w) /\ task'[<<w, "ensure">>] = task[<<w, "ensure">>]
      BY <1>4, <1>5, <2>2 DEF ShellInv, AttachedInv, Handler
    <3> QED
      BY <1>1, <1>4, <3>1 DEF AttachedOf, Named
  <2> QED
    BY <2>1, <2>2
<1>13. ProofInv'
  <2> SUFFICES ASSUME page'.proof # "none"
               PROVE  /\ \E w \in Worker : worker'[w].state = "active" /\ BuildOf(w)' = page'.build
                      /\ \A w \in Worker : worker'[w].state = "active" /\ BuildOf(w)' = page'.build
                           => ProofOf(w)'
    BY DEF ProofInv
  <2>1. page.proof = "ready" /\ page'.build = page.build
    BY <1>6
  <2>2. PICK a \in Worker : worker[a].state = "active" /\ BuildOf(a) = page.build
    BY <2>1 DEF ShellInv, ProofInv
  <2>3. worker'[a].state = "active" /\ BuildOf(a)' = page'.build
    BY <1>4, <2>1, <2>2
  <2>4. Ready(page.build)'
    <3>1. ProofOf(a)
      BY <2>1, <2>2 DEF ShellInv, ProofInv
    <3> QED
      BY <1>1, <2>1, <3>1 DEF ProofOf, Ready
  <2>5. ASSUME NEW w \in Worker, worker'[w].state = "active", BuildOf(w)' = page'.build PROVE ProofOf(w)'
    <3>1. CASE w = u
      BY <1>2, <1>5, <2>4, <3>1 DEF ProofOf, Handler
    <3>2. CASE w # u
      <4>1. ProofOf(w) /\ task'[<<w, "ensure">>] = task[<<w, "ensure">>]
        BY <1>4, <1>5, <2>1, <2>5, <3>2 DEF ShellInv, ProofInv, Handler
      <4>2. FindsReady(w) => FindsReady(w)'
        BY <1>1, <1>4, <4>1 DEF FindsReady, Named
      <4> QED
        BY <2>4, <4>1, <4>2 DEF ProofOf
    <3> QED
      BY <3>1, <3>2
  <2> QED
    BY <2>2, <2>3, <2>5
<1>14. RetireInv'
  BY <1>1 DEF RetireInv
<1> QED
  BY <1>7, <1>9, <1>10, <1>11, <1>12, <1>13, <1>14 DEF ShellInv

-----------------------------------------------------------------------------
(* The offline shell: the theorems. *)

LEMMA ShellInitIsFine ==
    ASSUME ShellInit
    PROVE  ShellInv
<1>1. served \in ShellBuild
  BY ShellAssumption DEF ShellInit
<1>2. NoTask \in ShellTask /\ NoTask.step = "idle" /\ ~NoTask.find /\ NoTask.kind = "shell"
  BY TaskValues
<1>3. ShellTypeOK
  <2>1. served \in ShellBuild /\ cacheOf \in [CacheName -> Contents] /\ killed \in BOOLEAN
    BY <1>1 DEF ShellInit, Contents
  <2>2. worker \in [Worker -> [state : {"none", "installing", "installed", "activating",
                                       "active", "redundant"}, build : ShellBuild]]
        /\ page \in [build : ShellBuild, proof : {"none", "asking", "ready"}]
    BY <1>1 DEF ShellInit
  <2>3. task \in [Worker \X Handler -> ShellTask]
    BY <1>2 DEF ShellInit
  <2>4. deploys \in 0..MaxDeploys /\ shellFaults \in 0..MaxShellFaults
    BY ShellAssumption DEF ShellInit
  <2> QED
    BY <2>1, <2>2, <2>3, <2>4 DEF ShellTypeOK
<1>4. /\ \A w \in Worker : worker[w].state = "none"
      /\ \A w \in Worker, h \in Handler : task[<<w, h>>] = NoTask
      /\ page.proof = "none"
  BY DEF ShellInit
<1>5. InCharge = {} /\ \A w \in Worker : ~Live(w)
  BY <1>4 DEF InCharge, Live
<1>6. HandlersInv
  BY <1>2, <1>4 DEF HandlersInv, LifeShape, FetchShape, Handler
<1>7. WorkersInv /\ OthersIdle /\ AttachedInv /\ ProofInv /\ RetireInv
  BY <1>4, <1>5 DEF WorkersInv, OthersIdle, AttachedInv, ProofInv, RetireInv, Swept
<1> QED
  BY <1>3, <1>6, <1>7 DEF ShellInv

LEMMA ShellStepKeeps ==
    ASSUME ShellInv, [ShellNext]_shellVars
    PROVE  ShellInv'
<1>1. CASE DeployBuild \/ LoadPage \/ PageTimesOut
  BY <1>1, SurroundingsKeep
<1>2. CASE Damage
  BY <1>2, DamageKeeps
<1>3. ASSUME NEW w \in Worker,
             \/ Register(w) \/ InstallFails(w) \/ Installed(w)
             \/ Activate(w) \/ RetireNames(w) \/ Sweep(w) \/ KillWorker(w)
      PROVE  ShellInv'
  BY <1>3, RegisterKeeps, InstallFailsKeeps, InstalledKeeps, ActivateKeeps, RetireNamesKeeps, SweepKeeps,
     KillWorkerKeeps
<1>4. ASSUME NEW w \in Worker, ShellRequest(w) \/ PageAsks(w)
      PROVE  ShellInv'
  <2>1. worker[w].state = "active"
    BY <1>4 DEF ShellRequest, PageAsks, Ensure
  <2>2. UNCHANGED <<worker, served, deploys, shellFaults, killed>>
    BY <1>4 DEF ShellRequest, PageAsks, Rest, Surroundings
  <2>3. Ensure(w) \/ UNCHANGED <<task, cacheOf>>
    BY <1>4 DEF ShellRequest, PageAsks
  <2>4. page' = page \/ (BuildOf(w) = page.build /\ page' = [page EXCEPT !.proof = "asking"])
    BY <1>4 DEF ShellRequest, PageAsks, Rest
  <2> QED
    BY <2>1, <2>2, <2>3, <2>4, EnsureBegins
<1>5. ASSUME NEW w \in Worker,
             \/ AssetRequest(w) \/ AssetMatched(w) \/ OpenRuntime(w) \/ RuntimeOpened(w)
             \/ AssetServed(w) \/ StoreAsset(w) \/ AssetStored(w)
      PROVE  ShellInv'
  BY <1>5, AssetKeeps
<1>6. ASSUME NEW w \in Worker, NEW h \in Handler,
             \/ PopulateOpens(w, h) \/ FetchDocument(w, h) \/ FetchRest(w, h)
             \/ FindNames(w, h) \/ FindOpens(w, h) \/ FindChecks(w, h)
             \/ RepairVerified(w, h) \/ RepairEnds(w, h) \/ RepairFails(w, h)
      PROVE  ShellInv'
  BY <1>6, PopulateOpensKeeps, FetchDocumentKeeps, FindNamesKeeps, FindOpensKeeps, FindChecksKeeps,
     RepairVerifiedKeeps, RepairEndsKeeps
<1>7. CASE UNCHANGED shellVars
  <2>1. ShellTypeOK'
    BY <1>7 DEF ShellInv, shellVars, ShellTypeOK
  <2> QED
    BY <1>7, <2>1, PageKeeps DEF shellVars
<1> QED
  BY <1>1, <1>2, <1>3, <1>4, <1>5, <1>6, <1>7 DEF ShellNext

LEMMA ShellInvHolds == ShellSpec => []ShellInv
<1>1. ShellInit => ShellInv
  BY ShellInitIsFine
<1>2. ShellInv /\ [ShellNext]_shellVars => ShellInv'
  BY ShellStepKeeps
<1> QED
  BY <1>1, <1>2, PTL DEF ShellSpec

(* The types of the offline shell: names, contents, workers and handlers. *)
THEOREM ShellTypesHold == ShellSpec => []ShellTypeOK
<1>1. ShellInv => ShellTypeOK
  BY DEF ShellInv
<1> QED
  BY <1>1, ShellInvHolds, PTL

(* However workers install, repair, sweep and end, and whatever the browser kills, *)
(* a page that was told that its trip works offline has a complete shell of its    *)
(* own build (ensureHandleModeOfflineReady(), findOfflineReadyShellCache() and the *)
(* activate handler of sw.js never take the last ready cache of a worker in        *)
(* charge).                                                                        *)
THEOREM OfflineProofKept == ShellSpec => []OfflineProofHolds
<1>1. ShellInv => OfflineProofHolds
  <2> SUFFICES ASSUME ShellInv, page.proof = "ready" PROVE Ready(page.build)
    BY DEF OfflineProofHolds
  <2>1. PICK w \in Worker : worker[w].state = "active" /\ BuildOf(w) = page.build
    BY DEF ShellInv, ProofInv
  <2> QED
    BY <2>1 DEF ShellInv, ProofInv, ProofOf
<1> QED
  BY <1>1, ShellInvHolds, PTL

(* What an active worker has deleted stays deleted: once nobody else has anything *)
(* under way, no cache of another build is left, however late the handlers of the *)
(* superseded workers opened, populated or stored (activate, cacheFirst() and the *)
(* rechecks of isCurrentWorkerBuild() in sw.js).                                  *)
THEOREM RetiredCachesGo == ShellSpec => []RetiredCachesAreGone
<1>1. ShellInv => RetiredCachesAreGone
  <2> SUFFICES ASSUME ShellInv, NEW w \in Worker, worker[w].state = "active", ~killed,
                      \A v \in Worker \ {w} : ~Busy(v) /\ worker[v].state # "installed",
                      NEW c \in Visible, c[2] # BuildOf(w)
               PROVE  FALSE
    BY DEF RetiredCachesAreGone
  <2>1. Swept(w) /\ Listed(w) = {} /\ \A v \in Worker : worker[v].state # "installed"
    BY DEF Swept, Listed
  <2>2. Owed(c)
    BY <2>1 DEF ShellInv, RetireInv
  <2>3. PICK v \in Worker, g \in Handler : Owes(v, g, c)
    BY <2>2 DEF Owed
  <2>4. v # w
    BY <2>3 DEF Owes, Makes, Keeps
  <2>5. Busy(v)
    <3>1. LifeShape(v)
      BY DEF ShellInv, HandlersInv
    <3>2. worker[v].state = "installing" => task[<<v, "life">>].step # "idle"
      BY <3>1 DEF LifeShape
    <3> QED
      BY <2>3, <3>2 DEF Owes, Makes, Keeps, Busy, Handler
  <2> QED
    BY <2>4, <2>5
<1> QED
  BY <1>1, ShellInvHolds, PTL

-----------------------------------------------------------------------------
(* The preference. *)

(* A quotient is at most k when k + 1 times the divisor is above the dividend. *)
LEMMA QuotientBound ==
    ASSUME NEW a \in Nat, NEW d \in Nat \ {0}, NEW k \in Nat, a < (k + 1) * d
    PROVE  a \div d \in 0..k
<1> DEFINE q == a \div d
           r == a % d
<1>1. q \in Int /\ r \in 0..d-1 /\ a = d * q + r
  OBVIOUS
<1> HIDE DEF q, r
<1>2. q >= 0
  <2>1. SUFFICES ASSUME q <= -1 PROVE FALSE
    BY <1>1
  <2>2. d * q <= d * (-1)
    BY <1>1, <2>1
  <2> QED
    BY <1>1, <2>2
<1>3. q <= k
  <2>1. SUFFICES ASSUME q >= k + 1 PROVE FALSE
    BY <1>1
  <2>2. d * q >= d * (k + 1)
    BY <1>1, <2>1
  <2>3. d * (k + 1) = (k + 1) * d
    OBVIOUS
  <2> QED
    BY <1>1, <2>2, <2>3
<1> QED
  BY <1>1, <1>2, <1>3 DEF q

(* Basis points. *)
LEMMA WeightRange == MaxWeight \in Nat \ {0} /\ MaxWeight > 0
BY DEF MaxWeight

(* A product grows with its factor. *)
LEMMA ProductBound ==
    ASSUME NEW k \in Nat, NEW x \in Nat, NEW y \in Nat, x <= y
    PROVE  x * k \in Nat /\ x * k <= y * k
OBVIOUS

(* planIdForPreference indexes the plans. *)
LEMMA PreferenceIndexBound ==
    ASSUME NEW n \in Nat \ {0}, NEW weight \in Int
    PROVE  PreferenceIndex(n, weight) \in 1..n
<1> DEFINE x == MaxWeight - CappedWeight(weight)
           y == x * (n - 1)
<1>0. MaxWeight \in Nat \ {0} /\ MaxWeight > 0
  BY WeightRange
<1>1. x \in Nat /\ x <= MaxWeight
  BY <1>0 DEF CappedWeight
<1>2. CASE n > 1
  <2> HIDE DEF x
  <2>1. n - 1 \in Nat
    BY <1>2
  <2>2. y \in Nat /\ y <= MaxWeight * (n - 1)
    BY <1>0, <1>1, <2>1, ProductBound
  <2>3. MaxWeight * (n - 1) < ((n - 1) + 1) * MaxWeight
    BY <1>0, <2>1
  <2> HIDE DEF y
  <2>4. y < ((n - 1) + 1) * MaxWeight
    <3> DEFINE a == MaxWeight * (n - 1)
               b == ((n - 1) + 1) * MaxWeight
    <3>1. a \in Int /\ b \in Int
      BY <1>0, <2>1
    <3> HIDE DEF a, b
    <3>2. y < b
      BY <2>2, <2>3, <3>1 DEF a, b
    <3> QED
      BY <3>2 DEF b
  <2>5. y \div MaxWeight \in 0..n-1
    BY <1>0, <2>1, <2>2, <2>4, QuotientBound
  <2> QED
    BY <1>2, <2>5 DEF PreferenceIndex, x, y
<1>3. CASE n <= 1
  BY <1>3 DEF PreferenceIndex
<1> QED
  BY <1>2, <1>3

(* convenienceWeightForPlanId returns basis points. *)
LEMMA ConvenienceWeightBound ==
    ASSUME NEW plans \in Seq(Nat), NEW plan
    PROVE  ConvenienceWeightForPlanId(plans, plan) \in 0..MaxWeight
<1>0. MaxWeight \in Nat \ {0} /\ MaxWeight > 0
  BY WeightRange
<1>1. ASSUME NEW n \in Nat, NEW i \in 2..n
      PROVE  ConvenienceWeight(n, i) \in 0..MaxWeight
  <2> DEFINE a == 2 * MaxWeight * (n - i) + n - 1
             d == 2 * (n - 1)
             m == MaxWeight
             j == n - i
  <2>1. a \in Nat /\ d \in Nat \ {0} /\ a < (MaxWeight + 1) * d
    BY <1>1 DEF MaxWeight
  <2>2. ConvenienceWeight(n, i) = a \div d
    BY DEF ConvenienceWeight
  <2> HIDE DEF a, d
  <2> QED
    BY <1>0, <2>1, <2>2, QuotientBound
<1>2. Len(plans) \in Nat
  OBVIOUS
<1> DEFINE steps == {i \in 2..Len(plans) : plans[i] = plan}
<1>3. CASE steps = {}
  BY <1>0, <1>3 DEF ConvenienceWeightForPlanId
<1>4. CASE steps # {}
  <2>1. PICK step \in steps : ConvenienceWeightForPlanId(plans, plan)
                                = ConvenienceWeight(Len(plans), step)
    BY <1>4 DEF ConvenienceWeightForPlanId
  <2>2. step \in 2..Len(plans)
    OBVIOUS
  <2> QED
    BY <1>1, <1>2, <2>1, <2>2
<1> QED
  BY <1>3, <1>4

-----------------------------------------------------------------------------
(* What the variables are. *)
Requests == [needs : BasketNeeds, programs : SUBSET Program]
Responses == [of : {"plans"}, request : Requests, plans : PlanLists, offered : SUBSET Program]
MaybeResponse == Responses \cup {NoResponse}
MaybeToken == LocationToken \cup {NoToken}
Bindings == [mode : TravelMode \cup {"none"}, token : MaybeToken, planning : MaybeResponse]
TravelKind == {"not-requested", "unavailable", "calculated"}

ResultPages ==
    [basket : PageBaskets,
     status : {"loading", "ready", "empty", "unavailable", "reapproval", "invalid"},
     response : MaybeResponse, selected : Nat, travel : TravelKind,
     travelPlanning : MaybeResponse, travelBinding : Bindings]
ControlStates ==
    [mounted : BOOLEAN, enabled : BOOLEAN, mode : TravelMode, selection : MaybeToken,
     candidates : SUBSET LocationToken, calculated : BOOLEAN,
     busy : {"idle", "locating", "searching", "calculating"}]
Operations ==
    [kind : {"position", "location", "search", "calculate"}, token : MaybeToken,
     mode : TravelMode, planning : Requests \cup {NoRequest}, current : BOOLEAN]

(* The response r answers the basket of the page p. *)
Answers(r, p) == r \in Responses /\ r.request = PlanRequest(p.basket)

(* The page p: its plans answer its basket. *)
ResultInv(p) ==
    /\ p \in ResultPages
    /\ p.status = "ready" => Answers(p.response, p) /\ p.response.plans # <<>>
    /\ p.travelPlanning # NoResponse => p.status = "ready" /\ Answers(p.travelPlanning, p)
    /\ p.travel = "calculated" => p.travelPlanning # NoResponse /\ p.travelPlanning.plans # <<>>
    /\ p.travel # "calculated" => p.travelBinding = NoBinding
    /\ PlansShown(p) => \E i \in DOMAIN ActiveResponse(p).plans :
                            p.selected = ActiveResponse(p).plans[i]

(* The controls c on the page p. *)
ControlsInv(p, c) ==
    /\ c \in ControlStates
    /\ c.mounted <=> PlansShown(p)
    /\ ~(c.mounted /\ c.enabled) => /\ c.selection = NoToken /\ c.candidates = {}
                                    /\ c.busy = "idle" /\ ~c.calculated
    /\ c.candidates # {} => c.selection = NoToken /\ c.busy = "idle"
    /\ c.busy # "idle" => ~c.calculated
    /\ c.busy \in {"locating", "searching"} => c.selection = NoToken
    /\ c.busy = "calculating" => c.selection # NoToken
    /\ c.calculated <=> p.travel = "calculated"
    /\ c.calculated => /\ c.selection # NoToken
                       /\ p.travelBinding = [mode |-> c.mode, token |-> c.selection,
                                             planning |-> p.travelPlanning]

(* The controls c show that they wait for the operation o. *)
Waits(o, c) == CASE o.kind \in {"position", "location"} -> c.busy = "locating"
                 [] o.kind = "search" -> c.busy = "searching"
                 [] o.kind = "calculate" -> c.busy = "calculating"

(* What the controls c wait for on the page p. *)
OperationsInv(p, c, flying) ==
    /\ flying \subseteq Operations
    /\ \A o, q \in flying : o.current /\ q.current => o = q
    /\ \A o \in flying : o.current => /\ Waits(o, c) /\ o.mode = c.mode
                                      /\ o.kind = "calculate" =>
                                           /\ o.token = c.selection
                                           /\ o.planning = PlanRequest(p.basket)

(* The requests for plans of the page p. *)
AskedInv(p, flying) ==
    /\ flying \subseteq [request : Requests, current : BOOLEAN]
    /\ \A a \in flying : a.current /\ a.request = PlanRequest(p.basket) /\ p.status = "loading"

(* The invariant. *)
PlanPageInv ==
    /\ saved \in PageBaskets
    /\ ResultInv(resultPage)
    /\ ControlsInv(resultPage, controls)
    /\ OperationsInv(resultPage, controls, operations)
    /\ AskedInv(resultPage, asked)

-----------------------------------------------------------------------------
(* The parts of the invariant, one by one. *)
LEMMA PlanPageStep ==
    ASSUME saved' \in PageBaskets, ResultInv(resultPage'), ControlsInv(resultPage', controls'),
           OperationsInv(resultPage', controls', operations'), AskedInv(resultPage', asked')
    PROVE  PlanPageInv'
BY DEF PlanPageInv

(* A list of plans has plans. *)
LEMMA PlansTyped ==
    ASSUME NEW plans \in PlanLists
    PROVE  /\ plans \in Seq(Nat) /\ DOMAIN plans = 1..Len(plans)
           /\ \A i \in 1..Len(plans) : plans[i] \in Nat /\ plans[i] # NoPlan
<1>1. plans \in Seq(Nat \ {NoPlan})
  BY PlanPageAssumption
<1> QED
  BY <1>1

(* The plan preferred is one of the plans. *)
LEMMA PreferredIsAPlan ==
    ASSUME NEW plans \in PlanLists, plans # <<>>, NEW weight \in Int
    PROVE  \E i \in DOMAIN plans : /\ PlanIdForPreference(plans, weight) = plans[i]
                                   /\ plans[i] \in Nat /\ plans[i] # NoPlan
<1>1. Len(plans) \in Nat \ {0}
  BY PlansTyped
<1>2. PreferenceIndex(Len(plans), weight) \in 1..Len(plans)
  BY <1>1, PreferenceIndexBound
<1> QED
  BY <1>2, PlansTyped DEF PlanIdForPreference

(* The plan selected when plans arrive is one of them. *)
LEMMA PreferredSelection ==
    ASSUME NEW p \in ResultPages, NEW plans \in PlanLists
    PROVE  /\ Preferred(p, plans) \in Nat
           /\ plans # <<>> => \E i \in DOMAIN plans : Preferred(p, plans) = plans[i]
<1>1. p.basket.weight \in Int /\ p.selected \in Nat
  BY WeightRange DEF ResultPages, PageBaskets
<1>2. CASE plans = <<>>
  BY <1>1, <1>2 DEF Preferred, PlanIdForPreference
<1>3. CASE plans # <<>>
  BY <1>1, <1>3, PreferredIsAPlan DEF Preferred
<1> QED
  BY <1>2, <1>3

(* The plan request of a basket is one. *)
LEMMA RequestOf ==
    ASSUME NEW b \in PageBaskets
    PROVE  PlanRequest(b) \in Requests
BY DEF PageBaskets, PlanRequest, Requests

(* No response and no binding are typed, and are not taken for one. *)
LEMMA NothingTyped ==
    /\ NoResponse \in MaybeResponse /\ NoBinding \in Bindings
    /\ \A r \in Responses : r # NoResponse
    /\ NotRequested.kind = "not-requested" /\ NotRequested.planning = NoResponse
    /\ NotRequested.binding = NoBinding
BY DEF MaybeResponse, Responses, NoResponse, NoBinding, Bindings, MaybeToken, NotRequested

(* A travel result keeps the page consistent. *)
LEMMA TravelResult ==
    ASSUME NEW p, ResultInv(p), p.status = "ready", NEW update,
           update.kind \in TravelKind, update.binding \in Bindings,
           update.planning = NoResponse \/ Answers(update.planning, p),
           update.kind # "calculated" => update.binding = NoBinding,
           update.kind = "calculated" => update.planning # NoResponse /\ update.planning.plans # <<>>
    PROVE  LET next == ApplyTravelResult(p, update)
           IN  /\ ResultInv(next)
               /\ next.basket = p.basket /\ next.status = "ready"
               /\ next.travel = update.kind /\ next.travelBinding = update.binding
               /\ next.travelPlanning = update.planning
               /\ PlansShown(next) <=> update.planning = NoResponse \/ update.planning.plans # <<>>
<1> DEFINE planning == IF update.planning = NoResponse THEN p.response ELSE update.planning
           selected == Preferred(p, planning.plans)
           next == ApplyTravelResult(p, update)
<1>0. p \in ResultPages /\ Answers(p.response, p) /\ p.response.plans # <<>>
  BY DEF ResultInv
<1>1. Answers(planning, p) /\ planning.plans \in PlanLists
  BY <1>0 DEF Answers, Responses
<1>2. selected \in Nat
      /\ (planning.plans # <<>> => \E i \in DOMAIN planning.plans : selected = planning.plans[i])
  BY <1>0, <1>1, PreferredSelection
<1>3. update.planning \in MaybeResponse
  BY NothingTyped DEF Answers, MaybeResponse
<1>4. next = [p EXCEPT !.travel = update.kind, !.travelBinding = update.binding,
                       !.travelPlanning = update.planning, !.selected = selected]
  BY DEF ApplyTravelResult
<1> HIDE DEF selected, next
<1>5. /\ next \in ResultPages
      /\ next.basket = p.basket /\ next.status = "ready" /\ next.response = p.response
      /\ next.travel = update.kind /\ next.travelBinding = update.binding
      /\ next.travelPlanning = update.planning /\ next.selected = selected
  BY <1>0, <1>2, <1>3, <1>4 DEF ResultPages
<1>6. ActiveResponse(next) = planning
  BY <1>5 DEF ActiveResponse
<1>7. PlansShown(next) <=> update.planning = NoResponse \/ update.planning.plans # <<>>
  BY <1>0, <1>5, <1>6 DEF PlansShown
<1>8. ResultInv(next)
  BY <1>0, <1>1, <1>2, <1>5, <1>6 DEF ResultInv, Answers, PlansShown
<1> QED
  BY <1>5, <1>7, <1>8 DEF next
-----------------------------------------------------------------------------
(* What the invariant says while the controls are there. *)
LEMMA WhileMounted ==
    ASSUME PlanPageInv, controls.mounted
    PROVE  /\ PlansShown(resultPage) /\ resultPage.status = "ready"
           /\ ResultInv(resultPage) /\ resultPage \in ResultPages /\ controls \in ControlStates
           /\ resultPage.basket \in PageBaskets /\ asked = {}
           /\ operations \subseteq Operations
<1>1. PlansShown(resultPage) /\ ResultInv(resultPage) /\ controls \in ControlStates
      /\ operations \subseteq Operations
  BY DEF PlanPageInv, ControlsInv, OperationsInv
<1>2. resultPage.status = "ready"
  BY <1>1 DEF PlansShown
<1>3. asked = {}
  BY <1>2 DEF PlanPageInv, AskedInv
<1> QED
  BY <1>1, <1>2, <1>3 DEF ResultInv, ResultPages

(* The page forgets the travel times. *)
LEMMA Forgotten ==
    ASSUME NEW p, ResultInv(p), p.status = "ready"
    PROVE  LET next == ApplyTravelResult(p, NotRequested)
           IN  /\ ResultInv(next) /\ PlansShown(next) /\ next.basket = p.basket
               /\ next.status = "ready" /\ next.travel = "not-requested"
               /\ next.travelBinding = NoBinding
BY TravelResult, NothingTyped DEF TravelKind

(* Outdated operations are none that a later answer is taken of. *)
LEMMA OutdatedTyped ==
    ASSUME NEW flying \in SUBSET Operations
    PROVE  \A o \in Outdated(flying) : o \in Operations /\ ~o.current
BY DEF Outdated, Operations

(* Operations none of which is current are no concern of the controls. *)
LEMMA OutdatedInv ==
    ASSUME NEW p, NEW c, NEW flying \in SUBSET Operations, \A o \in flying : ~o.current
    PROVE  OperationsInv(p, c, flying)
BY DEF OperationsInv

(* While the controls are idle, no operation is current. *)
LEMMA IdleOperations ==
    ASSUME PlanPageInv, controls.busy = "idle"
    PROVE  operations \in SUBSET Operations /\ \A o \in operations : ~o.current
BY DEF PlanPageInv, OperationsInv, Operations, Waits

(* The controls of a page that knows no start. *)
LEMMA FreshInv ==
    ASSUME NEW p
    PROVE  /\ PlansShown(p) /\ p.travel = "not-requested" => ControlsInv(p, FreshControls)
           /\ ~PlansShown(p) /\ p.travel # "calculated" => ControlsInv(p, Unmounted)
<1>1. FreshControls \in ControlStates /\ Unmounted \in ControlStates
  BY DEF FreshControls, Unmounted, ControlStates, TravelMode, MaybeToken
<1> QED
  BY <1>1 DEF FreshControls, Unmounted, ControlsInv

(* calculateTravel up to its first await, with a confirmed start. *)
LEMMA StartInv ==
    ASSUME PlanPageInv, controls.mounted, UNCHANGED pageVars,
           NEW c \in ControlStates, c.mounted, c.enabled, c.candidates = {},
           c.selection \in LocationToken,
           NEW waiting \in SUBSET Operations, \A o \in waiting : ~o.current,
           StartCalculation(c, c.selection, c.mode, waiting)
    PROVE  PlanPageInv'
<1> DEFINE next == ApplyTravelResult(resultPage, NotRequested)
<1>1. /\ ResultInv(next) /\ PlansShown(next) /\ next.basket = resultPage.basket
      /\ next.travel = "not-requested" /\ next.travelBinding = NoBinding
  BY WhileMounted, Forgotten
<1>2. saved' \in PageBaskets /\ asked' = {}
  BY WhileMounted DEF pageVars, PlanPageInv
<1> HIDE DEF next
<1>3. CASE /\ Finish([c EXCEPT !.selection = NoToken], NotRequested, FALSE)
           /\ operations' = waiting
  <2>1. resultPage' = next
        /\ controls' = [c EXCEPT !.selection = NoToken, !.busy = "idle", !.calculated = FALSE]
    BY <1>1, <1>3 DEF Finish, ControlsOn, next, ControlStates
  <2>2. ControlsInv(next, controls')
    BY <1>1, <2>1 DEF ControlsInv, ControlStates, MaybeToken
  <2>3. OperationsInv(next, controls', operations')
    BY <1>3, OutdatedInv
  <2> QED
    BY <1>1, <1>2, <2>1, <2>2, <2>3, PlanPageStep DEF AskedInv
<1>4. CASE /\ resultPage' = next
           /\ controls' = [c EXCEPT !.busy = "calculating", !.calculated = FALSE]
           /\ operations' = Outdated(waiting) \cup
                  {Operation("calculate", c.selection, c.mode, PlanRequest(resultPage.basket))}
  <2>1. ControlsInv(next, controls')
    BY <1>1, <1>4, PlanPageAssumption DEF ControlsInv, ControlStates
  <2> DEFINE o == Operation("calculate", c.selection, c.mode, PlanRequest(resultPage.basket))
  <2>2. PlanRequest(resultPage.basket) \in Requests
    BY WhileMounted, RequestOf
  <2>3. o \in Operations
    BY <2>2 DEF Operation, Operations, ControlStates, MaybeToken
  <2>4. /\ o.kind = "calculate" /\ o.token = c.selection /\ o.mode = c.mode
        /\ o.planning = PlanRequest(next.basket)
    BY <1>1 DEF Operation
  <2>5. controls'.busy = "calculating" /\ controls'.selection = c.selection
        /\ controls'.mode = c.mode
    BY <1>4 DEF ControlStates
  <2> HIDE DEF o
  <2>6. OperationsInv(next, controls', operations')
    BY <1>4, <2>3, <2>4, <2>5, OutdatedTyped DEF OperationsInv, Waits, o
  <2> QED
    BY <1>1, <1>2, <1>4, <2>1, <2>6, PlanPageStep DEF AskedInv
<1> QED
  BY <1>3, <1>4 DEF StartCalculation, next

-----------------------------------------------------------------------------
(* The one request of a page that waits for its plans. *)
LEMMA FirstRequestInv ==
    ASSUME NEW p, p.status = "loading", p.basket \in PageBaskets
    PROVE  AskedInv(p, FirstRequest(p.basket))
<1> DEFINE q == PlanRequest(p.basket)
           first == [request |-> q, current |-> TRUE]
<1>1. q \in Requests /\ q = PlanRequest(p.basket)
  BY RequestOf
<1>2. FirstRequest(p.basket) \subseteq {first}
  BY DEF FirstRequest
<1> HIDE DEF q
<1>3. first \in [request : Requests, current : BOOLEAN] /\ first.current /\ first.request = q
  BY <1>1
<1> HIDE DEF first
<1>4. \A a \in FirstRequest(p.basket) : /\ a \in [request : Requests, current : BOOLEAN]
                                        /\ a.current /\ a.request = q
  BY <1>2, <1>3
<1> QED
  BY <1>1, <1>4 DEF AskedInv

(* A page just opened with a basket. *)
LEMMA OpenedInv ==
    ASSUME NEW basket \in PageBaskets
    PROVE  /\ ResultInv(Opened(basket)) /\ ControlsInv(Opened(basket), Unmounted)
           /\ OperationsInv(Opened(basket), Unmounted, {})
           /\ AskedInv(Opened(basket), FirstRequest(basket))
<1> DEFINE p == Opened(basket)
<1>1. /\ p \in ResultPages /\ p.status = "loading" /\ p.basket = basket
      /\ p.travel = "not-requested" /\ p.travelPlanning = NoResponse
      /\ p.travelBinding = NoBinding
  BY NothingTyped DEF Opened, ResultPages, TravelKind, NoPlan
<1> HIDE DEF p
<1>2. ResultInv(p) /\ ~PlansShown(p)
  BY <1>1 DEF ResultInv, PlansShown
<1>3. ControlsInv(p, Unmounted)
  BY <1>1, <1>2, FreshInv
<1>4. AskedInv(p, FirstRequest(basket))
  BY <1>1, FirstRequestInv
<1> QED
  BY <1>2, <1>3, <1>4, OutdatedInv DEF p

(* The page as it is opened. *)
LEMMA PlanPageInitInv == PlanPageInit => PlanPageInv
<1> SUFFICES ASSUME PlanPageInit
             PROVE  PlanPageInv
  OBVIOUS
<1>1. saved \in PageBaskets
  BY DEF PlanPageInit, PageBaskets, DefaultWeight, MaxWeight
<1> QED
  BY <1>1, OpenedInv DEF PlanPageInit, PlanPageInv

(* The page is loaded again, with the basket that is saved. *)
LEMMA ReloadInv == PlanPageInv /\ ReloadPage => PlanPageInv'
<1> SUFFICES ASSUME PlanPageInv, ReloadPage
             PROVE  PlanPageInv'
  OBVIOUS
<1>1. saved \in PageBaskets
  BY DEF PlanPageInv
<1> QED
  BY <1>1, OpenedInv, PlanPageStep DEF ReloadPage

(* Another tab saves its basket. *)
LEMMA OtherTabInv == PlanPageInv /\ OtherTabSaves => PlanPageInv'
<1> SUFFICES ASSUME PlanPageInv, OtherTabSaves
             PROVE  PlanPageInv'
  OBVIOUS
<1>1. saved' \in PageBaskets
  BY DEF PlanPageInv, OtherTabSaves, PageBaskets
<1> QED
  BY <1>1, PlanPageStep DEF PlanPageInv, OtherTabSaves

(* While an answer is awaited, no plans are shown and no travel is asked for. *)
LEMMA WhileAsked ==
    ASSUME PlanPageInv, NEW a \in asked
    PROVE  /\ resultPage.status = "loading" /\ ~PlansShown(resultPage)
           /\ controls.busy = "idle" /\ controls.mounted = FALSE
           /\ a.request \in Requests /\ a.request = PlanRequest(resultPage.basket)
           /\ asked \ {a} = {}
<1>1. /\ asked \subseteq [request : Requests, current : BOOLEAN]
      /\ \A b \in asked : b.current /\ b.request = a.request
      /\ resultPage.status = "loading" /\ a.request = PlanRequest(resultPage.basket)
  BY DEF PlanPageInv, AskedInv
<1>2. \A b \in asked : b = a
  BY <1>1
<1>3. ~PlansShown(resultPage)
  BY <1>1 DEF PlansShown
<1> QED
  BY <1>1, <1>2, <1>3 DEF PlanPageInv, ControlsInv, ControlStates

(* No plans are answered. *)
LEMMA NoPlansInv ==
    ASSUME PlanPageInv, NEW a \in asked, NoPlansAnswered(a)
    PROVE  PlanPageInv'
<1>1. PICK status \in {"empty", "unavailable", "reapproval", "invalid"} :
           resultPage' = [resultPage EXCEPT !.status = status]
  BY DEF NoPlansAnswered
<1>2. resultPage \in ResultPages
  BY DEF PlanPageInv, ResultInv
<1>3. /\ resultPage' \in ResultPages /\ resultPage'.status # "ready"
      /\ resultPage'.travel = resultPage.travel
      /\ resultPage'.travelPlanning = resultPage.travelPlanning
      /\ resultPage'.travelBinding = resultPage.travelBinding
  BY <1>1, <1>2 DEF ResultPages
<1>4. ~PlansShown(resultPage')
  BY <1>3 DEF PlansShown
<1>5. ResultInv(resultPage')
  BY <1>3, <1>4, WhileAsked DEF PlanPageInv, ResultInv
<1>6. ControlsInv(resultPage', controls')
  BY <1>3, <1>4, WhileAsked DEF PlanPageInv, ControlsInv, NoPlansAnswered
<1>7. OperationsInv(resultPage', controls', operations')
  BY IdleOperations, WhileAsked, OutdatedInv DEF NoPlansAnswered
<1> QED
  BY <1>5, <1>6, <1>7, WhileAsked, PlanPageStep DEF NoPlansAnswered, PlanPageInv, AskedInv

(* Plans are answered: the controls begin afresh. *)
LEMMA PlansAnsweredInv ==
    ASSUME PlanPageInv, NEW a \in asked, PlansAnswered(a)
    PROVE  PlanPageInv'
<1>1. PICK plans \in PlanLists \ {<<>>}, offered \in SUBSET Program :
           resultPage' = WithoutTravel(
               [resultPage EXCEPT !.status = "ready",
                                  !.response = Response(a.request, plans, offered),
                                  !.selected = PlanIdForPreference(plans, resultPage.basket.weight)])
  BY DEF PlansAnswered
<1> DEFINE r == Response(a.request, plans, offered)
           selected == PlanIdForPreference(plans, resultPage.basket.weight)
<1>2. r \in Responses /\ r.request = a.request /\ r.plans = plans
  BY WhileAsked DEF Response, Responses
<1>3. resultPage \in ResultPages /\ resultPage.basket.weight \in Int
  BY WeightRange DEF PlanPageInv, ResultInv, ResultPages, PageBaskets
<1>4. selected \in Nat /\ \E i \in DOMAIN plans : selected = plans[i]
  BY <1>3, PreferredIsAPlan
<1> HIDE DEF r, selected
<1>5. /\ resultPage' \in ResultPages /\ resultPage'.basket = resultPage.basket
      /\ resultPage'.status = "ready" /\ resultPage'.response = r
      /\ resultPage'.selected = selected /\ resultPage'.travel = "not-requested"
      /\ resultPage'.travelPlanning = NoResponse /\ resultPage'.travelBinding = NoBinding
  BY <1>1, <1>2, <1>3, <1>4, NothingTyped
     DEF WithoutTravel, ResultPages, MaybeResponse, TravelKind, r, selected
<1>6. ActiveResponse(resultPage') = r /\ PlansShown(resultPage')
  BY <1>2, <1>5 DEF ActiveResponse, PlansShown
<1>7. ResultInv(resultPage')
  BY <1>2, <1>4, <1>5, <1>6, WhileAsked DEF ResultInv, Answers
<1>8. ControlsInv(resultPage', controls')
  BY <1>5, <1>6, FreshInv DEF PlansAnswered
<1>9. OperationsInv(resultPage', controls', operations')
  BY IdleOperations, WhileAsked, OutdatedInv DEF PlansAnswered
<1> QED
  BY <1>7, <1>8, <1>9, WhileAsked, PlanPageStep DEF PlansAnswered, PlanPageInv, AskedInv

(* The plans are asked for again. *)
LEMMA RetryPlansInv == PlanPageInv /\ RetryPlans => PlanPageInv'
<1> SUFFICES ASSUME PlanPageInv, RetryPlans
             PROVE  PlanPageInv'
  OBVIOUS
<1>1. resultPage.status = "unavailable" /\ resultPage \in ResultPages
      /\ resultPage.basket \in PageBaskets
  BY DEF RetryPlans, PlanPageInv, ResultInv, ResultPages
<1>2. asked = {} /\ ~PlansShown(resultPage)
  BY <1>1 DEF PlanPageInv, AskedInv, PlansShown
<1>3. /\ resultPage' \in ResultPages /\ resultPage'.status = "loading"
      /\ resultPage'.basket = resultPage.basket /\ resultPage'.travel = resultPage.travel
      /\ resultPage'.travelPlanning = resultPage.travelPlanning
      /\ resultPage'.travelBinding = resultPage.travelBinding
  BY <1>1 DEF RetryPlans, Loading, ResultPages
<1>4. ~PlansShown(resultPage')
  BY <1>3 DEF PlansShown
<1>5. ResultInv(resultPage')
  BY <1>1, <1>3, <1>4 DEF PlanPageInv, ResultInv
<1>6. ControlsInv(resultPage', controls') /\ controls.busy = "idle"
  BY <1>2, <1>3, <1>4 DEF PlanPageInv, ControlsInv, RetryPlans
<1>7. OperationsInv(resultPage', controls', operations')
  BY <1>6, IdleOperations, OutdatedInv DEF RetryPlans
<1>8. asked' = FirstRequest(resultPage'.basket)
  BY <1>2, <1>3 DEF RetryPlans, AskForPlans, Outdated
<1>9. AskedInv(resultPage', asked')
  BY <1>1, <1>3, <1>8, FirstRequestInv
<1> QED
  BY <1>5, <1>6, <1>7, <1>9, PlanPageStep DEF RetryPlans, PlanPageInv

(* Another plan is selected: the request of the basket is the same. *)
LEMMA SelectInv == PlanPageInv /\ SelectPlan => PlanPageInv'
<1> SUFFICES ASSUME PlanPageInv, SelectPlan
             PROVE  PlanPageInv'
  OBVIOUS
<1> DEFINE plans == ActiveResponse(resultPage).plans
<1>1. PICK i \in DOMAIN plans :
        LET basket == [resultPage.basket EXCEPT !.weight =
                           ConvenienceWeightForPlanId(plans, plans[i])]
        IN  /\ resultPage' = [resultPage EXCEPT !.selected = plans[i], !.basket = basket]
            /\ saved' = basket
  BY DEF SelectPlan
<1>2. controls.mounted /\ PlansShown(resultPage)
  BY DEF SelectPlan, PlanPageInv, ControlsInv
<1>3. /\ resultPage \in ResultPages /\ resultPage.basket \in PageBaskets
      /\ resultPage.status = "ready" /\ asked = {}
  BY <1>2, WhileMounted
<1>4. plans \in PlanLists
  BY <1>3 DEF ActiveResponse, PlanPageInv, ResultInv, Answers, Responses
<1>5. plans[i] \in Nat
  BY <1>4, PlansTyped
<1> DEFINE weight == ConvenienceWeightForPlanId(plans, plans[i])
           basket == [resultPage.basket EXCEPT !.weight = weight]
<1>6. weight \in 0..MaxWeight
  BY <1>4, PlansTyped, ConvenienceWeightBound
<1> HIDE DEF weight
<1>7. basket \in PageBaskets /\ PlanRequest(basket) = PlanRequest(resultPage.basket)
  BY <1>3, <1>6 DEF PageBaskets, PlanRequest
<1> HIDE DEF basket
<1>8. /\ resultPage' \in ResultPages /\ resultPage'.basket = basket /\ saved' = basket
      /\ resultPage'.selected = plans[i] /\ resultPage'.status = resultPage.status
      /\ resultPage'.response = resultPage.response /\ resultPage'.travel = resultPage.travel
      /\ resultPage'.travelPlanning = resultPage.travelPlanning
      /\ resultPage'.travelBinding = resultPage.travelBinding
  BY <1>1, <1>3, <1>5, <1>7 DEF ResultPages, basket, weight
<1>9. ActiveResponse(resultPage') = ActiveResponse(resultPage) /\ PlansShown(resultPage')
  BY <1>2, <1>8 DEF ActiveResponse, PlansShown
<1>10. ResultInv(resultPage')
  BY <1>7, <1>8, <1>9 DEF PlanPageInv, ResultInv, Answers
<1>11. ControlsInv(resultPage', controls')
  BY <1>2, <1>8, <1>9 DEF PlanPageInv, ControlsInv, SelectPlan
<1>12. OperationsInv(resultPage', controls', operations')
  BY <1>7, <1>8 DEF PlanPageInv, OperationsInv, SelectPlan
<1> QED
  BY <1>3, <1>7, <1>8, <1>10, <1>11, <1>12, PlanPageStep DEF AskedInv, SelectPlan

(* A program is switched on or off: the page waits for other plans. *)
LEMMA MembershipInv ==
    ASSUME PlanPageInv, NEW program \in Program, SetMembershipProgram(program)
    PROVE  PlanPageInv'
<1> DEFINE programs == resultPage.basket.programs
           chosen == IF program \in programs THEN programs \ {program} ELSE programs \cup {program}
           basket == [resultPage.basket EXCEPT !.programs = chosen]
<1>1. controls.mounted
  BY DEF SetMembershipProgram, PlanPageInv, ControlsInv
<1>2. /\ resultPage \in ResultPages /\ resultPage.basket \in PageBaskets
      /\ operations \subseteq Operations /\ asked = {}
  BY <1>1, WhileMounted
<1>3. chosen \subseteq Program
  BY <1>2 DEF PageBaskets
<1> HIDE DEF chosen
<1>4. basket \in PageBaskets
  BY <1>2, <1>3 DEF PageBaskets
<1>5. /\ saved' = basket
      /\ resultPage' = Loading(WithoutTravel([resultPage EXCEPT !.basket = basket,
                                                                !.selected = NoPlan]))
      /\ AskForPlans(basket) /\ controls' = Unmounted /\ operations' = Outdated(operations)
  BY DEF SetMembershipProgram, chosen
<1> HIDE DEF basket
<1>6. /\ resultPage' \in ResultPages /\ resultPage'.basket = basket
      /\ resultPage'.status = "loading" /\ resultPage'.travel = "not-requested"
      /\ resultPage'.travelPlanning = NoResponse /\ resultPage'.travelBinding = NoBinding
  BY <1>2, <1>4, <1>5, NothingTyped DEF Loading, WithoutTravel, ResultPages, TravelKind, NoPlan
<1>7. ~PlansShown(resultPage') /\ ResultInv(resultPage')
  BY <1>6 DEF ResultInv, PlansShown
<1>8. ControlsInv(resultPage', controls')
  BY <1>5, <1>6, <1>7, FreshInv
<1>9. OperationsInv(resultPage', controls', operations')
  BY <1>2, <1>5, OutdatedTyped, OutdatedInv
<1>10. asked' = FirstRequest(basket)
  BY <1>2, <1>5 DEF AskForPlans, Outdated
<1> QED
  BY <1>4, <1>5, <1>6, <1>7, <1>8, <1>9, <1>10, FirstRequestInv, PlanPageStep

-----------------------------------------------------------------------------
(* The travel controls: what is done with them. *)

(* Travel is switched on. *)
LEMMA EnableInv == PlanPageInv /\ EnableTravel => PlanPageInv'
<1> SUFFICES ASSUME PlanPageInv, EnableTravel
             PROVE  PlanPageInv'
  OBVIOUS
<1>1. controls.mounted /\ ~controls.enabled /\ controls' = [controls EXCEPT !.enabled = TRUE]
      /\ UNCHANGED <<saved, otherSaves, asked, resultPage, operations>>
  BY DEF EnableTravel, pageVars
<1>2. ControlsInv(resultPage', controls')
  BY <1>1 DEF PlanPageInv, ControlsInv, ControlStates
<1>3. OperationsInv(resultPage', controls', operations')
  BY <1>1, IdleOperations, OutdatedInv DEF PlanPageInv, ControlsInv
<1> QED
  BY <1>1, <1>2, <1>3, PlanPageStep DEF PlanPageInv

(* Travel is switched off, or the page is hidden or shown again. *)
LEMMA ResetInv == PlanPageInv /\ ResetTravel => PlanPageInv'
<1> SUFFICES ASSUME PlanPageInv, ResetTravel
             PROVE  PlanPageInv'
  OBVIOUS
<1>1. /\ ResultInv(resultPage') /\ PlansShown(resultPage')
      /\ resultPage'.travel = "not-requested" /\ resultPage'.basket = resultPage.basket
  BY WhileMounted, Forgotten DEF ResetTravel
<1>2. ControlsInv(resultPage', controls')
  BY <1>1, FreshInv DEF ResetTravel
<1>3. OperationsInv(resultPage', controls', operations')
  BY WhileMounted, OutdatedTyped, OutdatedInv DEF ResetTravel
<1> QED
  BY <1>1, <1>2, <1>3, WhileMounted, PlanPageStep
     DEF ResetTravel, pageVars, PlanPageInv, AskedInv

(* Another means of transport: the route is calculated again. *)
LEMMA ModeInv ==
    ASSUME PlanPageInv, NEW mode \in TravelMode, ChangeMode(mode)
    PROVE  PlanPageInv'
<1> DEFINE c == [controls EXCEPT !.mode = mode]
<1>1. controls.mounted /\ controls.enabled /\ controls.busy = "idle" /\ UNCHANGED pageVars
  BY DEF ChangeMode, ModeMayChange, Interactive, Usable
<1>2. controls \in ControlStates
  BY <1>1, WhileMounted
<1>3. operations \in SUBSET Operations /\ \A o \in operations : ~o.current
  BY <1>1, IdleOperations
<1>4. /\ c \in ControlStates /\ c.mounted = controls.mounted /\ c.enabled = controls.enabled
      /\ c.mode = mode /\ c.selection = controls.selection /\ c.busy = controls.busy
      /\ c.candidates = controls.candidates /\ c.calculated = controls.calculated
  BY <1>2 DEF ControlStates
<1>5. CASE controls.selection = NoToken
  <2>1. controls' = c /\ UNCHANGED <<resultPage, operations, saved, asked>>
    BY <1>5 DEF ChangeMode, pageVars
  <2> HIDE DEF c
  <2>2. ControlsInv(resultPage', controls')
    BY <1>4, <1>5, <2>1 DEF PlanPageInv, ControlsInv
  <2> QED
    BY <1>3, <2>1, <2>2, OutdatedInv, PlanPageStep DEF PlanPageInv
<1>6. CASE controls.selection # NoToken
  <2>1. c.candidates = {} /\ c.selection \in LocationToken
    BY <1>2, <1>4, <1>6 DEF PlanPageInv, ControlsInv, ControlStates, MaybeToken
  <2>2. StartCalculation(c, c.selection, c.mode, operations)
    BY <1>4, <1>6 DEF ChangeMode
  <2> HIDE DEF c
  <2> QED
    BY <1>1, <1>3, <1>4, <2>1, <2>2, StartInv
<1> QED
  BY <1>5, <1>6

(* An origin is asked for: what was known of another is dropped. *)
LEMMA OriginInv ==
    ASSUME PlanPageInv, RequestCurrentPosition \/ SearchAddress
    PROVE  PlanPageInv'
<1> DEFINE c == WithoutOrigin(controls)
<1>1. /\ controls.mounted /\ controls.enabled /\ controls.busy = "idle"
      /\ UNCHANGED <<saved, asked>>
      /\ resultPage' = ApplyTravelResult(resultPage, NotRequested)
  BY DEF RequestCurrentPosition, SearchAddress, Interactive, Usable, pageVars
<1>2. /\ ResultInv(resultPage') /\ PlansShown(resultPage')
      /\ resultPage'.travel = "not-requested" /\ resultPage'.basket = resultPage.basket
  BY <1>1, WhileMounted, Forgotten
<1>3. /\ c \in ControlStates /\ c.mounted /\ c.enabled /\ c.mode = controls.mode
      /\ c.selection = NoToken /\ c.candidates = {} /\ c.busy = "idle" /\ ~c.calculated
  BY <1>1, WhileMounted DEF WithoutOrigin, ControlStates, MaybeToken
<1>4. operations \in SUBSET Operations /\ \A o \in operations : ~o.current
  BY <1>1, IdleOperations
<1> HIDE DEF c
<1>5. CASE controls' = c /\ UNCHANGED operations
  <2>1. ControlsInv(resultPage', controls')
    BY <1>2, <1>3, <1>5 DEF ControlsInv
  <2> QED
    BY <1>1, <1>2, <1>4, <1>5, <2>1, OutdatedInv, WhileMounted, PlanPageStep
       DEF PlanPageInv, AskedInv
<1>6. ASSUME NEW kind \in {"position", "search"},
             NEW busy \in {"locating", "searching"},
             busy = "locating" <=> kind = "position",
             controls' = [c EXCEPT !.busy = busy],
             Begin(Operation(kind, NoToken, controls.mode, NoRequest))
      PROVE  PlanPageInv'
  <2>1. /\ controls' \in ControlStates /\ controls'.mounted /\ controls'.enabled
        /\ controls'.mode = controls.mode /\ controls'.selection = NoToken
        /\ controls'.candidates = {} /\ controls'.busy = busy /\ ~controls'.calculated
    BY <1>3, <1>6 DEF ControlStates
  <2>2. ControlsInv(resultPage', controls')
    BY <1>2, <2>1 DEF ControlsInv
  <2> DEFINE o == Operation(kind, NoToken, controls.mode, NoRequest)
  <2>3. o \in Operations /\ o.kind = kind /\ o.mode = controls.mode
    BY <1>1, WhileMounted DEF Operation, Operations, ControlStates, MaybeToken
  <2> HIDE DEF o
  <2>4. operations' = Outdated(operations) \cup {o}
    BY <1>6 DEF Begin, o
  <2>5. OperationsInv(resultPage', controls', operations')
    BY <1>4, <1>6, <2>1, <2>3, <2>4, OutdatedTyped DEF OperationsInv, Waits
  <2> QED
    BY <1>1, <1>2, <2>2, <2>5, WhileMounted, PlanPageStep DEF PlanPageInv, AskedInv
<1> QED
  BY <1>5, <1>6 DEF RequestCurrentPosition, SearchAddress, c

(* A candidate is confirmed: its route is calculated. *)
LEMMA ConfirmChoiceInv ==
    ASSUME PlanPageInv, NEW token \in LocationToken, ConfirmAddress(token)
    PROVE  PlanPageInv'
<1> DEFINE c == [controls EXCEPT !.candidates = {}, !.selection = token]
<1>1. controls.mounted /\ controls.enabled /\ controls.candidates # {} /\ UNCHANGED pageVars
  BY DEF ConfirmAddress, Usable
<1>2. controls \in ControlStates /\ controls.busy = "idle"
  BY <1>1 DEF PlanPageInv, ControlsInv
<1>3. /\ c \in ControlStates /\ c.mounted = controls.mounted /\ c.enabled = controls.enabled
      /\ c.mode = controls.mode /\ c.selection = token /\ c.candidates = {}
  BY <1>2 DEF ControlStates, MaybeToken
<1>4. operations \in SUBSET Operations /\ \A o \in operations : ~o.current
  BY <1>2, IdleOperations
<1>5. StartCalculation(c, c.selection, c.mode, operations)
  BY <1>3 DEF ConfirmAddress
<1> HIDE DEF c
<1> QED
  BY <1>1, <1>3, <1>4, <1>5, StartInv

(* The address is edited: the start is forgotten. *)
LEMMA EditInv == PlanPageInv /\ EditAddress => PlanPageInv'
<1> SUFFICES ASSUME PlanPageInv, EditAddress
             PROVE  PlanPageInv'
  OBVIOUS
<1>1. /\ controls.mounted /\ controls.enabled /\ controls.busy = "idle"
      /\ UNCHANGED <<saved, asked, operations>>
  BY DEF EditAddress, Interactive, Usable, pageVars
<1>2. OperationsInv(resultPage', controls', operations')
  BY <1>1, IdleOperations, OutdatedInv
<1>3. CASE /\ controls' = WithoutOrigin(controls)
           /\ resultPage' = ApplyTravelResult(resultPage, NotRequested)
  <2>1. /\ ResultInv(resultPage') /\ PlansShown(resultPage')
        /\ resultPage'.travel = "not-requested" /\ resultPage'.basket = resultPage.basket
    BY <1>1, <1>3, WhileMounted, Forgotten
  <2>2. /\ controls' \in ControlStates /\ controls'.mounted /\ controls'.enabled
        /\ controls'.selection = NoToken /\ controls'.candidates = {}
        /\ controls'.busy = "idle" /\ ~controls'.calculated
    BY <1>1, <1>3, WhileMounted DEF WithoutOrigin, ControlStates, MaybeToken
  <2>3. ControlsInv(resultPage', controls')
    BY <2>1, <2>2 DEF ControlsInv
  <2> QED
    BY <1>1, <1>2, <2>1, <2>3, WhileMounted, PlanPageStep DEF PlanPageInv, AskedInv
<1>4. CASE controls' = [controls EXCEPT !.candidates = {}] /\ UNCHANGED resultPage
  <2>1. ControlsInv(resultPage', controls')
    BY <1>4 DEF PlanPageInv, ControlsInv, ControlStates
  <2> QED
    BY <1>1, <1>2, <1>4, <2>1, PlanPageStep DEF PlanPageInv
<1> QED
  BY <1>3, <1>4 DEF EditAddress

(* The candidates are closed. *)
LEMMA CloseInv == PlanPageInv /\ CloseCandidates => PlanPageInv'
<1> SUFFICES ASSUME PlanPageInv, CloseCandidates
             PROVE  PlanPageInv'
  OBVIOUS
<1>1. /\ controls.busy = "idle" /\ controls' = [controls EXCEPT !.candidates = {}]
      /\ UNCHANGED <<saved, asked, resultPage, operations>>
  BY DEF CloseCandidates, Interactive, pageVars
<1>2. ControlsInv(resultPage', controls')
  BY <1>1 DEF PlanPageInv, ControlsInv, ControlStates
<1> QED
  BY <1>1, <1>2, IdleOperations, OutdatedInv, PlanPageStep DEF PlanPageInv

-----------------------------------------------------------------------------
(* The travel controls: what they waited for.  An operation that is current
   is the only one that is, and it is the one the controls show. *)
LEMMA WhileWaiting ==
    ASSUME PlanPageInv, NEW o \in operations, o.current
    PROVE  /\ controls.mounted /\ controls.enabled /\ ~controls.calculated
           /\ controls.candidates = {} /\ controls.busy # "idle"
           /\ Waits(o, controls) /\ o.mode = controls.mode /\ o \in Operations
           /\ o.kind = "calculate" => /\ o.token = controls.selection
                                      /\ o.planning = PlanRequest(resultPage.basket)
                                      /\ controls.selection # NoToken
           /\ operations \ {o} \in SUBSET Operations
           /\ \A q \in operations \ {o} : ~q.current
<1>1. /\ o \in Operations /\ Waits(o, controls) /\ o.mode = controls.mode
      /\ o.kind = "calculate" => /\ o.token = controls.selection
                                 /\ o.planning = PlanRequest(resultPage.basket)
  BY DEF PlanPageInv, OperationsInv
<1>2. /\ operations \ {o} \in SUBSET Operations
      /\ \A q \in operations \ {o} : ~q.current
  BY DEF PlanPageInv, OperationsInv, Operations
<1>3. /\ controls.busy # "idle"
      /\ o.kind = "calculate" => controls.busy = "calculating"
  BY <1>1 DEF Waits, Operations
<1> QED
  BY <1>1, <1>2, <1>3 DEF PlanPageInv, ControlsInv

(* A late answer changes nothing. *)
LEMMA LateOperationInv ==
    ASSUME PlanPageInv, NEW o \in operations, LateOperation(o)
    PROVE  PlanPageInv'
<1>1. operations' \subseteq operations /\ UNCHANGED <<saved, asked, resultPage, controls>>
  BY DEF LateOperation, EndsOperation, pageVars
<1> QED
  BY <1>1, PlanPageStep DEF PlanPageInv, OperationsInv

(* An operation ends, and the controls are idle again. *)
LEMMA EndsIdle ==
    ASSUME PlanPageInv, NEW o \in operations, o.current, o.kind # "calculate",
           controls' = [controls EXCEPT !.busy = "idle"], EndsOperation(o),
           UNCHANGED <<pageVars, resultPage>>
    PROVE  PlanPageInv'
<1>1. controls.mounted /\ ~controls.calculated /\ controls.candidates = {}
      /\ UNCHANGED <<saved, asked, resultPage>>
  BY WhileWaiting DEF pageVars
<1>2. ControlsInv(resultPage', controls')
  BY <1>1 DEF PlanPageInv, ControlsInv, ControlStates
<1>3. OperationsInv(resultPage', controls', operations')
  BY WhileWaiting, OutdatedInv DEF EndsOperation
<1> QED
  BY <1>1, <1>2, <1>3, PlanPageStep DEF PlanPageInv

(* The position of the browser. *)
LEMMA PositionInv ==
    ASSUME PlanPageInv, NEW o \in operations, PositionAnswered(o)
    PROVE  PlanPageInv'
<1>1. o.kind = "position" /\ o.current /\ UNCHANGED <<pageVars, resultPage>>
  BY DEF PositionAnswered, OperationIsCurrent
<1>2. CASE /\ operations' = (operations \ {o}) \cup {[o EXCEPT !.kind = "location"]}
           /\ UNCHANGED controls
  <2> DEFINE q == [o EXCEPT !.kind = "location"]
  <2>1. /\ o \in Operations /\ Waits(o, controls) /\ o.mode = controls.mode
        /\ operations \ {o} \in SUBSET Operations
        /\ \A x \in operations \ {o} : ~x.current
    BY <1>1, WhileWaiting
  <2>2. q \in Operations /\ q.kind = "location" /\ q.mode = controls.mode
    BY <2>1 DEF Operations
  <2>3. controls.busy = "locating"
    BY <1>1, <2>1 DEF Waits
  <2> HIDE DEF q
  <2>4. OperationsInv(resultPage', controls', operations')
    BY <1>2, <2>1, <2>2, <2>3 DEF OperationsInv, Waits, q
  <2> QED
    BY <1>1, <1>2, <2>4, PlanPageStep DEF PlanPageInv, pageVars
<1>3. CASE controls' = [controls EXCEPT !.busy = "idle"] /\ EndsOperation(o)
  BY <1>1, <1>3, EndsIdle
<1> QED
  BY <1>2, <1>3 DEF PositionAnswered

(* The location confirmed by the server. *)
LEMMA LocationInv ==
    ASSUME PlanPageInv, NEW o \in operations, LocationAnswered(o)
    PROVE  PlanPageInv'
<1>1. o.kind = "location" /\ o.current /\ UNCHANGED pageVars
  BY DEF LocationAnswered, OperationIsCurrent
<1>2. ASSUME NEW token \in LocationToken,
             StartCalculation([controls EXCEPT !.selection = token], token, o.mode,
                              operations \ {o})
      PROVE  PlanPageInv'
  <2> DEFINE c == [controls EXCEPT !.selection = token]
  <2>1. controls.mounted /\ controls \in ControlStates /\ o.mode = controls.mode
    BY <1>1, WhileWaiting, WhileMounted
  <2>2. /\ c \in ControlStates /\ c.mounted /\ c.enabled /\ c.candidates = {}
        /\ c.selection = token /\ c.mode = o.mode
    BY <1>1, <2>1, WhileWaiting DEF ControlStates, MaybeToken
  <2>3. StartCalculation(c, c.selection, c.mode, operations \ {o})
    BY <1>2, <2>2
  <2> HIDE DEF c
  <2> QED
    BY <1>1, <2>1, <2>2, <2>3, WhileWaiting, StartInv
<1>3. CASE /\ controls' = [controls EXCEPT !.busy = "idle"] /\ EndsOperation(o)
           /\ UNCHANGED resultPage
  BY <1>1, <1>3, EndsIdle
<1> QED
  BY <1>2, <1>3 DEF LocationAnswered

(* The candidates of a search. *)
LEMMA AddressesInv ==
    ASSUME PlanPageInv, NEW o \in operations, AddressesAnswered(o)
    PROVE  PlanPageInv'
<1>1. /\ o.kind = "search" /\ o.current /\ UNCHANGED <<saved, asked, resultPage>>
      /\ operations' = operations \ {o}
  BY DEF AddressesAnswered, OperationIsCurrent, EndsOperation, pageVars
<1>2. PICK found \in SUBSET LocationToken :
           controls' = [controls EXCEPT !.busy = "idle", !.candidates = found, !.selection =
                            IF found = {} THEN NoToken ELSE @]
  BY DEF AddressesAnswered
<1>3. controls.mounted /\ controls.enabled /\ ~controls.calculated
      /\ controls.busy = "searching"
  BY <1>1, WhileWaiting DEF Waits
<1>4. ControlsInv(resultPage', controls')
  <2>1. controls \in ControlStates /\ controls.selection = NoToken
    BY <1>3 DEF PlanPageInv, ControlsInv
  <2>2. /\ controls' \in ControlStates /\ controls'.mounted /\ controls'.enabled
        /\ controls'.selection = NoToken /\ controls'.busy = "idle" /\ ~controls'.calculated
    BY <1>2, <1>3, <2>1 DEF ControlStates, MaybeToken
  <2> QED
    BY <1>1, <1>3, <2>2 DEF PlanPageInv, ControlsInv
<1>5. OperationsInv(resultPage', controls', operations')
  BY <1>1, WhileWaiting, OutdatedInv
<1> QED
  BY <1>1, <1>4, <1>5, PlanPageStep DEF PlanPageInv

(* Every way in which calculateTravel ends. *)
LEMMA FinishInv ==
    ASSUME PlanPageInv, NEW o \in operations, o.current, o.kind = "calculate",
           NEW update, NEW calculated \in BOOLEAN, Finish(controls, update, calculated),
           update.kind \in {"unavailable", "calculated"}, update.binding \in Bindings,
           update.planning = NoResponse \/ Answers(update.planning, resultPage),
           update.kind = "unavailable" => update.binding = NoBinding,
           update.kind = "calculated" =>
               /\ update.planning # NoResponse /\ update.planning.plans # <<>>
               /\ update.binding = [mode |-> o.mode, token |-> o.token,
                                    planning |-> update.planning],
           calculated <=> update.kind = "calculated",
           operations' = IF PlansShown(resultPage') THEN operations \ {o}
                         ELSE Outdated(operations \ {o}),
           UNCHANGED pageVars
    PROVE  PlanPageInv'
<1>1. /\ controls.mounted /\ controls.enabled /\ controls.candidates = {}
      /\ controls.selection # NoToken /\ o.mode = controls.mode /\ o.token = controls.selection
      /\ operations \ {o} \in SUBSET Operations /\ \A q \in operations \ {o} : ~q.current
  BY WhileWaiting
<1>2. ResultInv(resultPage) /\ resultPage.status = "ready" /\ controls \in ControlStates
  BY <1>1, WhileMounted
<1> DEFINE next == ApplyTravelResult(resultPage, update)
           c == [controls EXCEPT !.busy = "idle", !.calculated = calculated]
<1>3. /\ ResultInv(next) /\ next.basket = resultPage.basket /\ next.travel = update.kind
      /\ next.travelBinding = update.binding /\ next.travelPlanning = update.planning
      /\ PlansShown(next) <=> update.planning = NoResponse \/ update.planning.plans # <<>>
  BY <1>2, TravelResult DEF TravelKind
<1>4. /\ c \in ControlStates /\ c.mounted /\ c.enabled /\ c.candidates = {} /\ c.busy = "idle"
      /\ c.mode = controls.mode /\ c.selection = controls.selection /\ c.calculated = calculated
  BY <1>1, <1>2 DEF ControlStates
<1>5. resultPage' = next /\ controls' = ControlsOn(next, c)
  BY DEF Finish
<1> HIDE DEF next, c
<1>6. ControlsInv(next, controls')
  <2>1. CASE PlansShown(next)
    BY <1>1, <1>3, <1>4, <1>5, <2>1 DEF ControlsInv, ControlsOn
  <2>2. CASE ~PlansShown(next)
    BY <1>3, <1>5, <2>2, FreshInv DEF ControlsOn
  <2> QED
    BY <2>1, <2>2
<1>7. OperationsInv(next, controls', operations')
  BY <1>1, OutdatedTyped, OutdatedInv
<1> QED
  BY <1>1, <1>3, <1>5, <1>6, <1>7, WhileMounted, PlanPageStep DEF PlanPageInv, AskedInv, pageVars

(* The route, or none. *)
LEMMA TravelInv ==
    ASSUME PlanPageInv, NEW o \in operations, TravelAnswered(o)
    PROVE  PlanPageInv'
<1>1. /\ o.kind = "calculate" /\ o.current /\ UNCHANGED pageVars
      /\ operations' = IF PlansShown(resultPage') THEN operations \ {o}
                       ELSE Outdated(operations \ {o})
  BY DEF TravelAnswered, OperationIsCurrent
<1>2. /\ o.planning = PlanRequest(resultPage.basket) /\ o.planning \in Requests
      /\ o.mode \in TravelMode /\ o.token \in MaybeToken
  BY <1>1, WhileWaiting, WhileMounted, RequestOf DEF Operations
<1>3. ASSUME NEW plans \in PlanLists, NEW offered \in SUBSET Program
      PROVE  /\ Answers(Response(o.planning, plans, offered), resultPage)
             /\ Response(o.planning, plans, offered).plans = plans
  BY <1>2 DEF Answers, Response, Responses
<1>4. ASSUME NEW planning
      PROVE  /\ Unavailable(planning).kind = "unavailable"
             /\ Unavailable(planning).planning = planning
             /\ Unavailable(planning).binding = NoBinding
  BY DEF Unavailable, NotRequested
<1>5. CASE Finish(controls, Unavailable(NoResponse), FALSE)
  BY <1>1, <1>4, <1>5, NothingTyped, FinishInv
<1>6. ASSUME NEW plans \in PlanLists, NEW offered \in SUBSET Program,
             Finish(controls, Unavailable(Response(o.planning, plans, offered)), FALSE)
      PROVE  PlanPageInv'
  BY <1>1, <1>3, <1>4, <1>6, NothingTyped, FinishInv
<1>7. ASSUME NEW plans \in PlanLists \ {<<>>}, NEW offered \in SUBSET Program,
             LET planning == Response(o.planning, plans, offered)
             IN  Finish(controls,
                        [kind |-> "calculated", planning |-> planning,
                         binding |-> [mode |-> o.mode, token |-> o.token, planning |-> planning]],
                        TRUE)
      PROVE  PlanPageInv'
  <2> DEFINE planning == Response(o.planning, plans, offered)
             binding == [mode |-> o.mode, token |-> o.token, planning |-> planning]
             update == [kind |-> "calculated", planning |-> planning, binding |-> binding]
  <2>1. Answers(planning, resultPage) /\ planning.plans # <<>> /\ planning \in Responses
    BY <1>3 DEF Answers
  <2>2. planning # NoResponse /\ planning \in MaybeResponse
    BY <2>1, NothingTyped DEF MaybeResponse
  <2>3. binding \in Bindings
    BY <1>2, <2>2 DEF Bindings
  <2>4. Finish(controls, update, TRUE)
    BY <1>7
  <2>5. update.kind = "calculated" /\ update.planning = planning /\ update.binding = binding
    OBVIOUS
  <2>6. binding = [mode |-> o.mode, token |-> o.token, planning |-> planning]
    OBVIOUS
  <2> HIDE DEF planning, binding, update
  <2> QED
    BY <1>1, <2>1, <2>2, <2>3, <2>4, <2>5, <2>6, FinishInv
<1> QED
  BY <1>5, <1>6, <1>7 DEF TravelAnswered

-----------------------------------------------------------------------------
(* Every step of the page keeps its invariant. *)
LEMMA PlanPageInductive == PlanPageInv /\ [PlanPageNext]_planPageVars => PlanPageInv'
<1> SUFFICES ASSUME PlanPageInv, [PlanPageNext]_planPageVars
             PROVE  PlanPageInv'
  OBVIOUS
<1>1. CASE UNCHANGED planPageVars
  BY <1>1, PlanPageStep DEF planPageVars, PlanPageInv
<1>2. ASSUME NEW a \in asked, NoPlansAnswered(a) \/ PlansAnswered(a)
      PROVE  PlanPageInv'
  BY <1>2, NoPlansInv, PlansAnsweredInv
<1>3. ASSUME NEW o \in operations,
             \/ LateOperation(o) \/ PositionAnswered(o) \/ LocationAnswered(o)
             \/ AddressesAnswered(o) \/ TravelAnswered(o)
      PROVE  PlanPageInv'
  BY <1>3, LateOperationInv, PositionInv, LocationInv, AddressesInv, TravelInv
<1> QED
  BY <1>1, <1>2, <1>3, OtherTabInv, ReloadInv, RetryPlansInv, SelectInv, MembershipInv, EnableInv,
     ResetInv, OriginInv, EditInv, CloseInv, ModeInv, ConfirmChoiceInv DEF PlanPageNext

(* The invariant holds in every state. *)
LEMMA PlanPageInvariant == PlanPageSpec => []PlanPageInv
BY PlanPageInitInv, PlanPageInductive, PTL DEF PlanPageSpec

(* For any baskets, programs and lists of plans and in any order of the answers:
   while plans are shown, they and the price plans under them answer the basket
   of the page, one of them is selected, and no request for others is under way. *)
THEOREM PlansAreCurrent == PlanPageSpec => [](PlanPageTypeOK /\ PlansAnswerTheBasket)
<1>1. PlanPageInv => PlanPageTypeOK
  BY NothingTyped DEF PlanPageInv, PlanPageTypeOK, ResultInv, ControlsInv, ResultPages,
     ControlStates, MaybeResponse, Responses, Requests, TypeOfResponse, MaybeToken, TravelKind
<1>2. PlanPageInv => PlansAnswerTheBasket
  BY DEF PlanPageInv, PlansAnswerTheBasket, PlansShown, ResultInv, AskedInv, Answers,
         ActiveResponse
<1> QED
  BY PlanPageInvariant, <1>1, <1>2, PTL

(* Travel times are on the page exactly when the controls say so, for the start,
   the means of transport and the plans that are shown; and once travel is
   switched off, the page hidden or the plans left, nothing of the start is kept
   and no late position, address or route brings it back. *)
THEOREM TravelIsCurrent == PlanPageSpec => []TravelBelongsToThePlans
<1>1. PlanPageInv => TravelBelongsToThePlans
  BY DEF PlanPageInv, TravelBelongsToThePlans, PlansShown, ResultInv, ControlsInv,
         ActiveResponse, Usable
<1> QED
  BY PlanPageInvariant, <1>1, PTL

=============================================================================
