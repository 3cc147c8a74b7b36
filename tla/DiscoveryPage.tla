--------------------------- MODULE DiscoveryPage ---------------------------
(* The discovery page in the browser (Oppdag): the list of catalogue        *)
(* products for the market and the filters chosen, and the batch under it   *)
(* that asks what adding or replacing products would do to the basket.      *)
(*                                                                          *)
(* Answers arrive late and in any order; each belongs to a request whose    *)
(* AbortController may have been aborted since.  Query, category, chain and *)
(* type are one filter.  A need of the basket is a product, or "family"     *)
(* when it is approved for a family of products.                            *)
(*                                                                          *)
(* A ...Mutant is a deliberate error in the definition after it.            *)
EXTENDS Naturals, Sequences, FiniteSets

CONSTANTS
    Market, NoMarket,       \* price markets, and none chosen
    Filter,                 \* what the list may be filtered by
    CatalogProduct,
    BasketNeedsMax,         \* BASKET_NEEDS_MAX
    MaxCursor,              \* bound: pages after the first one
    MaxSearches, MaxImpacts \* bounds: requests in flight

ASSUME DiscoveryPageAssumption ==
    /\ NoMarket \notin Market /\ "family" \notin CatalogProduct /\ "free" \notin CatalogProduct
    /\ BasketNeedsMax \in Nat /\ MaxCursor \in Nat
    /\ MaxSearches \in Nat /\ MaxImpacts \in Nat

VARIABLES
    shopping,  \* the basket as the page has it
    listing,      \* filter, pageCursors, status and result of the workspace
    searches,  \* searches in flight
    batch,     \* the state of DiscoveryImpactBatch
    impacts    \* impact calculations in flight

discoveryVars == <<shopping, listing, searches, batch, impacts>>

-----------------------------------------------------------------------------
(* The basket. *)

BasketNeed == 1..BasketNeedsMax
Needed(basket) == {n \in BasketNeed : basket.needs[n] # "free"}
Exactly(basket, product) == \E n \in BasketNeed : basket.needs[n] = product
RequestIsReady(basket) == Needed(basket) # {} /\ basket.market # NoMarket

(* addExactProductToBasket returns the basket itself when it is full or has *)
(* the product; the identity it creates for the need is a free one.         *)
MayAdd(basket, product) == Needed(basket) # BasketNeed /\ ~Exactly(basket, product)
WithProduct(basket, product) ==
    IF MayAdd(basket, product)
    THEN [basket EXCEPT !.needs[CHOOSE n \in BasketNeed : basket.needs[n] = "free"] = product]
    ELSE basket

(* setBasketNeedToExactProduct, likewise. *)
MaySet(basket, n, product) == n \in Needed(basket) /\ basket.needs[n] # product
WithNeed(basket, n, product) ==
    IF MaySet(basket, n, product) THEN [basket EXCEPT !.needs[n] = product] ELSE basket

(* Locking a need to a reviewed candidate is a replacement of it.           *)
Action == [kind : {"add"}, product : CatalogProduct, need : {0}]
            \cup [kind : {"replace"}, product : CatalogProduct, need : BasketNeed]

(* What a choice offers, and what actionStillValid demands of it later. *)
ActionOffered(basket, action) ==
    IF action.kind = "add" THEN MayAdd(basket, action.product)
    ELSE MaySet(basket, action.need, action.product)

Applied(basket, action) ==
    IF action.kind = "add" THEN WithProduct(basket, action.product)
    ELSE WithNeed(basket, action.need, action.product)

-----------------------------------------------------------------------------
(* The list. *)

NoResult == [products |-> {}, more |-> FALSE, of |-> "nothing"]
Result(request, products, more) == [products |-> products, more |-> more, of |-> request]

(* pageCursors, without the undefined one of the first page. *)
NoCursor == [number |-> 0]
NextCursor(request) == [number |-> request.cursor.number + 1,
                        market |-> request.market, filter |-> request.filter]
SearchRequest(basket, v) ==
    [market |-> basket.market, filter |-> v.filter,
     cursor |-> IF v.cursors = <<>> THEN NoCursor ELSE v.cursors[Len(v.cursors)]]

EffectiveStatus(basket, v) == IF basket.market = NoMarket THEN "market-required" ELSE v.status
VisibleProducts(basket, v) ==
    IF EffectiveStatus(basket, v) = "ready" THEN v.result.products ELSE {}

(* The search effect: its cleanup aborts the search before. *)
AbortAll(flying) == {[f EXCEPT !.current = FALSE] : f \in flying}
Search(basket, v) ==
    /\ Cardinality(searches) < MaxSearches
    /\ searches' = AbortAll(searches) \cup
           (IF basket.market = NoMarket THEN {}
            ELSE {[request |-> SearchRequest(basket, v), current |-> TRUE]})

-----------------------------------------------------------------------------
(* The batch. *)

NoBatch == [actions |-> {}]
FreshBatch == [chosen |-> {}, pending |-> NoBatch, completed |-> NoBatch, status |-> "idle"]

(* The key under which React keeps the state of the batch; it is mounted    *)
(* while products are shown.                                                *)
BatchKeyMutant(basket, v) == VisibleProducts(basket, v)
BatchKey(basket, v) == <<basket, VisibleProducts(basket, v)>>

(* The page is rendered with another basket or listing. *)
Render(basket, v) ==
    /\ shopping' = basket /\ listing' = v
    /\ IF BatchKey(basket, v) = BatchKey(shopping, listing)
       THEN UNCHANGED <<batch, impacts>>
       ELSE batch' = FreshBatch /\ impacts' = AbortAll(impacts)

ImpactRequest ==
    [basket |-> shopping, actions |-> {a \in batch.chosen : ActionOffered(shopping, a)}]

Execute(request) ==
    /\ Cardinality(impacts) < MaxImpacts
    /\ batch' = [FreshBatch EXCEPT !.chosen = batch.chosen, !.status = "loading"]
    /\ impacts' = AbortAll(impacts) \cup {[request |-> request, current |-> TRUE]}

(* What a change of the choices leaves of the batch. *)
Choosing(chosen) == batch' = [FreshBatch EXCEPT !.chosen = chosen]

-----------------------------------------------------------------------------
DiscoveryTypeOK ==
    /\ shopping.market \in Market \cup {NoMarket}
    /\ shopping.needs \in [BasketNeed -> CatalogProduct \cup {"free", "family"}]
    /\ listing.filter \in Filter /\ listing.status \in {"loading", "ready", "error"}
    /\ listing.result.products \subseteq CatalogProduct
    /\ Len(listing.cursors) <= MaxCursor
    /\ batch.chosen \subseteq Action /\ batch.status \in {"idle", "loading", "error"}
    /\ \A a, b \in batch.chosen : a.product = b.product => a = b

DiscoveryInit ==
    /\ shopping \in [market : Market \cup {NoMarket},
                     needs : {[n \in BasketNeed |-> IF n = 1 THEN first ELSE "free"] :
                                  first \in {"free", "family"}}]
    /\ listing \in [filter : Filter, cursors : {<<>>}, status : {"loading"}, result : {NoResult}]
    /\ searches = IF shopping.market = NoMarket THEN {}
                  ELSE {[request |-> SearchRequest(shopping, listing), current |-> TRUE]}
    /\ batch = FreshBatch
    /\ impacts = {}

-----------------------------------------------------------------------------
(* The list: what is done with it, and its answers. *)

(* A query, a category, all of them, a chain or a type. *)
SetFilter(filter) ==
    LET v == [listing EXCEPT !.filter = filter, !.cursors = <<>>, !.status = "loading"]
    IN  Render(shopping, v) /\ Search(shopping, v)

ChangeMarket(market) ==
    LET basket == [shopping EXCEPT !.market = market]
        v == [listing EXCEPT !.cursors = <<>>, !.status = "loading"]
    IN  Render(basket, v) /\ Search(basket, v)

RetrySearch ==
    LET v == [listing EXCEPT !.status = "loading"]
    IN  /\ EffectiveStatus(shopping, listing) = "error"
        /\ Render(shopping, v) /\ Search(shopping, v)

TurnPage(cursors) ==
    LET v == [listing EXCEPT !.cursors = cursors, !.status = "loading"]
    IN  /\ EffectiveStatus(shopping, listing) = "ready"
        /\ Render(shopping, v) /\ Search(shopping, v)
PreviousPage == listing.cursors # <<>> /\ TurnPage(SubSeq(listing.cursors, 1, Len(listing.cursors) - 1))
NextPage == /\ listing.result.more /\ Len(listing.cursors) < MaxCursor
            /\ TurnPage(Append(listing.cursors, NextCursor(listing.result.of)))

AddProduct(product) ==
    /\ product \in VisibleProducts(shopping, listing)
    /\ MayAdd(shopping, product)
    /\ Render(WithProduct(shopping, product), listing)
    /\ UNCHANGED searches

IsAbortedMutant(flying) == FALSE
IsAborted(flying) == ~flying.current

LateSearch(s) ==
    /\ IsAborted(s)
    /\ searches' = searches \ {s}
    /\ UNCHANGED <<shopping, listing, batch, impacts>>

SearchAnswered(s) ==
    /\ ~IsAborted(s)
    /\ searches' = searches \ {s}
    /\ \/ \E products \in SUBSET CatalogProduct, more \in BOOLEAN :
              Render(shopping, [listing EXCEPT !.status = "ready",
                                            !.result = Result(s.request, products, more)])
       \/ Render(shopping, [listing EXCEPT !.status = "error", !.result = NoResult])

-----------------------------------------------------------------------------
(* The batch: what is done with it, and its answers. *)

listVars == <<shopping, listing, searches>>
BatchUsable == VisibleProducts(shopping, listing) # {} /\ batch.status # "loading"

ChooseAction(product) ==
    /\ BatchUsable /\ RequestIsReady(shopping) /\ product \in VisibleProducts(shopping, listing)
    /\ LET others == {a \in batch.chosen : a.product # product}
       IN  \/ Choosing(others)
           \/ \E a \in Action : /\ a.product = product /\ ActionOffered(shopping, a)
                                /\ Choosing(others \cup {a})
    /\ UNCHANGED <<listVars, impacts>>

SelectAllAdds ==
    LET adds == {a \in Action : /\ a.kind = "add" /\ ActionOffered(shopping, a)
                                /\ a.product \in VisibleProducts(shopping, listing)}
    IN  /\ BatchUsable /\ RequestIsReady(shopping) /\ adds # {}
        /\ Choosing(adds)
        /\ UNCHANGED <<listVars, impacts>>

(* Replacing products is confirmed first. *)
BeginCalculation ==
    /\ BatchUsable /\ RequestIsReady(shopping) /\ ImpactRequest.actions # {}
    /\ IF \E a \in ImpactRequest.actions : a.kind = "replace"
       THEN /\ batch' = [batch EXCEPT !.pending = ImpactRequest, !.completed = NoBatch,
                                      !.status = "idle"]
            /\ UNCHANGED impacts
       ELSE Execute(ImpactRequest)
    /\ UNCHANGED listVars

ConfirmReplacement ==
    /\ batch.pending # NoBatch
    /\ Execute(batch.pending)
    /\ UNCHANGED listVars

CancelReplacement ==
    /\ batch.pending # NoBatch
    /\ batch' = [batch EXCEPT !.pending = NoBatch]
    /\ UNCHANGED <<listVars, impacts>>

LateImpact(i) ==
    /\ IsAborted(i)
    /\ impacts' = impacts \ {i}
    /\ UNCHANGED <<listVars, batch>>

ImpactAnswered(i) ==
    /\ ~IsAborted(i)
    /\ batch' \in {[batch EXCEPT !.completed = i.request, !.status = "idle"],
                   [batch EXCEPT !.status = "error"]}
    /\ impacts' = impacts \ {i}
    /\ UNCHANGED listVars

(* An action whose outcome is shown is applied to the basket. *)
ApplyAction(a) ==
    /\ a \in batch.completed.actions
    /\ a.product \in VisibleProducts(shopping, listing)
    /\ ActionOffered(shopping, a)
    /\ Render(Applied(shopping, a), listing)
    /\ UNCHANGED searches

DiscoveryNext ==
    \/ \E filter \in Filter : SetFilter(filter)
    \/ \E market \in Market : ChangeMarket(market)
    \/ RetrySearch \/ PreviousPage \/ NextPage
    \/ \E product \in CatalogProduct : AddProduct(product) \/ ChooseAction(product)
    \/ \E s \in searches : LateSearch(s) \/ SearchAnswered(s)
    \/ SelectAllAdds \/ BeginCalculation \/ ConfirmReplacement \/ CancelReplacement
    \/ \E i \in impacts : LateImpact(i) \/ ImpactAnswered(i)
    \/ \E a \in Action : ApplyAction(a)

DiscoverySpec == DiscoveryInit /\ [][DiscoveryNext]_discoveryVars

-----------------------------------------------------------------------------
(* A list that is shown is the answer for the market, the filter and the    *)
(* page chosen now, and every page of it was turned to from a page of the   *)
(* same list: no late answer and no cursor of another list is left.         *)
ListAnswersTheChoice ==
    EffectiveStatus(shopping, listing) = "ready" =>
        /\ listing.result.of = SearchRequest(shopping, listing)
        /\ \A n \in DOMAIN listing.cursors :
               listing.cursors[n] = [number |-> n, market |-> shopping.market,
                                  filter |-> listing.filter]

(* What the batch shows, waits for or asks to be confirmed was computed for *)
(* the basket as it is, and is about products on the page: what is applied  *)
(* is what was calculated, and it can still be applied.                     *)
ImpactIsOfThisBasket ==
    \A request \in {batch.pending, batch.completed}
                     \cup {i.request : i \in {f \in impacts : f.current}} :
        request # NoBatch =>
            /\ request.basket = shopping
            /\ \A a \in request.actions : /\ a.product \in VisibleProducts(shopping, listing)
                                          /\ ActionOffered(shopping, a)
=============================================================================
