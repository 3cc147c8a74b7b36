------------------------------ MODULE Planner ------------------------------
(***************************************************************************)
(* How a basket becomes the plans a shopper sees: the price planner        *)
(* (packages/domain/src/planner-v2.ts, fulfilment.ts), the frontier and    *)
(* its representatives (frontier-v2.ts), the round trip of a plan          *)
(* (route-order.ts) and the request that joins them                        *)
(* (apps/web/lib/server/travel/travel-service.ts, travel-plan-service.ts). *)
(* The algorithms are operators; a request is a small state machine that   *)
(* can fail or be cancelled at every await.                                *)
(*                                                                         *)
(* A price is 0 where no eligible price is known.  `fits' holds the        *)
(* products that match a need and are sold in its unit.  How many needs    *)
(* may be substituted is the same for every plan of a request, so the      *)
(* comparisons leave substitutions out.  Dates, places and memberships of  *)
(* an offer are decided before it reaches `offers'.                        *)
(***************************************************************************)
EXTENDS Integers, FiniteSets, Sequences, SequencesExt

CONSTANTS
  Chain,            \* numbers in CHAIN_ORDER
  Product,          \* numbers in the order of the EANs
  Need,             \* 1..n in the order of the ids
  Basket,           \* the requests: see IsRequest
  MoneyCap,         \* MAX_PERSISTED_MONEY_ORE
  Representatives,  \* 7 plans at most are shown
  TravelPlans,      \* 7 plans at most are routed (parseCandidates)
  TravelChains      \* 3 chains at most are routed (branch snapshot and matrix)

(* A parsed request and its evidence.  A basket whose chains have no branch *)
(* nearby is one that TravelUnavailable answers.                           *)
IsRequest(b) ==
  /\ b.maxStores \in 1..3
  /\ b.price \in [Product -> [Chain -> Nat]] /\ b.size \in [Product -> Nat \ {0}]
  /\ \A n \in Need : b.fits[n] \subseteq Product /\ b.asked[n].amount \in Nat \ {0}
  /\ \A o \in b.offers : /\ o.kind \in {"unit", "multibuy"} /\ o.ore \in Nat
                         /\ o.kind = "multibuy" => o.quantity \in Nat \ {0}
  /\ \A c \in Chain : b.at[c] \subseteq Int /\ b.at[c] # {}

ASSUME PlannerAssumption ==
  /\ Chain \subseteq Nat /\ IsFiniteSet(Chain) /\ Product \subseteq Nat /\ IsFiniteSet(Product)
  /\ Cardinality(Need) \in Nat \ {0} /\ Need = 1..Cardinality(Need)
  /\ MoneyCap \in Nat /\ Representatives \in Nat \ {0}
  /\ \A b \in Basket : IsRequest(b)

VARIABLES
  basket,     \* the parsed request and the evidence it is planned on
  step,       \* what the request waits for
  complete,   \* completeCandidateSet: every complete plan, before dominance
  answer      \* the plans shown, in order, and whether travel backs them

planVars == <<basket, step, complete, answer>>

-----------------------------------------------------------------------------
(* Packages and checkout (fulfilment.ts).                                  *)

(* The smallest whole number of packages, or the number asked for.         *)
PackageCount(b, n, p) ==
  IF b.asked[n].unit = "package" THEN b.asked[n].amount
  ELSE (b.asked[n].amount + b.size[p] - 1) \div b.size[p]

Ordinary(b, n, p, c) == PackageCount(b, n, p) * b.price[p][c]

WholeGroupsOnlyMutant(o, count, unit) ==
  IF o.kind = "unit" THEN count * o.ore
  ELSE ((count + o.quantity - 1) \div o.quantity) * o.ore

(* What an offer makes of a number of packages: its unit price, or whole   *)
(* groups at the group's price and the rest at the ordinary one.           *)
OfferTotal(o, count, unit) ==
  IF o.kind = "unit" THEN count * o.ore
  ELSE (count \div o.quantity) * o.ore + (count % o.quantity) * unit

(* An offer counts when its minimum is met, its total is representable and *)
(* it is cheaper than the ordinary price.                                  *)
OfferTotals(b, n, p, c) ==
  LET count == PackageCount(b, n, p)
      mine  == {o \in b.offers : o.product = p /\ o.chain = c /\ count >= o.minimum}
  IN  {t \in {OfferTotal(o, count, b.price[p][c]) : o \in mine} :
         t <= MoneyCap /\ t < Ordinary(b, n, p, c)}

Checkout(b, n, p, c) == Min({Ordinary(b, n, p, c)} \cup OfferTotals(b, n, p, c))

(* bestCheckout drops a product whose ordinary total is not representable. *)
Buyable(b, n, S) ==
  {pc \in b.fits[n] \X S :
     b.price[pc[1]][pc[2]] > 0 /\ Ordinary(b, n, pc[1], pc[2]) <= MoneyCap}

-----------------------------------------------------------------------------
(* Enumeration (planner-v2.ts): one plan per set of chains.                *)

(* Order of numbers compared from the left. *)
Before(s, t) ==
  \E i \in 1..Len(s) : s[i] < t[i] /\ \A j \in 1..(i - 1) : s[j] = t[j]

(* compareCandidates: cost, ordinary total, EAN, chain. *)
Preference(b, n, pc) ==
  <<Checkout(b, n, pc[1], pc[2]), Ordinary(b, n, pc[1], pc[2]), pc[1], pc[2]>>

Selected(b, n, S) ==
  CHOOSE x \in Buyable(b, n, S) :
    \A y \in Buyable(b, n, S) \ {x} : Before(Preference(b, n, x), Preference(b, n, y))

(* A plan of the assignments `take'; `travel' is 0 without travel evidence. *)
PlanOf(b, take) ==
  [take   |-> take,
   total  |-> SumFunction([n \in Need |-> Checkout(b, n, take[n][1], take[n][2])]),
   chains |-> {take[n][2] : n \in Need},
   travel |-> 0]

Subsets(b) ==
  LET available == {c \in Chain : \E p \in Product : b.price[p][c] > 0}
  IN  {S \in SUBSET available : Cardinality(S) \in 1..Min({b.maxStores, 3})}

(* enumerateCompletePlanCandidatesV2: a set, since plans with the same     *)
(* assignments are kept once.                                              *)
Candidates(b) ==
  LET whole  == {S \in Subsets(b) : \A n \in Need : Buyable(b, n, S) # {}}
      plans  == {PlanOf(b, [n \in Need |-> Selected(b, n, S)]) : S \in whole}
  IN  {p \in plans : p.total <= MoneyCap /\ Cardinality(p.chains) <= b.maxStores}

-----------------------------------------------------------------------------
(* The frontier and its order (frontier-v2.ts).                            *)

Stores(p) == Cardinality(p.chains)

Dominates(p, q) ==
  /\ p.total <= q.total /\ Stores(p) <= Stores(q) /\ p.travel <= q.travel
  /\ p.total < q.total \/ Stores(p) < Stores(q) \/ p.travel < q.travel

Undominated(P) == {p \in P : ~ \E q \in P : Dominates(q, p)}

(* The last criterion is the id, a hash of the assignments: any fixed      *)
(* order of them stands for it.                                            *)
Id(p)          == [i \in 1..(2 * Cardinality(Need)) |-> p.take[(i + 1) \div 2][2 - (i % 2)]]
Convenience(p) == <<Stores(p), p.travel, p.total>> \o Id(p)
Savings(p)     == <<p.total, p.travel, Stores(p)>> \o Id(p)
Middle(p)      == <<Stores(p), p.travel, 0 - p.total>> \o Id(p)

First(P, key(_)) == CHOOSE p \in P : \A q \in P \ {p} : Before(key(p), key(q))

(* The elements of S in the order of their keys, which differ. *)
Arranged(S, key(_)) ==
  [i \in 1..Cardinality(S) |->
     CHOOSE x \in S : Cardinality({y \in S : Before(key(y), key(x))}) = i - 1]

(* orderCohort: the convenient end, the middle, the cheap end. *)
Ordered(P) ==
  IF P = {} THEN <<>>
  ELSE LET conv == First(P, Convenience)
           save == First(P, Savings)
       IN  <<conv>> \o Arranged(P \ {conv, save}, Middle) \o (IF conv = save THEN <<>> ELSE <<save>>)

Frontier(P) == Ordered(Undominated(P))

(* The position among I that is farthest from the chosen ones. *)
Farthest(I, chosen) ==
  LET distance(i) == Min({IF i > j THEN i - j ELSE j - i : j \in chosen})
  IN  CHOOSE i \in I : \A k \in I \ {i} :
        distance(k) < distance(i) \/ (distance(k) = distance(i) /\ i < k)

EvenlySpacedMutant(ordered) ==
  LET step3 == (Len(ordered) - 1) \div (Representatives - 1)
  IN  IF Len(ordered) <= Representatives THEN ordered
      ELSE [i \in 1..Representatives |-> ordered[1 + (i - 1) * step3]]

(* While there is room: one plan for a number of stores that has none,    *)
(* and whatever plan is farthest.                                          *)
Room(chosen) == Cardinality(chosen) < Representatives

OfCount(ordered, k) == {i \in DOMAIN ordered : Stores(ordered[i]) = k}

AddCount(ordered, chosen, k) ==
  IF Room(chosen) /\ OfCount(ordered, k) # {} /\ OfCount(ordered, k) \cap chosen = {}
  THEN chosen \cup {Farthest(OfCount(ordered, k), chosen)} ELSE chosen

AddFarthest(ordered, chosen) ==
  IF Room(chosen) THEN chosen \cup {Farthest(DOMAIN ordered \ chosen, chosen)} ELSE chosen

(* Both ends, one plan per number of stores, then the farthest plans. *)
Counted(ordered) ==
  AddCount(ordered, AddCount(ordered, AddCount(ordered, {1, Len(ordered)}, 1), 2), 3)

Chosen(ordered) ==
  LET grown[k \in Nat] ==
        IF k = 0 THEN Counted(ordered) ELSE AddFarthest(ordered, grown[k - 1])
  IN  grown[Representatives]

Increasing(S) == Arranged(S, LAMBDA i : <<i>>)

(* projectRepresentativesV2. *)
Project(ordered) ==
  IF Len(ordered) <= Representatives THEN ordered
  ELSE IF Representatives = 1 THEN <<ordered[1]>>
  ELSE LET order == Increasing(Chosen(ordered))
       IN  [i \in 1..Len(order) |-> ordered[order[i]]]

-----------------------------------------------------------------------------
(* The round trip of a plan (route-order.ts): every choice of one branch   *)
(* per chain in every order, on the matrix of a gateway.  The gateway is   *)
(* external: places on a line, 0 the origin, stand for its matrix.         *)

Cell(x, y) == IF x > y THEN x - y ELSE y - x

Duration(stops) ==
  LET tour == <<0>> \o stops \o <<0>>
  IN  SumFunction([i \in 1..(Len(tour) - 1) |-> Cell(tour[i], tour[i + 1])])

BestRoundTrip(b, chains) ==
  LET branches == UNION {b.at[c] : c \in chains}
      choices  == {f \in [chains -> branches] : \A c \in chains : f[c] \in b.at[c]}
  IN  Min({Duration([i \in DOMAIN order |-> f[order[i]]]) :
             f \in choices, order \in SetToSeqs(chains)})

(* attachOptionalTravelEvidenceV2, once every plan has a round trip. *)
Attached(b, P) == {[p EXCEPT !.travel = BestRoundTrip(b, p.chains)] : p \in P}

-----------------------------------------------------------------------------
(* The request (TravelPlanCoordinator.calculate).                          *)

PlanInit ==
  /\ basket \in Basket
  /\ step = "planning"
  /\ complete = {}
  /\ answer = [kind |-> "none", plans |-> <<>>]

PrunedBeforeTravelMutant ==
  /\ step = "planning"
  /\ complete' = Undominated(Candidates(basket))
  /\ answer' = [kind |-> "price-only", plans |-> Project(Frontier(Candidates(basket)))]
  /\ step' = IF Candidates(basket) = {} THEN "answered" ELSE "origin"
  /\ UNCHANGED basket

(* calculateExact or calculateReviewed: the complete plans, and the price- *)
(* only answer that stands if travel does not work out.                    *)
PlanPrices ==
  /\ step = "planning"
  /\ complete' = Candidates(basket)
  /\ answer' = [kind |-> "price-only", plans |-> Project(Frontier(Candidates(basket)))]
  /\ step' = IF Candidates(basket) = {} THEN "answered" ELSE "origin"
  /\ UNCHANGED basket

(* The price-only answer is given: the switch is off, the token of the     *)
(* origin is unknown, a gateway fails or times out, a chain has no branch  *)
(* nearby, or a cell of the matrix is missing.                             *)
TravelUnavailable ==
  /\ step \in {"origin", "branches", "matrix"}
  /\ step' = "answered"
  /\ UNCHANGED <<basket, complete, answer>>

(* The origin is resolved and TravelService takes the plans, or refuses to *)
(* (parseCandidates), which the coordinator turns into price-only.         *)
ResolveOrigin ==
  /\ step = "origin"
  /\ step' = IF Cardinality(complete) <= TravelPlans THEN "branches" ELSE "answered"
  /\ UNCHANGED <<basket, complete, answer>>

(* A branch snapshot holds TravelChains chains at most. *)
LoadBranches ==
  /\ step = "branches"
  /\ step' = IF Cardinality(UNION {p.chains : p \in complete}) <= TravelChains
             THEN "matrix" ELSE "answered"
  /\ UNCHANGED <<basket, complete, answer>>

(* The whole matrix answers: every complete plan gets its round trip, then *)
(* the frontier is taken.                                                  *)
CalculateTravel ==
  /\ step = "matrix"
  /\ step' = "answered"
  /\ answer' = [kind |-> "travel", plans |-> Project(Frontier(Attached(basket, complete)))]
  /\ UNCHANGED <<basket, complete>>

(* The client is gone: nothing is answered, wherever the request is. *)
CancelRequest ==
  /\ step # "answered"
  /\ step' = "answered"
  /\ answer' = [kind |-> "cancelled", plans |-> <<>>]
  /\ UNCHANGED <<basket, complete>>

PlanNext ==
  \/ PlanPrices \/ TravelUnavailable \/ ResolveOrigin \/ LoadBranches
  \/ CalculateTravel \/ CancelRequest

PlanSpec == PlanInit /\ [][PlanNext]_planVars

-----------------------------------------------------------------------------
(* The reference: what a shopper could do with the same prices.            *)

(* The least that can be paid for a product at a chain: any number of      *)
(* whole groups of one offer, and the rest at the ordinary price.          *)
LeastPaid(b, n, p, c) ==
  LET count == PackageCount(b, n, p)
      mine  == {o \in b.offers : o.product = p /\ o.chain = c /\ count >= o.minimum}
      units == {count * o.ore : o \in {x \in mine : x.kind = "unit"}}
      bundles == UNION {{g * o.ore + (count - g * o.quantity) * b.price[p][c] :
                           g \in 0..(count \div o.quantity)} :
                        o \in {x \in mine : x.kind = "multibuy"}}
  IN  Min({count * b.price[p][c]} \cup units \cup bundles)

(* Every way to buy the whole basket in the stores allowed, as the plan it *)
(* would be.  A line or a total above the money contract cannot be stored. *)
Possible(b) ==
  LET takes == {t \in [Need -> Product \X Chain] :
                  /\ \A n \in Need : t[n] \in Buyable(b, n, Chain)
                  /\ Cardinality({t[n][2] : n \in Need}) <= b.maxStores}
      plan(t) == [take   |-> t,
                  total  |-> SumFunction([n \in Need |-> LeastPaid(b, n, t[n][1], t[n][2])]),
                  chains |-> {t[n][2] : n \in Need},
                  travel |-> IF answer.kind = "travel"
                             THEN BestRoundTrip(b, {t[n][2] : n \in Need}) ELSE 0]
  IN  {q \in {plan(t) : t \in takes} : q.total <= MoneyCap}

Shown    == ToSet(answer.plans)
Answered == step = "answered" /\ answer.kind # "cancelled"

(* Unless plans had to be left out of the answer, nothing a shopper could  *)
(* do is better than all of it: every way to buy the basket is matched by  *)
(* a shown plan that costs no more, visits no more stores and, when travel *)
(* was calculated, takes no longer.  The planner looks at one assignment   *)
(* per set of chains only, takes the cheapest product of each need on its  *)
(* own and drops dominated plans, so this is not obvious; with travel it   *)
(* needs the complete set (the comment above calculatePlansV2).            *)
NothingBetterIsMissed ==
  Answered /\ Len(answer.plans) < Representatives =>
    \A q \in Possible(basket) : \E p \in Shown :
      p.total <= q.total /\ Stores(p) <= Stores(q) /\ p.travel <= q.travel

(* What is left out when there are too many plans keeps the choice whole   *)
(* (docs/superpowers/specs/2026-07-15-handleplan-design.md:98-102): the    *)
(* first plan has the fewest stores any shopper could manage with, then    *)
(* the shortest trip, then the lowest total; some plan has the lowest      *)
(* total; and every number of stores of the frontier is there while there  *)
(* is room beside the two ends.                                            *)
ShownPlansSpanTheChoice ==
  Answered /\ Shown # {} =>
    LET possible == Possible(basket)
        frontier == Frontier(IF answer.kind = "travel" THEN Attached(basket, complete)
                             ELSE complete)
        ends     == {Stores(frontier[1]), Stores(frontier[Len(frontier)])}
        counts   == {Stores(p) : p \in ToSet(frontier)}
        key(p)   == <<Stores(p), p.travel, p.total>>
    IN  /\ \A q \in possible : ~ Before(key(q), key(answer.plans[1]))
        /\ \E p \in Shown : \A q \in possible : p.total <= q.total
        /\ Cardinality(counts \ ends) + 2 <= Representatives => counts = {Stores(p) : p \in Shown}
        /\ Len(answer.plans) = Min({Len(frontier), Representatives})

(* "Optional routing evaluates the entire set first, so a price-dominated  *)
(* plan can legitimately enter the final frontier when its journey is      *)
(* shorter" (docs/contracts/v1-plan-delta-explanations.md:31): every       *)
(* complete set that reaches TravelService is one that it can route, so    *)
(* that only a failure keeps travel from the answer.                       *)
EntireSetIsRouted ==
  step \in {"origin", "branches", "matrix"} =>
    /\ Cardinality(complete) <= TravelPlans
    /\ Cardinality(UNION {p.chains : p \in complete}) <= TravelChains

=============================================================================
