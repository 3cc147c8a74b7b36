------------------------------ MODULE PlanPage ------------------------------
(* The result page of the planner in the browser (Planlegg, resultat).      *)
(*                                                                          *)
(* The page has its own copy of the basket and asks for the plans of it.    *)
(* The travel controls on it ask for a position, an address and a route,    *)
(* one operation at a time, and hand what they learn to the page.  Answers  *)
(* arrive late and in any order, the user goes on clicking, other tabs save *)
(* the same basket, and the page is hidden, shown again and reloaded.       *)
(*                                                                          *)
(* An event handler, or what follows one await, is one action: the browser  *)
(* runs it to its end and renders the states it set together.  An operation *)
(* is "current" as long as its version is the one in operationVersion (its  *)
(* request number the one in requestVersion): a later one supersedes it.    *)
(*                                                                          *)
(* A ...Mutant is a deliberate error in the definition after it.            *)
EXTENDS Integers, Sequences, FiniteSets

CONSTANTS
    BasketNeeds,       \* what the needs of a basket may be
    IncompleteNeeds,   \* those of them that make no strict plan request
    Program,           \* membership programs
    PlanLists,         \* lists of plans the server may answer with, empty too
    LocationToken,     \* tokens of a confirmed position or address
    MaxOperations,     \* bound: travel operations in flight
    MaxOtherSaves      \* bound: saves of the basket by other tabs

NoPlan == 0
NoToken == "none"

ASSUME PlanPageAssumption ==
    /\ IncompleteNeeds \subseteq BasketNeeds /\ NoToken \notin LocationToken
    /\ PlanLists \subseteq Seq(Nat \ {NoPlan})
    /\ \A plans \in PlanLists : \A i, j \in DOMAIN plans : plans[i] = plans[j] => i = j
    /\ MaxOperations \in Nat /\ MaxOtherSaves \in Nat

VARIABLES
    saved,       \* the basket in localStorage
    otherSaves,  \* how often another tab saved it (bound)
    resultPage,  \* the state of ResultWorkspaceClient
    asked,       \* requests to /api/plans in flight
    controls,    \* the state of TravelResultControls
    operations   \* what TravelResultControls waits for

planPageVars == <<saved, otherSaves, resultPage, asked, controls, operations>>

TravelMode == {"car", "bike"}

-----------------------------------------------------------------------------
(* The preference between convenience and price, in basis points. *)

MaxWeight == 10000
DefaultWeight == 5000
CappedWeight(weight) ==
    IF weight < 0 THEN 0 ELSE IF weight > MaxWeight THEN MaxWeight ELSE weight

(* Counted from 1; the code counts from 0. *)
PreferenceIndex(n, weight) ==
    IF n <= 1 THEN 1 ELSE ((MaxWeight - CappedWeight(weight)) * (n - 1)) \div MaxWeight + 1

PlanIdForPreference(plans, weight) ==
    IF plans = <<>> THEN NoPlan ELSE plans[PreferenceIndex(Len(plans), weight)]

(* Math.round rounds a half up. *)
ConvenienceWeight(n, i) == (2 * MaxWeight * (n - i) + n - 1) \div (2 * (n - 1))
ConvenienceWeightForPlanId(plans, plan) ==
    LET steps == {i \in 2..Len(plans) : plans[i] = plan}
    IN  IF steps = {} THEN MaxWeight
        ELSE ConvenienceWeight(Len(plans), CHOOSE i \in steps : TRUE)

-----------------------------------------------------------------------------
(* The page. *)

PlanRequest(basket) == [needs |-> basket.needs, programs |-> basket.programs]
RequestReady(basket) == basket.needs \notin IncompleteNeeds

NoResponse == [of |-> "nothing"]
Response(request, plans, offered) ==
    [of |-> "plans", request |-> request, plans |-> plans, offered |-> offered]
NoBinding == [mode |-> "none", token |-> NoToken, planning |-> NoResponse]
NotRequested == [kind |-> "not-requested", planning |-> NoResponse, binding |-> NoBinding]
Unavailable(planning) == [NotRequested EXCEPT !.kind = "unavailable", !.planning = planning]

WithoutTravel(p) == [p EXCEPT !.travel = "not-requested", !.travelPlanning = NoResponse,
                              !.travelBinding = NoBinding]

(* activeResponse and the plans shown of it *)
ActiveResponse(p) == IF p.travelPlanning = NoResponse THEN p.response ELSE p.travelPlanning
PlansShown(p) == p.status = "ready" /\ ActiveResponse(p).plans # <<>>

Preferred(p, plans) == LET plan == PlanIdForPreference(plans, p.basket.weight)
                       IN  IF plan = NoPlan THEN p.selected ELSE plan

ApplyTravelResult(p, update) ==
    LET planning == IF update.planning = NoResponse THEN p.response ELSE update.planning
    IN  [p EXCEPT !.travel = update.kind,
                  !.travelBinding = update.binding,
                  !.travelPlanning = update.planning,
                  !.selected = Preferred(p, planning.plans)]

Outdated(waiting) == {[w EXCEPT !.current = FALSE] : w \in waiting}

FirstRequest(basket) ==
    IF RequestReady(basket) THEN {[request |-> PlanRequest(basket), current |-> TRUE]} ELSE {}

(* The effect on requestBody: its cleanup aborts the request before. *)
AskForPlans(basket) == asked' = Outdated(asked) \cup FirstRequest(basket)

LoadingMutant(p) == p
Loading(p) == [p EXCEPT !.status = "loading"]

-----------------------------------------------------------------------------
(* The travel controls. *)

Unmounted == [mounted |-> FALSE, enabled |-> FALSE, mode |-> "car", selection |-> NoToken,
              candidates |-> {}, busy |-> "idle", calculated |-> FALSE]
FreshControls == [Unmounted EXCEPT !.mounted = TRUE]

(* The controls as a page p leaves them: they are unmounted with the plans. *)
ControlsOn(p, c) == IF PlansShown(p) THEN c ELSE Unmounted

Begin(operation) ==
    /\ Cardinality(operations) < MaxOperations
    /\ operations' = Outdated(operations) \cup {operation}
Operation(kind, token, mode, planning) ==
    [kind |-> kind, token |-> token, mode |-> mode, planning |-> planning, current |-> TRUE]
NoRequest == [needs |-> "none", programs |-> {}]

OperationIsCurrentMutant(operation) == TRUE
OperationIsCurrent(operation) == operation.current
EndsOperation(operation) == operations' = operations \ {operation}

(* What every exit of calculateTravel tells the page and the controls. *)
Finish(c, update, calculated) ==
    LET next == ApplyTravelResult(resultPage, update)
    IN  /\ resultPage' = next
        /\ controls' = ControlsOn(next, [c EXCEPT !.busy = "idle", !.calculated = calculated])

(* calculateTravel, called with the controls c, up to its first await.  The *)
(* confirmed position may have expired.  What it sends is valid: the        *)
(* planning request was validated by the page.                              *)
StartCalculation(c, token, mode, waiting) ==
    \/ /\ Finish([c EXCEPT !.selection = NoToken], NotRequested, FALSE)
       /\ operations' = waiting
    \/ /\ resultPage' = ApplyTravelResult(resultPage, NotRequested)
       /\ controls' = [c EXCEPT !.busy = "calculating", !.calculated = FALSE]
       /\ operations' = Outdated(waiting) \cup
              {Operation("calculate", token, mode, PlanRequest(resultPage.basket))}

-----------------------------------------------------------------------------
TypeOfResponse(r) ==
    \/ r = NoResponse
    \/ /\ r.of = "plans" /\ r.plans \in PlanLists /\ r.offered \subseteq Program
       /\ r.request.needs \in BasketNeeds /\ r.request.programs \subseteq Program

PageBaskets == [needs : BasketNeeds, programs : SUBSET Program, weight : 0..MaxWeight]

PlanPageTypeOK ==
    /\ saved \in PageBaskets /\ resultPage.basket \in PageBaskets
    /\ resultPage.status \in {"loading", "ready", "empty", "unavailable", "reapproval", "invalid"}
    /\ TypeOfResponse(resultPage.response) /\ TypeOfResponse(resultPage.travelPlanning)
    /\ resultPage.travel \in {"not-requested", "unavailable", "calculated"}
    /\ controls.mode \in TravelMode /\ controls.candidates \subseteq LocationToken
    /\ controls.selection \in LocationToken \cup {NoToken}
    /\ controls.busy \in {"idle", "locating", "searching", "calculating"}

(* ResultWorkspaceClient with the basket that loadBasket returns. *)
Opened(basket) ==
    [basket |-> basket, status |-> "loading", response |-> NoResponse, selected |-> NoPlan,
     travel |-> "not-requested", travelPlanning |-> NoResponse, travelBinding |-> NoBinding]

PlanPageInit ==
    /\ saved \in [needs : BasketNeeds, programs : {{}}, weight : {DefaultWeight}]
    /\ otherSaves = 0
    /\ resultPage = Opened(saved)
    /\ asked = FirstRequest(saved)
    /\ controls = Unmounted
    /\ operations = {}

-----------------------------------------------------------------------------
(* The page: its answers, and what is done on it.  The answer to an aborted *)
(* request changes nothing.                                                 *)

OtherTabSaves ==
    /\ otherSaves < MaxOtherSaves
    /\ \E needs \in BasketNeeds : saved' = [saved EXCEPT !.needs = needs]
    /\ otherSaves' = otherSaves + 1
    /\ UNCHANGED <<resultPage, asked, controls, operations>>

ReloadPage ==
    /\ resultPage' = Opened(saved)
    /\ asked' = FirstRequest(saved)
    /\ controls' = Unmounted
    /\ operations' = {}
    /\ UNCHANGED <<saved, otherSaves>>

PlanAnswerIsCurrent(a) == a.current

NoPlansAnswered(a) ==
    /\ PlanAnswerIsCurrent(a)
    /\ \E status \in {"empty", "unavailable", "reapproval", "invalid"} :
           resultPage' = [resultPage EXCEPT !.status = status]
    /\ asked' = asked \ {a}
    /\ UNCHANGED <<saved, otherSaves, controls, operations>>

PlansAnswered(a) ==
    /\ PlanAnswerIsCurrent(a)
    /\ \E plans \in PlanLists \ {<<>>}, offered \in SUBSET Program :
           resultPage' = WithoutTravel(
               [resultPage EXCEPT !.status = "ready",
                                  !.response = Response(a.request, plans, offered),
                                  !.selected = PlanIdForPreference(plans, resultPage.basket.weight)])
    /\ controls' = FreshControls
    /\ asked' = asked \ {a}
    /\ UNCHANGED <<saved, otherSaves, operations>>

RetryPlans ==
    /\ resultPage.status = "unavailable"
    /\ resultPage' = Loading(resultPage)
    /\ AskForPlans(resultPage.basket)
    /\ UNCHANGED <<saved, otherSaves, controls, operations>>

SelectPlan ==
    /\ PlansShown(resultPage)
    /\ \E i \in DOMAIN ActiveResponse(resultPage).plans :
           LET plans == ActiveResponse(resultPage).plans
               basket == [resultPage.basket EXCEPT !.weight =
                              ConvenienceWeightForPlanId(plans, plans[i])]
           IN  /\ resultPage' = [resultPage EXCEPT !.selected = plans[i], !.basket = basket]
               /\ saved' = basket
    /\ UNCHANGED <<otherSaves, asked, controls, operations>>

(* A program is switched on while an offer of it is shown, off at any time. *)
SetMembershipProgram(program) ==
    LET programs == resultPage.basket.programs
        chosen == IF program \in programs THEN programs \ {program} ELSE programs \cup {program}
        basket == [resultPage.basket EXCEPT !.programs = chosen]
    IN  /\ PlansShown(resultPage)
        /\ program \in programs \cup resultPage.response.offered
        /\ saved' = basket
        /\ resultPage' = Loading(WithoutTravel([resultPage EXCEPT !.basket = basket,
                                                                  !.selected = NoPlan]))
        /\ AskForPlans(basket)
        /\ controls' = Unmounted
        /\ operations' = Outdated(operations)
        /\ UNCHANGED otherSaves

-----------------------------------------------------------------------------
(* The travel controls: what is done with them. *)

pageVars == <<saved, otherSaves, asked>>
Usable == controls.mounted /\ controls.enabled
Interactive == Usable /\ controls.busy = "idle"

EnableTravel ==
    /\ controls.mounted /\ ~controls.enabled
    /\ controls' = [controls EXCEPT !.enabled = TRUE]
    /\ UNCHANGED <<pageVars, resultPage, operations>>

(* The switch is turned off, the page is hidden, or shown again from cache. *)
ResetTravel ==
    /\ controls.mounted
    /\ controls' = FreshControls
    /\ operations' = Outdated(operations)
    /\ resultPage' = ApplyTravelResult(resultPage, NotRequested)
    /\ UNCHANGED pageVars

ModeMayChange == Interactive
ChangeMode(mode) ==
    /\ ModeMayChange /\ controls.mode # mode
    /\ IF controls.selection = NoToken
       THEN /\ controls' = [controls EXCEPT !.mode = mode]
            /\ UNCHANGED <<resultPage, operations>>
       ELSE /\ Cardinality(operations) < MaxOperations
            /\ StartCalculation([controls EXCEPT !.mode = mode], controls.selection, mode, operations)
    /\ UNCHANGED pageVars

WithoutOrigin(c) == [c EXCEPT !.candidates = {}, !.selection = NoToken, !.calculated = FALSE]

(* A browser without geolocation only shows an error. *)
RequestCurrentPosition ==
    /\ Interactive
    /\ resultPage' = ApplyTravelResult(resultPage, NotRequested)
    /\ \/ /\ controls' = WithoutOrigin(controls)
          /\ UNCHANGED operations
       \/ /\ controls' = [WithoutOrigin(controls) EXCEPT !.busy = "locating"]
          /\ Begin(Operation("position", NoToken, controls.mode, NoRequest))
    /\ UNCHANGED pageVars

(* An address that is too short is not sent. *)
SearchAddress ==
    /\ Interactive
    /\ resultPage' = ApplyTravelResult(resultPage, NotRequested)
    /\ \/ /\ controls' = WithoutOrigin(controls)
          /\ UNCHANGED operations
       \/ /\ controls' = [WithoutOrigin(controls) EXCEPT !.busy = "searching"]
          /\ Begin(Operation("search", NoToken, controls.mode, NoRequest))
    /\ UNCHANGED pageVars

ConfirmAddress(token) ==
    /\ Usable /\ token \in controls.candidates
    /\ Cardinality(operations) < MaxOperations
    /\ StartCalculation([controls EXCEPT !.candidates = {}, !.selection = token],
                       token, controls.mode, operations)
    /\ UNCHANGED pageVars

EditAddress ==
    /\ Interactive
    /\ \/ /\ controls.selection # NoToken
          /\ controls' = WithoutOrigin(controls)
          /\ resultPage' = ApplyTravelResult(resultPage, NotRequested)
       \/ /\ controls.selection = NoToken
          /\ controls' = [controls EXCEPT !.candidates = {}]
          /\ UNCHANGED resultPage
    /\ UNCHANGED <<pageVars, operations>>

(* Escape closes the list of candidates. *)
CloseCandidates ==
    /\ Interactive /\ controls.candidates # {}
    /\ controls' = [controls EXCEPT !.candidates = {}]
    /\ UNCHANGED <<pageVars, resultPage, operations>>

-----------------------------------------------------------------------------
(* The travel controls: what they waited for. *)

LateOperation(o) ==
    /\ ~OperationIsCurrent(o)
    /\ EndsOperation(o)
    /\ UNCHANGED <<pageVars, resultPage, controls>>

(* The browser's position; the same operation goes on with the server. *)
PositionAnswered(o) ==
    /\ o.kind = "position" /\ OperationIsCurrent(o)
    /\ \/ /\ operations' = (operations \ {o}) \cup {[o EXCEPT !.kind = "location"]}
          /\ UNCHANGED controls
       \/ /\ controls' = [controls EXCEPT !.busy = "idle"]
          /\ EndsOperation(o)
    /\ UNCHANGED <<pageVars, resultPage>>

(* mode is the one of the render in which the position was asked for. *)
LocationAnswered(o) ==
    /\ o.kind = "location" /\ OperationIsCurrent(o)
    /\ \/ \E token \in LocationToken :
              StartCalculation([controls EXCEPT !.selection = token], token, o.mode, operations \ {o})
       \/ /\ controls' = [controls EXCEPT !.busy = "idle"]
          /\ EndsOperation(o)
          /\ UNCHANGED resultPage
    /\ UNCHANGED pageVars

AddressesAnswered(o) ==
    /\ o.kind = "search" /\ OperationIsCurrent(o)
    /\ \E found \in SUBSET LocationToken :
           controls' = [controls EXCEPT !.busy = "idle", !.candidates = found, !.selection =
                            IF found = {} THEN NoToken ELSE @]
    /\ EndsOperation(o)
    /\ UNCHANGED <<pageVars, resultPage>>

(* The server plans again for the request it is sent, and may find other   *)
(* plans, or none: then, and whenever it finds no route, the answer is that *)
(* planning with travel unavailable.                                        *)
TravelAnswered(o) ==
    /\ o.kind = "calculate" /\ OperationIsCurrent(o)
    /\ \/ Finish(controls, Unavailable(NoResponse), FALSE)
       \/ \E plans \in PlanLists, offered \in SUBSET Program :
              Finish(controls, Unavailable(Response(o.planning, plans, offered)), FALSE)
       \/ \E plans \in PlanLists \ {<<>>}, offered \in SUBSET Program :
              LET planning == Response(o.planning, plans, offered)
              IN  Finish(controls,
                         [kind |-> "calculated", planning |-> planning,
                          binding |-> [mode |-> o.mode, token |-> o.token, planning |-> planning]],
                         TRUE)
    /\ operations' = IF PlansShown(resultPage') THEN operations \ {o}
                     ELSE Outdated(operations \ {o})
    /\ UNCHANGED pageVars

PlanPageNext ==
    \/ OtherTabSaves \/ ReloadPage \/ RetryPlans \/ SelectPlan
    \/ \E a \in asked : NoPlansAnswered(a) \/ PlansAnswered(a)
    \/ \E program \in Program : SetMembershipProgram(program)
    \/ EnableTravel \/ ResetTravel \/ RequestCurrentPosition \/ SearchAddress
    \/ EditAddress \/ CloseCandidates
    \/ \E mode \in TravelMode : ChangeMode(mode)
    \/ \E token \in LocationToken : ConfirmAddress(token)
    \/ \E o \in operations : \/ LateOperation(o) \/ PositionAnswered(o) \/ LocationAnswered(o)
                             \/ AddressesAnswered(o) \/ TravelAnswered(o)

PlanPageSpec == PlanPageInit /\ [][PlanPageNext]_planPageVars

-----------------------------------------------------------------------------
(* The plans on the page answer the basket of the page: whatever the user   *)
(* changed, neither the price plans nor the plans of a travel answer are    *)
(* those of an earlier request.  None is under way while plans are shown,   *)
(* so no answer replaces plans that the user looks at.                      *)
PlansAnswerTheBasket ==
    PlansShown(resultPage) =>
        /\ asked = {}
        /\ resultPage.response.request = PlanRequest(resultPage.basket)
        /\ ActiveResponse(resultPage).request = PlanRequest(resultPage.basket)
        /\ \E i \in DOMAIN ActiveResponse(resultPage).plans :
               resultPage.selected = ActiveResponse(resultPage).plans[i]

(* Travel times are shown exactly when the controls say they are, and they  *)
(* are those of the confirmed start, of the means of transport shown, and   *)
(* of the plans on the page.  Switching travel off, hiding the page or      *)
(* leaving its plans forgets where the user starts from, and no answer      *)
(* under way brings it back.                                                *)
TravelBelongsToThePlans ==
    LET shown == PlansShown(resultPage) /\ resultPage.travel = "calculated"
    IN  /\ shown <=> controls.calculated
        /\ shown => resultPage.travelBinding =
                        [mode |-> controls.mode, token |-> controls.selection,
                         planning |-> ActiveResponse(resultPage)]
        /\ ~Usable => /\ controls.selection = NoToken /\ controls.candidates = {}
                      /\ controls.busy = "idle" /\ resultPage.travelBinding = NoBinding

(* A test of the page: it "keeps the selected convenience preference        *)
(* through membership recompute and reload".  The preference saved, applied *)
(* to the plans on the page, is the plan selected on it: answered with the  *)
(* same plans after a reload, a recompute or a travel result, the page      *)
(* selects the same one.                                                    *)
ChoiceSurvives ==
    PlansShown(resultPage) =>
        PlanIdForPreference(ActiveResponse(resultPage).plans, saved.weight) = resultPage.selected
=============================================================================
