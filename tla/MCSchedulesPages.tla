-------------------------- MODULE MCSchedulesPages --------------------------
(* TLC instance of what the worker program runs on a schedule, the cycle of *)
(* jobs under leases and the lifecycle of official offers on a timer of its *)
(* own, and of two pages in the browser, the plans and the discovery.  A    *)
(* behaviour is one of a single part, the others stay as they begin.        *)
EXTENDS MCWorkerRuntime, MCOffers, MCPlanPage, DiscoveryPage

VARIABLE part

NothingToShow == [market |-> NoMarket, needs |-> [n \in BasketNeed |-> "free"]]
pagesVars == <<planPageVars, discoveryVars>>
workerVars == <<vars, publicationVars>>

SchedulesInit ==
  /\ part \in {"cycle", "offers", "plans", "discovery"}
  /\ Init /\ PublicationInit /\ PlanPageInit /\ DiscoveryInit
  /\ part # "plans" => saved.needs \in IncompleteNeeds
  /\ part # "discovery" => listing.filter = "all" /\ shopping = NothingToShow

SchedulesNext ==
  /\ UNCHANGED part
  /\ \/ part = "cycle" /\ Next /\ UNCHANGED <<publicationVars, pagesVars>>
     \/ part = "offers" /\ PublicationNext /\ UNCHANGED <<vars, pagesVars>>
     \/ part = "plans" /\ PlanPageNext /\ UNCHANGED <<workerVars, discoveryVars>>
     \/ part = "discovery" /\ DiscoveryNext /\ UNCHANGED <<workerVars, planPageVars>>

Schedules == SchedulesInit /\ [][SchedulesNext]_<<part, workerVars, pagesVars>>

=============================================================================
