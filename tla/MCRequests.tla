----------------------------- MODULE MCRequests -----------------------------
(* TLC instance of the requests of both programs: what the worker asks of  *)
(* a provider, and how often, and what a web request goes through.  A      *)
(* behaviour is one of a single part, the others stay as they begin.       *)
EXTENDS RequestBudget, MCTargetRotation, Coalescer, MCPlan

VARIABLE part

requestVars == <<part, budgetVars, vars, coalescerVars, planVars>>

RequestsInit ==
  /\ part \in {"budget", "rotation", "coalescer", "plan"}
  /\ BudgetInit /\ Init /\ CoalescerInit /\ PlanInit
  /\ part # "rotation" => priced = Target
  /\ part # "plan" => basket = OneBasket

RequestsNext ==
  /\ UNCHANGED part
  /\ \/ part = "budget" /\ BudgetNext /\ UNCHANGED <<vars, coalescerVars, planVars>>
     \/ part = "rotation" /\ Next /\ UNCHANGED <<budgetVars, coalescerVars, planVars>>
     \/ part = "coalescer" /\ CoalescerNext /\ UNCHANGED <<budgetVars, vars, planVars>>
     \/ part = "plan" /\ PlanNext /\ UNCHANGED <<budgetVars, vars, coalescerVars>>

(* BudgetFairness and CoalescerFairness.  A behaviour has one part, so a   *)
(* condition on one part and a condition on the other are one condition on *)
(* the disjunction of their actions; Caller and Call are the same set.     *)
Budgeted(A) == part = "budget" /\ A /\ UNCHANGED <<part, coalescerVars>>
Coalesced(A) == part = "coalescer" /\ A /\ UNCHANGED <<part, budgetVars>>
ownVars == <<budgetVars, coalescerVars>>

RequestsFairness ==
  /\ \A e \in Entry : WF_ownVars(Budgeted(Tick) \/ Coalesced(CoalescerDeadline(e)))
  /\ \A c \in Call : WF_ownVars(Budgeted(BudgetDeadline(c)) \/ Coalesced(Deliver(c)))
  /\ \A p \in Caller : SF_ownVars(Budgeted(Connect(p)))

Requests == RequestsInit /\ [][RequestsNext]_requestVars /\ RequestsFairness

=============================================================================
