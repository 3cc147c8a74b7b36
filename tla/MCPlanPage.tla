----------------------------- MODULE MCPlanPage -----------------------------
(* TLC instances of PlanPage.                                              *)
EXTENDS PlanPage

NoneOneOrThree == {<<>>, <<1>>, <<1, 2, 3>>}
FourPlans == {<<1, 2, 3, 4>>}
=============================================================================
