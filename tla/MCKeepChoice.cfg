SPECIFICATION PlanPageSpec
CONSTANTS
  BasketNeeds = {"milk"}
  IncompleteNeeds = {}
  Program = {"member"}
  PlanLists <- FourPlans
  LocationToken = {"here"}
  MaxOperations = 1
  MaxOtherSaves = 0
INVARIANT ChoiceSurvives
CHECK_DEADLOCK FALSE
