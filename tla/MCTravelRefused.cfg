SPECIFICATION PlanSpec
CONSTANTS
  Chain = {1, 2, 3, 4}
  Product = {1, 2}
  Need = {1, 2}
  Basket <- FourChains
  MoneyCap = 12
  Representatives = 7
  TravelPlans = 7
  TravelChains = 3
INVARIANTS
  EntireSetIsRouted
CHECK_DEADLOCK FALSE
