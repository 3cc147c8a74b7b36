SPECIFICATION Requests
CONSTANTS
  \* RequestBudget
  Caller = {c1, c2, c3}
  Limit = 1
  Window = 2
  MaxWait = 1
  Pool = 2
  MaxClock = 2
  MaxClaims = 3
  \* TargetRotation
  NTarget = 2
  PageLimit = 1
  Day <- BenchmarkOnly
  NCatalog = 693
  \* Coalescer
  Key = {k1, k2}
  Call = {c1, c2, c3}
  Entry = {e1, e2}
  None = None
  MaxKeys = 1
  MaxSubscribers = 2
  \* Planner
  Chain = {1, 2, 3}
  Product = {1, 2}
  Need = {1, 2}
  Basket <- Baskets
  MoneyCap = 12
  Representatives = 3
  TravelPlans = 7
  TravelChains = 3
INVARIANTS
  WindowLimit
  DiscoveryReachesEveryPage
  NoUntrackedOperation
  NothingBetterIsMissed
  ShownPlansSpanTheChoice
PROPERTIES
  AcquireEnds
  EveryCallAnswered
CHECK_DEADLOCK FALSE
