SPECIFICATION Schedules
\* Every process may have been stopped for good.
CHECK_DEADLOCK FALSE
CONSTANTS
  \* WorkerRuntime
  Process = {p1, p2}
  NSource = 2
  SourceOf <- OneSchedulePerSource
  MaxSlot <- TwoSlotsThenNone
  MaxFaults = 1
  \* OfferPublication
  OfferSource = {"tjek", "meny"}
  Candidate = {1, 2, 3, 4}
  About <- TwoSources
  Begun <- OneToReview
  BatchLimit = 1
  VisibleCap = 1
  LastSlot = 2
  MaxChanges = 1
  \* PlanPage
  BasketNeeds = {"milk", "none"}
  IncompleteNeeds = {"none"}
  Program = {"member"}
  PlanLists <- NoneOneOrThree
  LocationToken = {"here", "there"}
  MaxOperations = 2
  MaxOtherSaves = 1
  \* DiscoveryPage
  Market = {"oslo", "norway"}
  NoMarket = "none"
  Filter = {"all", "milk"}
  CatalogProduct = {"p"}
  BasketNeedsMax = 2
  MaxCursor = 1
  MaxSearches = 2
  MaxImpacts = 2
SYMMETRY Processes
INVARIANTS
  NoOfferIsPassedOver
  PlansAnswerTheBasket
  TravelBelongsToThePlans
  ListAnswersTheChoice
  ImpactIsOfThisBasket
PROPERTIES
  NoVoluntaryHandover
  SlotsRecordedInOrder
  NoHiddenExtraOffer
  RightsHoldAtCommit
  OffersStayUntilTheyEnd
