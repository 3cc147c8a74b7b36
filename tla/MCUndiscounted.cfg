SPECIFICATION PublicationSpec
CONSTANTS
  OfferSource = {"tjek", "meny"}
  Candidate = {1, 2, 3, 4}
  About <- TwoSources
  Begun <- AllToReview
  BatchLimit = 2
  VisibleCap = 3
  LastSlot = 1
  MaxChanges = 0
PROPERTIES
  UndiscountedOffersStay
\* Everything may have been decided.
CHECK_DEADLOCK FALSE
