SPECIFICATION TripSpec
CONSTANTS
  Tab = {a, b}
  Trip = {t1, t2}
  NoTrip = none
  Item = {i1, i2}
  Corrupting = FALSE
INVARIANTS
  FinishedTripsAreComplete
