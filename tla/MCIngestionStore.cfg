SPECIFICATION Spec
CONSTANTS
  Session = {s1, s2}
  NoSession = NoSession
  r1 = r1
  r2 = r2
  a = a
  b = b
  Source = {a, b}
  Run = {r1, r2}
  NGtin = 2
  Dated = {a}
  Setting <- Settings
SYMMETRY Interchangeable
INVARIANTS
  CountsMatchOutcomes
  NoLockCycle
  ResolutionIsCurrent
PROPERTIES
  CorrectionsMoveForward
  NothingAcceptedAfterRevocation
CHECK_DEADLOCK FALSE
