SPECIFICATION LeaseOrJob
CONSTANTS
  \* WorkerLease
  Owner = {o1, o2}
  NoOwner = NoOwner
  Session = {s1, s2, s3}
  Ttl = 2
  MaxClock = 4
  \* KassalappExecutor
  NBatch = 3
  MaxFailed = 1
  MaxChange = 3
SYMMETRY Interchangeable
INVARIANTS
  FenceExcludesSuccessor
  ReportedCountersAreStored
  RevocationStopsWithinABatch
PROPERTIES
  RowBelongsToItsGeneration
  ImplementsFencedLog
\* A job ends when its handler returns.
CHECK_DEADLOCK FALSE
