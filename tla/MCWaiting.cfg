SPECIFICATION Waiting
\* Every process may have been stopped for good.
CHECK_DEADLOCK FALSE
CONSTANTS
  \* WorkerRuntime
  Process = {p1, p2}
  NSource = 1
  SourceOf <- OneSchedule
  MaxSlot <- OneSlot
  MaxFaults = 1
  \* Deployment
  DeployAttempts <- MCDeployAttempts
  NewestRevision = 2
  MaxPendingWatchdogs = 2
  MaxHostFaults = 1
  MaxRollbacks = 1
INVARIANTS
  RunningIsCommitted
PROPERTIES
  ShutdownCompletes
  NewestSlotRecorded
  OneVerdict
  SupersededLeavesAlone
  PendingIsResolved
