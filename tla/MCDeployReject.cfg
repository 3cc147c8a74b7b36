SPECIFICATION DeploySpec
CONSTANTS
    DeployAttempts <- MCDeployAttempts
    NewestRevision = 2
    MaxPendingWatchdogs = 2
    MaxHostFaults = 1
    MaxRollbacks = 1
PROPERTIES NextRejectTouchesNothing
CHECK_DEADLOCK FALSE
