SPECIFICATION FairSpec
CONSTANTS
    MaxConnections = 2
    PoolCount = 2
    Setups <- MCSetups
INVARIANTS RemovedOnce FreedUnreachable EmptyServerUncalled
PROPERTIES ClosedIsFreed PeerCloseSeen NobodyWaits
CHECK_DEADLOCK FALSE
