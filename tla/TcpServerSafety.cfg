SPECIFICATION Spec
CONSTANTS
    MaxConnections = 2
    PoolCount = 2
    Setups <- MCTwoCalls
INVARIANTS RemovedOnce FreedUnreachable EmptyServerUncalled
CHECK_DEADLOCK FALSE
