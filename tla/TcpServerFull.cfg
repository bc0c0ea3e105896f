SPECIFICATION FairSpec
CONSTANTS
    MaxConnections = 2
    PoolCount = 1
    Setups <- MCFull
PROPERTIES DisconnectSeen
CHECK_DEADLOCK FALSE
