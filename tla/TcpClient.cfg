SPECIFICATION FairSpec
CONSTANTS
    MaxConnections = 4
    MaxRefusals = 3
INVARIANTS OneAttemptOrConnection ResetFindsClosedChannel IdleClientUncalled
PROPERTIES ConnectsEventually DestroyedClosesSocket
CHECK_DEADLOCK FALSE
