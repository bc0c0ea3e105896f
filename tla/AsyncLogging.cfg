SPECIFICATION FairSpec
CONSTANTS
    LoggerCount = 2
    kBufferSize = 3
    Sizes = {2, 3}
    MaxLines = 4
    MaxBuffers = 9
    MaxStarts = 2
INVARIANTS ListedOnceWhileNotEmpty RecycleFindsBuffers NoSharedBuffer LinesOnceInOrder
PROPERTIES LinesEventuallyWritten StopReturnsUnlessRaced
CHECK_DEADLOCK FALSE
