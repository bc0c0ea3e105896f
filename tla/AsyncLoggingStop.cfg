SPECIFICATION FairSpec
CONSTANTS
    LoggerCount = 1
    kBufferSize = 3
    Sizes = {1}
    MaxLines = 2
    MaxBuffers = 4
    MaxStarts = 1
PROPERTY StopReturns
CHECK_DEADLOCK FALSE
