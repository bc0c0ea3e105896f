SPECIFICATION FairSpec
CONSTANTS
    capacity_ = 3
    MaxBytes = 10
INVARIANTS CountsAgree StreamIntact ReadBeforeRelease
PROPERTY EveryByteIsRead
CHECK_DEADLOCK FALSE
