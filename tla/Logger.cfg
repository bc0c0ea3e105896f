SPECIFICATION Spec
CONSTANTS
    Threads = {t1, t2}
    kCheckTimeRoll_ = 0
    kRollPerSeconds_ = 2
    rollSize_ = 3
    flushInterval_ = 0
    Sizes = {1, 3}
    RepeatedFrom = 3
    RepeatedFor = 1
    MaxClock = 3
    MaxLines = 4
    MaxSetBacks = 1
    MaxRestarts = 1
INVARIANTS
    LinesKept
    OversizedOnlyWithinASecond
    LooksAtTheClock
    FatalIsWritten
PROPERTY StampsTrue
SYMMETRY Symmetry
CHECK_DEADLOCK FALSE
