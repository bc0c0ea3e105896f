SPECIFICATION FairSpec
CONSTANTS
    count_ = 2
    MaxPosts = 3
INVARIANTS DeletedAfterAllThreads QueuedAsleepIsRun
PROPERTIES DestructionEndsUnlessRaced
CHECK_DEADLOCK FALSE
