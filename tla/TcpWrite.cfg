SPECIFICATION FairSpec
CONSTANTS
    capacity_ = 3
    MaxBytes = 12
    SocketSize = 4
INVARIANTS CountsAgree QueueIntact
PROPERTY ResumesAfterShortWrite
