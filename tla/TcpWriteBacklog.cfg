SPECIFICATION FairSpec
CONSTANTS
    capacity_ = 2
    MaxBytes = 4
    SocketSize = 2
PROPERTY BacklogFlushed
