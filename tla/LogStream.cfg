SPECIFICATION Spec
CONSTANTS
    kBufferSize = 16
    kMaxNumericSize = 5
    Width = 8
    Pieces = {1, 3, 17}
    Header <- MCHeader
    Trailer <- MCTrailer
INVARIANTS NoOverrun NumbersReadBack
CHECK_DEADLOCK FALSE
