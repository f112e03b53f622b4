SPECIFICATION Spec
CONSTANTS
    NoHeader = NoHeader
    HEADER_LEN = 2
    END_LEN = 2
    BufCap = 5
    Streams <- WithEnd
    Cuts <- Everywhere
INVARIANT NoneMeansClosed
CHECK_DEADLOCK FALSE
