SPECIFICATION Spec
CONSTANTS
    NoHeader = NoHeader
    HEADER_LEN = 2
    END_LEN = 2
    BufCap = 5
    Streams <- WithEnd
    Cuts <- Everywhere
INVARIANTS TypeOK InStep Reassembled PanicOnlyIfCut
 
CHECK_DEADLOCK FALSE
