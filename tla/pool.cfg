SPECIFICATION Spec
CONSTANTS
    BYTE = 16
    RADIX = 2
    PLUS = 2
    MAX_LENGTH = 14
    ALIGN = 4
    MAX_CONNS <- mc_CONNS
    MAX_REQS <- mc_REQS
    MPXS_CONNS <- mc_MPXS
    U8 = 4
    U16 = 8
    UNKNOWN_LEN = 2
    ReadCap = 12
    Answers <- AnyAnswer
INVARIANTS TypeOK LengthsAgree RoundTrip Negotiated PanicOnlyIfLong
PROPERTY Returns
CHECK_DEADLOCK FALSE
