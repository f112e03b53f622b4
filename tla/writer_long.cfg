SPECIFICATION Spec
CONSTANTS
    HEADER_LEN = 2
    ALIGN = 3
    BUF_LEN = 8
    FIXED_LEN = 3
    WORD = 64
    Jobs <- Longer
INVARIANT AbortOnlyIfShort
CHECK_DEADLOCK FALSE
