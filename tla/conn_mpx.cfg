SPECIFICATION Spec
CONSTANTS
    r1 = r1
    r2 = r2
    r3 = r3
    Free = Free
    Req = {r1, r2}
    WithBody = {}
    Multiline = {}
    Abandon = {}
    Stderr = {}
    MaxReq = 2
    OutCap = 1
    InCap = 1
    MaxChunk = 2
    MaxBody = 0
    MaxLoss = 1
SYMMETRY Calls
INVARIANTS DeliveredOnce CompleteAtEnd
PROPERTY PrivateChannels
CHECK_DEADLOCK FALSE
