SPECIFICATION WSpec
CONSTANTS
    r1 = r1
    r2 = r2
    Free = Free
    NoTask = NoTask
    Req = {r1, r2}
    WithBody = {}
    Multiline = {}
    Abandon = {}
    Stderr = {}
    MaxReq = 2
    OutCap = 3
    InCap = 1
    MaxChunk = 1
    MaxBody = 0
    MaxLoss = 0
PROPERTY ResponseEnds
CHECK_DEADLOCK FALSE
