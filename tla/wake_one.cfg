SPECIFICATION WSpec
CONSTANTS
    r1 = r1
    r2 = r2
    Free = Free
    NoTask = NoTask
    Req = {r1, r2}
    WithBody = {r1}
    Multiline = {r2}
    Abandon = {r1}
    Stderr = {}
    MaxReq = 1
    OutCap = 7
    InCap = 1
    MaxChunk = 1
    MaxBody = 1
    MaxLoss = 1
INVARIANT PermitConservation
 
CHECK_DEADLOCK FALSE
