SPECIFICATION WSpec
CONSTANTS
    r1 = r1
    r2 = r2
    Free = Free
    NoTask = NoTask
    Req = {r1, r2}
    WithBody = {}
    Multiline = {}
    Abandon = {r2}
    Stderr = {r2}
    MaxReq = 2
    OutCap = 1
    InCap = 1
    MaxChunk = 1
    MaxBody = 0
    MaxLoss = 0
INVARIANTS WTypeOK SlotWakerFresh
CHECK_DEADLOCK FALSE
