SPECIFICATION Spec
CONSTANTS
    r1 = r1
    r2 = r2
    r3 = r3
    Free = Free
    Req = {r1, r2}
    WithBody = {r1}
    Multiline = {r2}
    Abandon = {r1}
    Stderr = {}
    MaxReq = 2
    OutCap = 2
    InCap = 1
    MaxChunk = 1
    MaxBody = 1
    MaxLoss = 0
INVARIANTS BodyHasSlot PermitConservation NoCrosstalk InputToOwner DeliveredOnce
CHECK_DEADLOCK FALSE
