SPECIFICATION Spec
CONSTANTS
    r1 = r1
    r2 = r2
    r3 = r3
    Free = Free
    Req = {r1, r2, r3}
    WithBody = {}
    Multiline = {}
    Abandon = {r1}
    Stderr = {r1}
    MaxReq = 2
    OutCap = 1
    InCap = 1
    MaxChunk = 1
    MaxBody = 0
    MaxLoss = 0
SYMMETRY Others
INVARIANTS TypeOK PermitConservation RidBounded NoCrosstalk OneActivePerId
CHECK_DEADLOCK FALSE
