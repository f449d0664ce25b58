SPECIFICATION Spec
CONSTANTS
    c1 = c1
    j1 = j1
    j2 = j2
    r1 = r1
    r2 = r2
    Customers = {c1}
    Cancelling = {}
    LastCycle = 1
    Jobs = {j1, j2}
    Reqs = {r1, r2}
    Ops = {"record", "generate"}
    Nobody = Nobody
    Schedule <- OneRetry
    GraceDays = 1
    Free = 0
    MaxLost = 1
    MaxFaults = 1
    MaxCrashes = 0
SYMMETRY Alike
INVARIANTS TypeOK CycleClosesOnce ClosedCycleIsInvoiced ChargesFollowClaims ChargedWhenOver
