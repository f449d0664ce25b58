SPECIFICATION Spec
CONSTANTS
    c1 = c1
    j1 = j1
    j2 = j2
    r1 = r1
    Customers = {c1}
    Cancelling = {}
    LastCycle = 1
    Jobs = {j1, j2}
    Reqs = {r1}
    Ops = {"record"}
    Nobody = Nobody
    Schedule <- TheSchedule
    GraceDays = 7
    Free = 0
    MaxLost = 0
    MaxFaults = 0
    MaxCrashes = 0
INVARIANT NeverDoubleCharged
