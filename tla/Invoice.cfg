SPECIFICATION FairSpec
CONSTANTS
    c1 = c1
    c2 = c2
    j1 = j1
    r1 = r1
    r2 = r2
    Customers = {c1, c2}
    Cancelling = {c2}
    LastCycle = 1
    Jobs = {j1}
    Reqs = {r1}
    Ops = {"record", "generate", "notice"}
    Nobody = Nobody
    Schedule <- TheSchedule
    GraceDays = 7
    Free = 0
    MaxLost = 0
    MaxFaults = 0
    MaxCrashes = 1
 
PROPERTIES KeepsPromise PastDueEnds 
