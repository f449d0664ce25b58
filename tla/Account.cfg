SPECIFICATION Spec
CONSTANTS
    c1 = c1
    c2 = c2
    d1 = d1
    d2 = d2
    p1 = p1
    Calls = {c1, c2}
    Deliveries = {d1, d2}
    Job = Job
    Payments = {p1}
    TopUps = {p1}
    NoPayment = NoPayment
    Media = {"audio", "screen"}
    Gated = "audio"
    Free <- TheFree
    Rate <- TheRate
    Uses <- TheUses
    Limits = {0, 2}
    MaxSubs = 1
    LastCycle = 1
    MaxChanges = 1
SYMMETRY Alike
INVARIANTS CreditedOnce PurchasedIsPaidFor  
PROPERTY BarredCallsAreRefused
CHECK_DEADLOCK FALSE
