SPECIFICATION Spec
CONSTANTS
    Disturbances = {}
    MaxFaults = 0
CHECK_DEADLOCK FALSE
INVARIANT OfferIsNeverDropped
