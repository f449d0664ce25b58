SPECIFICATION Spec
CONSTANTS
    Disturbances = {"drop", "blip", "loss", "exit", "denied"}
    MaxFaults = 1
CHECK_DEADLOCK FALSE
INVARIANTS InCallWasAccepted  FirstCandidatesAreKept
