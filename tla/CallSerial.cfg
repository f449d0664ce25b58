SPECIFICATION SerialSpec
CONSTANTS
  Calls = {c1, c2}
  Users = {alice, bob}
  Reqs = {r1, r2, r3, r4}
  Sweeps = {s1}
  Ops = {"create", "accept", "reject", "cancel", "end"}
  NoCall = NoCall
  Preset = {}
  MaxFaults = 1
  MaxCrashes = 1
SYMMETRY CreateSymmetry
INVARIANTS AnsweredCallIsBilled BilledFromStart NoticesAgree
PROPERTIES RingsOnlyFreeReceiver 
