SPECIFICATION FairSpec
CONSTANTS
  Calls = {c1}
  Users = {alice, bob}
  Reqs = {r1, r2, r3}
  Sweeps = {s1}
  Ops = {"create", "accept", "reject", "end", "adminEnd"}
  NoCall = NoCall
  Preset = {}
  MaxFaults = 1
  MaxCrashes = 1
INVARIANTS TypeOK ClaimsAreBalanced UsageIsBounded
PROPERTIES RingingEnds ClaimLeadsToUsage
