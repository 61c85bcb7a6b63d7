SPECIFICATION FairSpec
CONSTANTS
  r1 = r1  r2 = r2   f1 = f1  f2 = f2
  NoFunction = NoFunction
  Requests = {r1, r2}
  Functions = {f1}
  MinReplicas <- NoLabel
  SetScaleRetries = 2
  MaxPollCount = 2
  CacheExpiry = 1
  InitialReplicas = {2}
  OutsideWrites = {0}
  ReplicasFail = TRUE
  Faults = {"get", "refuse", "drop"}
INVARIANTS TypeOK WaitersInFlight
PROPERTIES OnlyRaises Answered
