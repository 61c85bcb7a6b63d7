SPECIFICATION Spec
CONSTANTS
  r1 = r1  r2 = r2   f1 = f1  f2 = f2
  NoFunction = NoFunction
  Requests = {r1}
  Functions = {f1}
  MinReplicas <- NoLabel
  SetScaleRetries = 2
  MaxPollCount = 2
  CacheExpiry = 0
  InitialReplicas = {0}
  OutsideWrites = {}
  ReplicasFail = FALSE
  Faults = {"drop"}
INVARIANTS KeepsTrying
