SPECIFICATION FairSpec
CONSTANTS
  r1 = r1  r2 = r2   f1 = f1  f2 = f2
  NoFunction = NoFunction
  Requests = {r1, r2}
  Functions = {f1, f2}
  MinReplicas <- Mixed
  SetScaleRetries = 2
  MaxPollCount = 1
  CacheExpiry = 0
  InitialReplicas = {0}
  OutsideWrites = {}
  ReplicasFail = FALSE
  Faults = {"get", "refuse"}
INVARIANTS ServedWhenReady HoldingScaled KeepsTrying
PROPERTIES ColdStart
