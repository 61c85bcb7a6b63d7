SPECIFICATION Spec
CONSTANTS
  r1 = r1  r2 = r2  h1 = h1  h2 = h2  f1 = f1  f2 = f2
  NoValue = NoValue
  NoFunction = NoFunction
  UintMod = 128
  Requests = {r1}
  Handlers = {h1}
  Functions = {f1}
  Labels <- SmallLabels
  Batches <- SingleAlerts
  ScaleRequests = {0, 6}
  IdlerWrites = {0}
  SetScaleRetries = 1
  MaxPollCount = 1
  CacheExpiry = 0
  InitialReplicas = {0}
  ReplicasFail = FALSE
  Faults = {"refuse"}
PROPERTIES ScalerImplemented AlertsImplemented IdlesOnlyByLabel
