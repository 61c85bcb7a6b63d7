SPECIFICATION HistorySpec
CONSTANTS
  h1 = h1  h2 = h2  f1 = f1  f2 = f2
  NoValue = NoValue
  NoFunction = NoFunction
  UintMod = 1024
  Handlers = {h1, h2}
  Functions = {f1, f2}
  Labels <- WrappingLabels
  Batches <- SomeBatches
  InitialReplicas = {2}
  OutsideWrites = {3}
  Faults = {"get", "refuse", "drop"}
INVARIANTS TypeOK StaysInRange ResolvedScalesDown
PROPERTIES FiringRaises BatchAnswered
