CONSTANTS
  Environments <- MCEnvironments
  Functions <- MCFunctions
  DefaultNamespace = "d"
  Urls <- MCUrls
  MaxInvocations = 2
  LogRequests = {q1}
  MaxLines = 2
SPECIFICATION Spec
INVARIANT ListedAnyway
CHECK_DEADLOCK FALSE
