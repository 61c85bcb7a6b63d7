CONSTANTS
  Environments <- MCEnvironments
  Functions <- MCFunctions
  DefaultNamespace = "d"
  Urls <- MCUrls
  MaxInvocations = 2
  LogRequests = {q1}
  MaxLines = 2
SPECIFICATION FairSpec
INVARIANTS TypeOK StartsOrSays NamesAgree ListExact FewLateLines
PROPERTIES LogsAnswered NoCopierLeft
CHECK_DEADLOCK FALSE
