SPECIFICATION FairSpec
CONSTANTS
  r1 = r1  r2 = r2  c1 = c1  c2 = c2
  NoConnection = NoConnection
  Requests = {r1, r2}
  Connections = {c1, c2}
  MaxInflight = 1
  MaxReconnect = 2
  PromptStores = TRUE
INVARIANTS TypeOK AnsweredOnce SomebodyAnswers SlotsExact LossAttended
PROPERTIES KeepsPromise Replied
