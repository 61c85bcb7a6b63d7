SPECIFICATION FairSpec
CONSTANTS
  c1 = c1  c2 = c2  c3 = c3
  k1 = k1  k2 = k2
  i1 = i1  i2 = i2  i3 = i3
  Callers = {c1, c2, c3}
  Keys = {k1, k2}
  Replies = {"value", "panic"}
  NoReply = "none"
  Calls = {i1, i2, i3}
  NoCall = NoCall
INVARIANTS TypeOK WaitersReadAfterWrite WaitersHaveLeader
PROPERTIES KeepsPromise DoReturns
