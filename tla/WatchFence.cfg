\* One watch and one connection change: does every task come from the
\* connection its watch is bound to?
SPECIFICATION Spec
CONSTANTS
  p1 = p1
  p2 = p2
  p3 = p3
  WatchIds = {x1}
  PRs = {p1, p2}
  Pages = 1
  PageOf <- OnePage
  Incomplete = {}
  Tokens = {k1, k2}
  TaskIds = {t1, t2}
  NoToken = NoToken
  NoTask = NoTask
  NoId = NoId
  MaxEpoch = 2
  MaxFaults = 0
  MaxRequests = 2
INVARIANTS
  TaskFromBoundConnection
