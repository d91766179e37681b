\* One watch, a page of one pull request and a page of two, one of which the
\* host refuses to make a task for; failures, stops and requests.
SPECIFICATION Spec
CONSTANTS
  p1 = p1
  p2 = p2
  p3 = p3
  WatchIds = {x1}
  PRs = {p1, p2, p3}
  Pages = 2
  PageOf <- PageTwo
  Incomplete = {p3}
  Tokens = {k1, k2, k3, k4}
  TaskIds = {t1, t2, t3}
  NoToken = NoToken
  NoTask = NoTask
  NoId = NoId
  MaxEpoch = 2
  MaxFaults = 3
  MaxRequests = 3
SYMMETRY Interchangeable
INVARIANTS
  OneTaskPerPR
  NoOrphanTask
  DetachedStaysDetached
  IInv
PROPERTIES
  DeletesOnlyOwned
  CursorPassesOnlyLinked
  ImplementsLifecycle
