\* One watch, two pages of one pull request; fairness, bounded failures.
SPECIFICATION FairSpec
CONSTANTS
  p1 = p1
  p2 = p2
  p3 = p3
  WatchIds = {x1}
  PRs = {p1, p2}
  Pages = 2
  PageOf <- PageEach
  Incomplete = {}
  Tokens = {k1, k2, k3}
  TaskIds = {t1, t2, t3}
  NoToken = NoToken
  NoTask = NoTask
  NoId = NoId
  MaxEpoch = 2
  MaxFaults = 1
  MaxRequests = 2
PROPERTIES
  OpenPRIsLinked
  LostTaskIsRecovered
  StaleWatchIsPaused
