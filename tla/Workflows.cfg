\* Two review actions; a queue over two repositories; a review around its limits.
SPECIFICATION FairSpec
CONSTANTS
  None = None
  Honesty = {TRUE, FALSE}
  Requests = {r1, r2}
  MaxEdits = 2
  MaxRepos = 2
  MaxPaths = 2
  Attempts = 2
  a = a
  b = b
  Repos <- TwoRepos
  MaxOpen = 2
  Limits = {2}
  PageSizes = {1, 2}
  MaxHops = 10
  MaxChanges = 2
  MaxShown = 6
  Projections <- Asked
  MaxListed = 4
  MaxStray = 2
  Sizes = {1, 2}
  MaxReviewPages = 2
  MaxReviewEntries = 3
  MaxReviewViewEntries = 2
  MaxPushes = 1
  MaxComments = 1
CHECK_DEADLOCK FALSE
INVARIANTS
  AtMostOneEffect
  AnswerIsTrue
  DecisionMissesNothing
  ChangesFollowTheRepository
  PagesAreTheQueue
  OnlyClosingHides
  NothingIsCutSilently
  EveryCommentIsInOneThread
  CutsAreSaid
PROPERTY EveryRequestIsAnswered
