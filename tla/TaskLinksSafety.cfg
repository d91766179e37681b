\* Two requests at once over three pull requests, room for two suppressions.
SPECIFICATION Spec
CONSTANTS
  PRs = {p1, p2, p3}
  Branch = {p1, p2, p3}
  Clients = {c1, c2}
  Nobody = Nobody
  Cap = 2
  MaxFaults = 1
  MaxRequests = 4
SYMMETRY Interchangeable
INVARIANTS LinkedOrSuppressed NoLinkLost
PROPERTIES SuppressionEndsByLinkOrCap
CHECK_DEADLOCK FALSE
