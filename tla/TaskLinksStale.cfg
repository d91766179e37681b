\* A view overlaps an unlink; nothing fails.
SPECIFICATION Spec
CONSTANTS
  PRs = {p1, p2}
  Branch = {p1, p2}
  Clients = {c1, c2}
  Nobody = Nobody
  Cap = 2
  MaxFaults = 0
  MaxRequests = 3
PROPERTIES OnlyExplicitLinkClears
CHECK_DEADLOCK FALSE
