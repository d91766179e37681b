\* Two workspaces, two clients; one flow and two states are kept, four begun.
SPECIFICATION Spec
CONSTANTS
  Workspaces = {w1, w2}
  Clients = {c1, c2}
  FlowCap = 1
  PendingCap = 2
  MaxStarts = 4
  MaxEpoch = 1
  NoFlow = NoFlow
SYMMETRY Interchangeable
INVARIANTS FlowHasState OneCallbackPerState
PROPERTIES NoFlowLost
CHECK_DEADLOCK FALSE
