\* A flow that overlaps a disconnect; nothing fails.
CONSTANTS
  cloudA = cloudA
  cloudB = cloudB
  server = server
  NoTarget = NoTarget
  Flows = {f1}
  Targets <- OneTarget
  ProductOf <- ByProduct
  AccountOf <- ByProduct
  MaxGeneration = 2
  MaxBinding = 3
  MaxFaults = 0
  MaxRequests = 3
SPECIFICATION Spec
INVARIANT NoCredentialAfterDisconnect
CHECK_DEADLOCK FALSE
