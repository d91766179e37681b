\* Two targets of one account and one of another product; one failure or stop.
CONSTANTS
  cloudA = cloudA
  cloudB = cloudB
  server = server
  NoTarget = NoTarget
  Flows = {f1}
  Targets <- MCTargets
  ProductOf <- ByProduct
  AccountOf <- ByProduct
  MaxGeneration = 3
  MaxBinding = 4
  MaxFaults = 1
  MaxRequests = 3
SPECIFICATION Spec
PROPERTIES BindingFollowsTarget NoSecretForgotten FailedSaveKeepsPrevious
CHECK_DEADLOCK FALSE
