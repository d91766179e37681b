\* Two workspaces of up to two watches; a provider that asks for three intervals or more.
SPECIFICATION FairSpec
CONSTANTS
  Last = 2
  Watches = 2
  RetryAfters = {0, 30, 45}
  Width = 16
INVARIANT HealthyIsSkippedAtMostOnce
PROPERTIES
  RetryAfterIsKept
  EveryWorkspaceIsPolled
