SPECIFICATION Spec
CONSTANTS
  Replicas = {1, 2}
  Identities = {"a", "b"}
  Window = 2
  Interval = 1
  MinSamples = 1
  None = None
  Deployments <- MCDeployments
CHECK_DEADLOCK FALSE
INVARIANTS
  EvictedStaysGone
  WindowCountedOnce
