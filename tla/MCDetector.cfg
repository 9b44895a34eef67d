SPECIFICATION Spec
CONSTANTS
  a = a
  b = b
  t1 = t1
  t2 = t2
  None = None
  Replicas <- MCReplicas
  Tools <- MCTools
  Setups <- MCSetups
  Margin = 1
  ScoreThreshold = 2
  BlockThreshold = 3
  Window = 1
  RateMinCalls = 2
  RateMultiplier = 1
  DenyMinCalls = 2
  DenyThreshold = 50
  MLMinCalls = 2
  MinSamples = 1
  DriftMinCalls = 1
  K = 1
  H = 2
  BlockDuration = 2
  GCInterval = 1
  MaxTime = 5
INVARIANTS BlockIsLogged FrozenWhileBlocked RetriesNeverExtend JudgedOnce CusumIsLargestRise
CHECK_DEADLOCK FALSE
