CONSTANTS
  a = a
  b = b
  Instances = {a, b}
  Tenants = {"t1", "t2"}
  Marks = {"m"}
  Deployments <- MCDeployments
  Capacity = 2
  MinInstances = 2
  CorrelationWindow = 2
  PublishInterval = 2
  GCInterval = 1
  MaxBatchAge = 2
  None = None
  MaxTime = 4
SPECIFICATION Spec
INVARIANTS  NoCorrelationMissed  CountedOnce
PROPERTY PublishEnds
CHECK_DEADLOCK FALSE
