SPECIFICATION Spec
CONSTANTS
  Calls = {1, 2, 3}
  TenantOf <- MCTenantOf
  SecondLen = 2
  Deployments <- MCDeployments
  None = None
CHECK_DEADLOCK FALSE
INVARIANTS ExportedOnce 
PROPERTY TrailImplemented
