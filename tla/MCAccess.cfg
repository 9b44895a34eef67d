SPECIFICATION Spec
CONSTANTS
  r1 = r1
  r2 = r2
  Replicas = {r1, r2}
  Workers = {w1, w2}
  Askers = {c1}
  UserNames = {"ann"}
  GroupNames <- MCGroupNames
  Requests <- MCRequests
  Tenants <- MCTenants
  Deployments <- MCDeployments
  Files <- MCFiles
  None = None
CHECK_DEADLOCK FALSE
INVARIANTS BindingsFollowMembership ReachIsBacked DenialIsReal OffboardedIsDenied
SYMMETRY Interchangeable
