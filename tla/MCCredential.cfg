CONSTANTS
  Requests = {r1, r2}
  Revokers = {o1}
  Tenants = {t1}
  Identities = {i1}
  NoTenant = NoTenant
  AccessTTL = 1
  RefreshTTL = 1
  MaxTokens = 2
  MaxTime = 2
SPECIFICATION Spec
SYMMETRY Symmetry
INVARIANTS NoFork 
PROPERTY EndedForever
CHECK_DEADLOCK FALSE
