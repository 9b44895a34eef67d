CONSTANTS
  x1 = x1
  t1 = t1
  i1 = i1
  Calls = {c1, c2}
  Tools = {x1}
  Tenants = {t1}
  Identities = {i1}
  Routes <- MCRoutes
  Limits <- MCLimits
  NoLimit = NoLimit
  DefaultLimit <- MCDefault
  Overrides <- MCOverrides
  NoBucket = NoBucket
  Nobody = Nobody
  MaxTime = 3
  MaxChanges = 1
SYMMETRY Symmetry
SPECIFICATION Spec
INVARIANTS RateBound AllTiersCharged LeftoverIsExplained
CHECK_DEADLOCK FALSE
