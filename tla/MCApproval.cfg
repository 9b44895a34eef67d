SPECIFICATION ApprovalSpec
CONSTANTS
  Calls = {c1, c2, c3}
  Operators = {o1, o2}
  Keys = {k1, k2}
  Ids = {r1, r2}
  GrantTTL = 1
  MaxTime = 2
SYMMETRY Symmetry
INVARIANTS OneApprovalOneCall AdmittedByApproval
CHECK_DEADLOCK FALSE
