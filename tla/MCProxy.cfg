CONSTANTS
  Calls = {r1, r2}
  Operators = {o1}
  j1 = j1
  kw = kw
  ke = ke
  write = write
  export = export
  Shapes <- MCShapes
  Wired = {"approval", "job", "cost"}
  Jobs = {j1}
  Keys = {kw, ke}
  Ids = {a}
  Tools = {write, export}
  RequestLimit = 1
  ToolCosts <- Costs
  DefaultCost = 0
  CostLimit = 2
  MeterCanFail = TRUE
  GrantTTL = 0
  MaxTime = 1
  Upgrades = TRUE
SPECIFICATION Spec
SYMMETRY Symmetry
INVARIANTS ExtraEntryIsFailedSwitch MeterMatchesLog OverrunsApproved SentWasDecided JobCeiling CostCeiling
 
CHECK_DEADLOCK FALSE
