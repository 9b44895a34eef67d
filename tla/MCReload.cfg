CONSTANTS
  t1 = t1
  x1 = x1
  Handlers = {h1}
  Watcher = Watcher
  Tenants = {t1}
  Tools = {x1}
  NoLimit = NoLimit
  Configs <- MCConfigs
  InitialConfig <- MCInitial
  MaxEdits = 2
SPECIFICATION Spec
INVARIANTS  NoOrphans NoGap
PROPERTY EventuallyInForce
CHECK_DEADLOCK FALSE
