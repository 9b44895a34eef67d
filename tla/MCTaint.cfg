CONSTANTS
  Calls = {c1, c2, c3}
  Identities = {i1}
  NoHeader = NoHeader
  Headers = {NoHeader, h1}
  fetch = fetch
  approve = approve
  write = write
  Tools <- MCTools
  UntrustedSources = {fetch}
  DeclassifySources = {approve}
  Refusals = {"deny", "job_budget_exceeded"}
  TTL = 1
  Window = 2
  MaxTime = 2
SPECIFICATION Spec
SYMMETRY Symmetry
INVARIANTS TaintHasCause ReadTaintsLaterCalls
CHECK_DEADLOCK FALSE
