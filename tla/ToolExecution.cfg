\* One process, two turns of one call, in manual and in deny mode: a request made
\* by one of them or by a memory proposal, decided at any moment, used by the other.
CONSTANTS
  p1 = p1
  p2 = p2
  r1 = r1
  r2 = r2
  write = write
  fetch = fetch
  exec = exec
  b1 = b1
  b2 = b2
  plain = plain
  risky = risky
  NoTool = NoTool
  NoArgs = NoArgs
  NoRequest = NoRequest
  Procs = {p1}
  Requests = {r1, r2}
  Tools = {fetch, exec}
  Types <- MCTypes
  Kinds <- MCKinds
  Permissions <- MCPermissions
  Required <- MCRequired
  Contexts <- MCContexts
  TTL = 1
  MaxTime = 1
  Faults = {"none", "crashBeforeSave"}
  Calls = {1, 2}
  Batches = {b1, b2}
  BatchOf <- TwoBatches
  Home <- MCHome
  Policy <- MCPolicy
  Args = {plain, risky}
  RuleList <- MCRuleList
  Exec = exec
  Denied <- MCDenied
  Permitted = {}
  Destructive = {exec}
  Serial = {exec}
  ModeOf <- MCModeOf
  CallContext = {}
SPECIFICATION ExecSpec
SYMMETRY Symmetry
INVARIANTS RunsApproved RanUnderStoredApproval
PROPERTY StoredApprovalHonoured
CHECK_DEADLOCK FALSE
