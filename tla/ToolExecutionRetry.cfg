\* auto_for_tests mode: a call that names a closed request never returns.
CONSTANTS
  p1 = p1
  p2 = p2
  r1 = r1
  r2 = r2
  write = write
  fetch = fetch
  exec = exec
  b1 = b1
  b2 = b2
  plain = plain
  risky = risky
  NoTool = NoTool
  NoArgs = NoArgs
  NoRequest = NoRequest
  Procs = {p1}
  Requests = {r1, r2}
  Tools = {write, exec}
  Types <- MCTypes
  Kinds = {}
  Permissions <- MCPermissions
  Required <- MCRequired
  Contexts <- MCContexts
  TTL = 1
  MaxTime = 0
  Faults = {"none"}
  Calls = {1, 2}
  Batches = {b1, b2}
  BatchOf <- TwoBatches
  Home <- MCHome
  Policy <- MCPolicy
  Args = {plain}
  RuleList <- NoRules
  Exec = exec
  Denied = {}
  Permitted = {}
  Destructive = {exec}
  Serial = {exec}
  ModeOf <- AutoMode
  CallContext = {}
SPECIFICATION FairExecSpec
PROPERTY CallsReturn
CHECK_DEADLOCK FALSE
