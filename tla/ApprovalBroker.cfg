\* One process with every fault, crashes and restarts.
CONSTANTS
  p1 = p1
  p2 = p2
  r1 = r1
  r2 = r2
  exec = exec
  NoTool = NoTool
  Procs = {p1}
  Requests = {r1, r2}
  Tools = {exec}
  Types <- MCTypes
  Kinds <- MCKinds
  Permissions <- MCPermissions
  Required <- MCRequired
  Contexts <- MCContexts
  TTL = 2
  MaxTime = 4
  Faults = {"none", "saveThrows", "auditThrows", "crashBeforeSave", "crashBeforeAudit"}
SPECIFICATION Spec
SYMMETRY Symmetry
INVARIANTS TypeOK AuditTruthful BrokerInv
PROPERTIES DecisionFinal StoredDecisionFinal RegisterSpec
CHECK_DEADLOCK FALSE
