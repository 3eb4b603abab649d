\* A gateway and a CLI on one file, no faults: a stored decision is lost.
CONSTANTS
  p1 = p1
  p2 = p2
  r1 = r1
  r2 = r2
  exec = exec
  NoTool = NoTool
  Procs = {p1, p2}
  Requests = {r1, r2}
  Tools = {exec}
  Types <- MCTypes
  Kinds <- MCKinds
  Permissions <- MCPermissions
  Required <- MCRequired
  Contexts <- MCContexts
  TTL = 2
  MaxTime = 4
  Faults = {"none"}
SPECIFICATION Spec
SYMMETRY Symmetry
PROPERTY StoredDecisionFinal
CHECK_DEADLOCK FALSE
