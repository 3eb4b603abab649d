\* A process dies after the L3 write, before the proposal is recorded as written.
CONSTANTS
  p1 = p1
  r1 = r1
  r2 = r2
  r3 = r3
  x1 = x1
  x2 = x2
  s0 = s0
  s1 = s1
  s2 = s2
  NoTool = NoTool
  NoRequest = NoRequest
  NoFact = NoFact
  Procs = {p1}
  Requests = {r1, r2}
  Tools = {}
  Types <- MCTypes
  Kinds = {}
  Permissions <- MCPermissions
  Required <- MCRequired
  Contexts = {}
  TTL = 1
  MaxTime = 0
  Faults = {"none"}
  Ids = {x1, x2}
  Texts = {s0, s1, s2}
  Facts = {s0, s2}
  Redact <- MCRedact
  Reviewers <- MCReviewers
  Deciding <- MCPermissions
  Throwing = FALSE
SPECIFICATION ProposalSpec
SYMMETRY Symmetry
INVARIANT OnlyApprovedInMemory
CHECK_DEADLOCK FALSE
