\* An interactive chat in deny mode, three lines typed at any moment.
CONSTANTS
  p1 = p1
  r1 = r1
  write = write
  edit = edit
  b1 = b1
  b2 = b2
  t1 = t1
  t2 = t2
  t3 = t3
  plain = plain
  NoTool = NoTool
  NoArgs = NoArgs
  NoRequest = NoRequest
  Procs = {p1}
  Requests = {r1}
  Tools = {write, edit}
  Types <- MCTypes
  Kinds = {}
  Permissions <- MCPermissions
  Required <- MCRequired
  Contexts = {}
  TTL = 1
  MaxTime = 0
  Faults = {"none", "auditThrows"}
  Calls = {1, 2, 3}
  Batches = {b1, b2}
  BatchOf <- MCBatchOf
  Home <- MCHome
  Policy <- MCPolicy
  Args = {plain}
  RuleList <- MCRuleList
  Exec = NoTool
  Denied = {}
  Permitted = {}
  Destructive = {}
  Serial = {edit}
  ModeOf <- MCModeOf
  CallContext = {}
  Turns = {t1, t2, t3}
  Engine = p1
  BatchAt <- MCBatchAt
  Streaming = TRUE
  MaxIterations = 2
  MaxRetries = 1
  MaxHistory = 4
  Budget = 5
  SizesOf <- MCSizesOf
  ResultSize = 2
  Indexes = {1, 2}
  WireLength = 3
SPECIFICATION FairTurnSpec
INVARIANTS TurnStateOK SerialAlone EndedTurnsStored ResultsHaveCalls StreamedWhole
PROPERTIES WindowIsLongest TurnEnds
ACTION_CONSTRAINT ThirdLine
CHECK_DEADLOCK FALSE
