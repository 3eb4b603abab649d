\* Two daemons, a stop command, one client.
CONSTANTS
  p1 = p1
  p2 = p2
  p3 = p3
  c1 = c1
  NoProc = NoProc
  Procs = {p1, p2, p3}
  CommandOf <- MCCommandOf
  Reusable = {p1}
  Faults = {"init", "write"}
  Clients = {c1}
  Admins = {c1}
  Filters <- MCFilters
  TypeOf <- MCTypeOf
  Limit = 1
  MaxRecent = 2
  MaxEvents = 3
  Signals = {"SIGINT"}
SPECIFICATION FairDaemonSpec
INVARIANTS RecordNamesServer StreamContiguous
PROPERTIES RecordKept ShutdownEnds
CHECK_DEADLOCK FALSE
