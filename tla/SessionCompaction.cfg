\* Two turns of one user and of contexts without a user, every fault.
CONSTANTS
  t1 = t1
  t2 = t2
  alice = alice
  NoUser = NoUser
  Turns = {t1, t2}
  Users = {alice}
  EventLimit = 1
  LongLimit = 1
  KeepRecent = 1
  Quoted = 1
  Proposing = TRUE
  Faults = {"none", "writeThrows", "laterThrows"}
  MaxEvents = 5
  MaxTime = 2
SPECIFICATION Spec
SYMMETRY Symmetry
INVARIANTS BacklogBounded RecentKept
PROPERTIES SummaryGrows NothingDropped
CHECK_DEADLOCK FALSE
