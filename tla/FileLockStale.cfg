\* A process died with the lock; two others find the lock file stale.
CONSTANTS
  a = a
  b = b
  c = c
  NoLock = NoLock
  Procs = {a, b, c}
  Retries = 1
  Stale = 0
  MaxTime = 1
  Mortal = {a}
  Leaks = FALSE
  Prompt = TRUE
  MaxSize = 2
  MaxFiles = 2
  MaxEvents = 4
  Failures = FALSE
SPECIFICATION LogSpec
INVARIANT MutualExclusion
CHECK_DEADLOCK FALSE
