\* Two processes append; one may die at any moment, any system call may fail.
CONSTANTS
  a = a
  b = b
  c = c
  NoLock = NoLock
  Procs = {a, b}
  Retries = 1
  Stale = 0
  MaxTime = 1
  Mortal = {a}
  Leaks = FALSE
  Prompt = TRUE
  MaxSize = 1
  MaxFiles = 3
  MaxEvents = 5
  Failures = TRUE
SPECIFICATION FairLogSpec
INVARIANTS MutualExclusion AckedReadable
PROPERTIES OnlyOldestDropped KeepsHistory AppendEnds
CHECK_DEADLOCK FALSE
