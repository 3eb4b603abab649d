\* Three messages of two conversations, restarts, deleted sessions, named sessions.
CONSTANTS
  m1 = m1
  m2 = m2
  m3 = m3
  c1 = c1
  c2 = c2
  Messages = {m1, m2, m3}
  Convs = {c1, c2}
  Window = 1
  MaxMessages = 2
  Missing = Missing
  Registry = TRUE
  Naming = TRUE
  MaxSessions = 3
  MaxTime = 1
SPECIFICATION Spec
SYMMETRY Symmetry
INVARIANTS TurnTypeOK RateBound Routed TurnsKept Transcribed
PROPERTY DeniedAtLimit
CHECK_DEADLOCK FALSE
