SPECIFICATION Spec
CONSTANTS
  MaxInhibits = 3
  CallsMayFail = TRUE
INVARIANTS
  InhibitedWhileHeld
  SuspendedWhileRunning
  FreeBetweenSessions
CHECK_DEADLOCK FALSE
