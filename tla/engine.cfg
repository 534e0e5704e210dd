SPECIFICATION FairSpec
CONSTANTS
  Callers = {c1, c2}
  MaxSessions = 3
  MaxRetries = 1
  None = None
INVARIANTS
  TypeOK
  DevicesFollowSession
  LoopOwnsDevices
  NoStrandedSession
PROPERTIES
  FailureBeforeEnd
  StopStands
  ReportsAlternate
  ImplementsControl
  CallsReturn
  LostCaptureIsClosed
