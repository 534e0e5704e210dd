SPECIFICATION Spec
CONSTANTS
  CaptureGrace = 5
  FirstFrameGrace = 6
  StallDeadline = 5
  RunLimit = 10
  RunSpan = 2
  RunGap = 5
INVARIANTS
  DeadAirBounded
  VerdictNeedsTrouble
  LossNoticedInTime
CHECK_DEADLOCK FALSE
