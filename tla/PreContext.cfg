CONSTANTS
  DayLength = 20
  RotateAt = 1
  PreFrames = 2
  PostFrames = 1
  MaxEvent = 0
  Rearm = 1
  MaxTime = 8
  MaxSessions = 1
SPECIFICATION Spec
INVARIANT
  PreContextContiguous
CHECK_DEADLOCK FALSE
