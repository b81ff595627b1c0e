CONSTANTS
  DayLength = 20
  RotateAt = 1
  PreFrames = 1
  PostFrames = 1
  MaxEvent = 0
  Rearm = 1
  MaxTime = 6
  MaxSessions = 2
SPECIFICATION Spec
INVARIANT
  PlotReadsFiles
CHECK_DEADLOCK FALSE
