CONSTANTS
  DayLength = 4
  RotateAt = 1
  SegmentFrames = 3
  SegmentCount = 2
  MaxTime = 10
  MaxSessions = 3
SPECIFICATION Spec
INVARIANTS
  FilesReadable
  StreamComplete
  CountHonoured
PROPERTIES
  RowsAppended
CHECK_DEADLOCK FALSE
