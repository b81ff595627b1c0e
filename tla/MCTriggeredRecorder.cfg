CONSTANTS
  DayLength = 5
  RotateAt = 1
  PreFrames = 2
  PostFrames = 1
  MaxEvent = 4
  Rearm = 2
  MaxTime = 9
  MaxSessions = 2
SPECIFICATION Spec
INVARIANTS
  TypeOK
  FilesReadable
  EventRowsKnown
  EventsWhole
  QuietAfterCut
  DiscardedEventsAbsent
  NoContextLost
PROPERTIES
  RowsRetained
  PostContextComplete
CHECK_DEADLOCK FALSE
