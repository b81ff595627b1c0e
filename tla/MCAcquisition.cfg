CONSTANTS
  Capacity = 3
  LastFrame = 5
  MaxFrames = 8
  Duration = 4
  BlockFrames = 2
  MaxBlocks = 4
SPECIFICATION FairProcess
INVARIANTS
  EndIsComplete
  WakeupComing
PROPERTIES
  IsFrameQueue
  RecordedOrFailed
  EndsWhenAsked
CHECK_DEADLOCK FALSE
