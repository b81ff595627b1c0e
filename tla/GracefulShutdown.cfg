CONSTANTS
  Capacity = 2
  LastFrame = 0
  MaxFrames = 4
  Duration = 0
  BlockFrames = 2
  MaxBlocks = 2
SPECIFICATION ProcessSpec
INVARIANT GracefulShutdown
CHECK_DEADLOCK FALSE
