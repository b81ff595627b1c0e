CONSTANTS
  QueueFrames = 2
  MaxFrames = 6
  MaxClients = 2
SPECIFICATION FairSpec
INVARIANTS
  FramesInOrder
  OneLeftOver
PROPERTIES
  FramesMoveOn
  StopEnds
CHECK_DEADLOCK FALSE
