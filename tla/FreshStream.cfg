CONSTANTS
  QueueFrames = 2
  MaxFrames = 4
  MaxClients = 2
SPECIFICATION Spec
INVARIANT FreshStream
CHECK_DEADLOCK FALSE
