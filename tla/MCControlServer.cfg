CONSTANTS
  MaxClients = 2
  MaxLines = 3
SPECIFICATION FairSpec
INVARIANTS
  OkIsOwn
  AppliedInOrder
  StatusKeepsUp
PROPERTIES
  StopEnds
CHECK_DEADLOCK FALSE
