CONSTANTS
  MaxRequests = 2
  MaxClients = 2
  MaxLines = 3
  MaxViewers = 3
SPECIFICATION GatewaySpec
INVARIANTS
  RequestsHonoured
  WantedWhenWatched
PROPERTIES
  DemandDriven
CHECK_DEADLOCK FALSE
