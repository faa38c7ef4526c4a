\* One turn, submitted while the gateway reconnects.
CONSTANTS
  MaxTurns = 1
  MaxSessions = 1
  MaxConnections = 2
  MaxRotations = 0
  MaxRequests = 0
  MaxEvents = 2
  UserStops = FALSE
SPECIFICATION Spec
CHECK_DEADLOCK FALSE
INVARIANTS
  FinishedHasNoTools
