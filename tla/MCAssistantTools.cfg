\* Two turns of a session that is compressed twice, stops and requests of Hermes.
CONSTANTS
  MaxTurns = 2
  MaxSessions = 1
  MaxConnections = 1
  MaxRotations = 2
  MaxRequests = 1
  MaxEvents = 1
  UserStops = TRUE
SPECIFICATION Spec
CHECK_DEADLOCK FALSE
INVARIANTS
  OpenTurnIsBusy
PROPERTIES
  RevokedForGood
  FinishRevokes
