\* Two turns of a session that is compressed once, across a reconnect.
CONSTANTS
  MaxTurns = 2
  MaxSessions = 1
  MaxConnections = 2
  MaxRotations = 1
  MaxRequests = 0
  MaxEvents = 1
  UserStops = FALSE
SPECIFICATION FairSpec
CHECK_DEADLOCK FALSE
INVARIANTS
  OneOpenTurn
PROPERTIES
  TurnEndsUnlessTaken
