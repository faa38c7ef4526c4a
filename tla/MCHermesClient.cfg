\* A call and one of the consumer, two connections of two events, a channel of
\* events with room for one.
CONSTANTS
  MaxCalls = 2
  Own <- LastCall
  MaxConnections = 2
  MaxEvents = 2
  Capacity = 1
SPECIFICATION FairSpec
CHECK_DEADLOCK FALSE
INVARIANTS
  NeverBlocks
PROPERTIES
  NoEventSkipped
  ImplementsCalls
  HeardCallsReturn
