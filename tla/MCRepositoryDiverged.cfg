\* main is moved to a commit that is not ahead while an import is in flight.
CONSTANTS
  Commits = {1, 2, 6}
  Ahead <- Tree
  ForcePush = TRUE
  MaxRun = 2
  MaxAttempt = 1
  MaxRerun = 0
  MaxRequests = 2
  Root = 1
  NoCommit = 0
  Ids = {"a", "b"}
  Catalogue <- Contents
  NoEntry = NoEntry
SPECIFICATION Spec
PROPERTIES
  BaselineOnlyMovesAhead
