\* Liveness: main only moves ahead, two runs of one attempt.
CONSTANTS
  Commits = {1, 2, 3}
  Ahead <- Tree
  ForcePush = FALSE
  MaxRun = 2
  MaxAttempt = 1
  MaxRerun = 0
  MaxRequests = 1
  Root = 1
  NoCommit = 0
  Ids = {"a", "b"}
  Catalogue <- Contents
  NoEntry = NoEntry
SPECIFICATION FairSpec
PROPERTIES
  CatchesUp
