\* main only moves ahead: three runs, one of which is run again, and two
\* requests in flight.
CONSTANTS
  Commits = {1, 2, 3, 4, 5}
  Ahead <- Tree
  ForcePush = FALSE
  MaxRun = 3
  MaxAttempt = 2
  MaxRerun = 1
  MaxRequests = 2
  Root = 1
  NoCommit = 0
  Ids = {"a", "b"}
  Catalogue <- Contents
  NoEntry = NoEntry
SPECIFICATION Spec
INVARIANTS
  TypeOK
  ShownProvenance
  VerifiedOnly
  CatalogueIsBaseline
  OneRevisionPerContent
PROPERTIES
  BaselineNeverOlder
  BaselineOnlyMovesAhead
