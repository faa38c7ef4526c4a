\* Two revisions, two workers; backoff and lease as 5 and 10 minutes.
CONSTANTS
  LastRevision = 2
  Pages = {"p"}
  PageOf <- Owners
  Workers = {w1, w2}
  Nobody = Nobody
  MaxAttempts = 3
  Backoff = 1
  LeaseTime = 2
  MaxRounds = 1
SPECIFICATION FairSpec
INVARIANTS
  PublishedOnce
PROPERTIES
  EveryJobEnds
