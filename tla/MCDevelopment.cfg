\* Two sessions of two turns each, two revisions, two calls in flight.
CONSTANTS
  Revisions = {r1, r2}
  NoRevision = NoRevision
  Sessions = {s1, s2}
  Tasks = {t1, t2}
  Nobody = Nobody
  Calls = {k1, k2}
  MaxLease = 3
SPECIFICATION Spec
SYMMETRY Symmetry
INVARIANTS
  TypeOK
  FinisherHasTheClaim
  FinishingIsServed
  BoundToItsTurn
  OneClaimPerTask
  SentOnce
PROPERTIES
  ImplementsContract
