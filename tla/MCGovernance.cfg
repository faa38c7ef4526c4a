\* A feature and its scenario, two concurrent requests, two revisions a page.
CONSTANTS
  Pages = {p1, p2}
  NoPage = NoPage
  Clients = {c1, c2}
  Objections = {o1}
  Definitions = {d1}
  MaxNumber = 2
SPECIFICATION Spec
SYMMETRY Symmetry
INVARIANTS
  PointersMatchStatuses
  LinearHistory
  LockedRowsAreFresh
  ApprovedUnderApprovedFeature
  
  ApprovalOutputs
PROPERTIES
  ApprovalIsForward
  ObjectionsSeenBlock
  ImplementsLifecycle
