\* One page and one approval, with an objection raised at any time.
CONSTANTS
  Pages = {p1}
  NoPage = NoPage
  Clients = {c1}
  Objections = {o1}
  Definitions = {}
  MaxNumber = 1
SPECIFICATION Spec
PROPERTIES
  UnresolvedObjectionsBlockApproval
