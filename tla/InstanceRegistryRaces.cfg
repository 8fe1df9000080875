CONSTANTS
  Ids = {i1, i2}
  Names = {n1, n2}
  Urls = {u1, u2}
  PendingUrl <- MCPendingUrl
  S3Ids = {}
  Requests = {q1, q2}
  Refreshers = {}
  None = None
  MaxRequests = 4
  MaxChanges = 0
  MaxCrashes = 1
SPECIFICATION Spec
CHECK_DEADLOCK FALSE
SYMMETRY Symmetry
INVARIANTS TypeOK NamesUnique
PROPERTIES ImplementsLifecycle
