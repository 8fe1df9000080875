CONSTANTS
  Ids = {i1, i2}
  Names = {n1, n2}
  Urls = {u1, u2}
  PendingUrl <- MCPendingUrl
  S3Ids = {}
  Requests = {q1}
  Refreshers = {f1}
  None = None
  MaxRequests = 2
  MaxChanges = 1
  MaxCrashes = 0
SPECIFICATION FairSpec
INVARIANT AlertsHaveRows
PROPERTIES WritesOwnColumns EventuallyShown
