CONSTANTS
  Clients = {c1, c2}
  Reconcilers = {k1}
  BackendOf <- MCBackendOf
  Profiles = {p1, p2}
  Creds = {r1, r2}
  Workloads = {w1, w2}
  OwnerOf <- MCOwnerOf
  Flows = {f1, f2}
  p1 = p1
  p2 = p2
  r1 = r1
  r2 = r2
  w1 = w1
  w2 = w2
  c1 = c1
  c2 = c2
  k1 = k1
  None = None
  Seeds <- MCSeeds
  MaxRequests = 3
  MaxFaults = 2
SPECIFICATION FairSpec
CHECK_DEADLOCK FALSE
INVARIANTS SyncedIsCurrent TokensMatch SubmissionsHaveTokens
PROPERTIES UpgradeEnds
