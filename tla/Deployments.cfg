CONSTANTS
  Clients = {c1, c2}
  Ids = {i1, i2}
  Names = {n1, n2}
  Hosts = {h1}
  Secrets = {s1, s2, s3}
  i1 = i1
  i2 = i2
  n1 = n1
  h1 = h1
  s1 = s1
  None = None
  Domain <- MCDomain
  Foreign <- MCForeign
  Seeds <- MCSeeds
  MaxRequests = 3
  MaxFaults = 1
SPECIFICATION Spec
CHECK_DEADLOCK FALSE
SYMMETRY Symmetry
INVARIANT CredentialsBehindIngress
PROPERTIES RoutesArePermitted DeletionIsComplete
