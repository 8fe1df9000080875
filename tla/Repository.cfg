CONSTANTS
  Folders = {fa, fb}
  Names = {n1, n2}
  Contents = {a, b, c}
  fa = fa
  fb = fb
  n1 = n1
  n2 = n2
  a = a
  b = b
  c = c
  None = None
  Users = {u1, u2}
  Repo = fa
  Config = n2
  SizeOf <- MCSizeOf
  Seeds <- MCSeeds
  MaxRequests = 2
  MaxFaults = 1
SPECIFICATION FairSpec
CHECK_DEADLOCK FALSE
PROPERTIES NothingLostUnasked RepositoryFollows
