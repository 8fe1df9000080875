\* Two resets through one link that overlap, a login, and a reset through a second link.
CONSTANTS
  Clients = {c1, c2}
  Ids = {i1, i2, i3}
  Emails = {e1, e2}
  Links = {t1, t2, t3}
  Configs = {a}
  i1 = i1
  i2 = i2
  e1 = e1
  e2 = e2
  t1 = t1
  a = a
  None = None
  Limit = 1
  Seeds <- ResetSeeds
  Ops <- ResetOps
  MaxRequests = 5
  MaxCrashes = 0
SPECIFICATION Spec
CHECK_DEADLOCK FALSE
SYMMETRY Symmetry
INVARIANT CompletionEndsSessions
