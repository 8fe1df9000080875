\* One run under fairness: a crash, an error or interference; no late calls.
CONSTANTS
  r1 = r1
  r2 = r2
  i1 = i1
  c1 = c1
  c2 = c2
  m1 = m1
  v1 = v1
  Runs = {r1}
  Instances = {i1}
  Models = {m1}
  Versions = {v1}
  TargetOf <- OneRun
  SecretRuns = {}
  LossyLogs = FALSE
  Clients = {c1}
  Reconcilers = {k1}
  None = None
  MaxFaults = 1
  MaxLate = 0
SPECIFICATION FairSpec
PROPERTIES
  EventuallyCleaned
CHECK_DEADLOCK FALSE
