\* One run, two requests that may delete the instance, and the reconciler: a fault and a late call.
CONSTANTS
  r1 = r1
  r2 = r2
  i1 = i1
  c1 = c1
  c2 = c2
  m1 = m1
  v1 = v1
  Runs = {r1}
  Instances = {i1}
  Models = {m1}
  Versions = {v1}
  TargetOf <- OneRun
  SecretRuns = {r1}
  LossyLogs = TRUE
  Clients = {c1, c2}
  Reconcilers = {k1}
  None = None
  MaxFaults = 1
  MaxLate = 1
SPECIFICATION Spec
INVARIANTS
  TypeOK
  NoGhostExecution
  CleanedIsQuiet
  JobsAccounted
  InstanceGoesLast
PROPERTIES
  OutputKept
SYMMETRY Symmetry
CONSTRAINTS QuietWhenLate
CHECK_DEADLOCK FALSE
