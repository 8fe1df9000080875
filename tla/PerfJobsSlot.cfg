\* Two clients, two runs of one target; a call of the first may arrive late.
CONSTANTS
  r1 = r1
  r2 = r2
  i1 = i1
  c1 = c1
  c2 = c2
  m1 = m1
  v1 = v1
  Runs = {r1, r2}
  Instances = {i1}
  Models = {m1}
  Versions = {v1}
  TargetOf <- OneTarget
  SecretRuns = {}
  LossyLogs = FALSE
  Clients = {c1, c2}
  Reconcilers = {}
  None = None
  MaxFaults = 0
  MaxLate = 1
SPECIFICATION Spec
INVARIANTS
  OneBenchmark
  AdmittedAlone
  ResultIsLatest
PROPERTIES
  ImplementsSlots
SYMMETRY RunSymmetry
CONSTRAINTS InstancesStay SecondIsAdmitted LateForTheSecond
CHECK_DEADLOCK FALSE
