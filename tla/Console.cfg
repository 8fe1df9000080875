\* A tab, or a part of the backend; three acts of users, others and failures.
SPECIFICATION Spec
CONSTANTS
  None = None
  i1 = i1
  i2 = i2
  u1 = u1
  u2 = u2
  x1 = x1
  x2 = x2
  Ids = {i1, i2}
  Users = {u1, u2}
  MaxFlights = 2
  MaxActs = 3
  Moved = Moved
  Models = {i1, i2}
  MaxPolls = 2
  Profiled = {i1, i2}
  MaxVersions = 3
  Folders = {"root", "sub"}
  Root = "root"
  Roles = {"admin", "viewer"}
  Newcomers <- MCNewcomers
  MaxAttempts = 2
  Spaces = {i1, i2}
  Panels = {i1, i2}
  Names = {"model"}
  Places = {u1, u2}
  Files = {x1, x2}
  Locals = {u1, u2}
  Externals = {"external"}
  Providers = {x1, x2}
  Repository = {i1, i2}
  AtRoot = AtRoot
  RepositoryModels = {i1, i2}
  HostNames = {u1, u2}
  Profiles = {x1, x2}
  Processes = {i1, i2}
  MaxMessages = 2
  Runs = {i1, i2}
  MaxTries = 2
  Reporters = {i1, i2}
  Keep = 1
  MaxEvents = 3
  Keys = {u1, u2}
  Verifiers = {i1, i2}
  Ttl = 1
  MaxFetch = 1
  MaxTicks = 3
SYMMETRY Symmetry
INVARIANTS
  OwnPages
  TableIsRight
  IdentityShownIsSent
  TimersRun
  
  HandedOverOnce
  FormsMatchServer
  ServesWholeSchema
  BridgeDelivers
  CreatorIsAuthor
  NewestErrorsKept
  KeysAreCurrent
CHECK_DEADLOCK FALSE
