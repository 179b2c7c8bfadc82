SPECIFICATION ProjectSpec
CONSTANTS
  Operators = {o1}
  MaxPids = 2
  NoPid = NoPid
  Callers = {y1, y2}
  WorkerIds = {x1, x2}
  Queen = queen
  Proposals = {p1}
  Capacities = {2}
  NoHive = NoHive
  NoProposal = NoProposal
  Agents = {a1, a2}
  Residents = {a2}
  Tasks = {t1}
  Sessions = {s1}
  MaxRetries = 1
  MaxRuns = 1
  MaxTarget = 2
  Unset = Unset
  NumWorkers = 4
  ReadOnly = {2}
  MaxWriters = 2
  Runs = {x1, x2}
  Envs = {x1, x2}
  Versions = {y1, y2}
  MaxHistory = 5
  MaxSteps = 2
  read = read
  write = write
  every = every
  viewer = viewer
  Users = {x1, x2}
  Roles = {viewer, team}
  Actions = {read, write}
  Patterns <- MCPatterns
  Meaning <- MCMeaning
  BuiltInRoles <- MCBuiltInRoles
  BuiltInClaims <- MCBuiltInClaims
  NoRole = NoRole
  Missing = Missing
  Keys = {x1, x2}
  Hash = hash
  Onnx = onnx
  Bge = bge
  NoTag = NoTag
  NoFile = NoFile
  Torn = Torn
  MaxVectors = 2
  MaxEdits = 2
  MaxBackups = 2
SYMMETRY Symmetry
INVARIANTS
  ProjectTypeOK
  StopSticks
  FullVoteDecides
  RunTellsTruth
  OutcomeTrue
  RollbackSettles
  
PROPERTIES
  StoppedStays
  CheckFollows
  UserTextKept
\* A dual run ends, and there is a last process to start.
CHECK_DEADLOCK FALSE
