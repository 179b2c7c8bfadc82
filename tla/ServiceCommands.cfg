SPECIFICATION ServiceSpec
CONSTANTS
  Issues = {i1, i2}
  Agents = {x1, x2, x3}
  None = None
  Holders = {x1, x2, x3}
  Workspaces = {w1, w2}
  TTL = 2
  Nobody = Nobody
  Procs = {x1, x2, x3}
  Permits = {r1, r2, r3, r4, r5, r6, r7, r8}
  LimitConcurrent = 1
  LimitHourly = 2
  LimitDaily = 3
  HourTicks = 1
  DayTicks = 2
  NoPermit = NoPermit
SYMMETRY Symmetry
INVARIANTS
  ServiceTypeOK
  ExclusiveClaims
  PendingByClaimant
  NoSplitBrain
  GrantsBacked
  BoundedOvershoot
  PermitHeld
PROPERTIES
  PendingGoesToTarget
  HolderGivesUp
CHECK_DEADLOCK FALSE
