SPECIFICATION SoloSpec
CONSTANTS
  Procs = {d, t1, s1}
  Daemon = d
  Triggers = {t1}
  Swarms = {s1}
  Types = {audit}
  MaxJobs = 2
  MaxFaults = 1
  MaxSessions = 1
  Permits = {r1, r2, r3, r4}
  LimitConcurrent = 1
  LimitHourly = 1
  LimitDaily = 1
  HourTicks = 0
  DayTicks = 0
  NoPermit = NoPermit
INVARIANTS
  LaunchedOnce
  StatusTellsLaunch
  BusyMeansWork
PROPERTY FinishedForGood
CHECK_DEADLOCK FALSE
