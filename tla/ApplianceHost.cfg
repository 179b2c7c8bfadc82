SPECIFICATION HostSpec
CONSTANTS
  Procs = {d, t1}
  Daemon = d
  Triggers = {t1}
  Swarms = {}
  Types = {audit}
  MaxJobs = 2
  MaxFaults = 1
  MaxSessions = 0
  Permits = {r1, r2, r3}
  LimitConcurrent = 1
  LimitHourly = 1
  LimitDaily = 1
  HourTicks = 0
  DayTicks = 0
  NoPermit = NoPermit
INVARIANTS
  HostTypeOK
  LaunchedOncePerSupervisor
  LeaksOnlyByFault
PROPERTY QueuedIsTaken
CHECK_DEADLOCK FALSE
