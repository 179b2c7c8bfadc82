SPECIFICATION PromptSpec
CONSTANTS
  Procs = {p1, p2, p3}
  Updates = {u1, u2, u3}
  StaleAge = 3
  WaitLimit = 1
  HoldLimit = 1
  NoFile = NoFile
  Dead = Dead
  Garbage = Garbage
PROPERTY NoLostUpdate
CHECK_DEADLOCK FALSE
