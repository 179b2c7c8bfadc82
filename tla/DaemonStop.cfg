SPECIFICATION DaemonSpec
CONSTANTS
  Operators = {o1}
  MaxPids = 2
  NoPid = NoPid
INVARIANT
  PollersSeeStop
CHECK_DEADLOCK FALSE
