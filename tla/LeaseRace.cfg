SPECIFICATION OverlapSpec
CONSTANTS
  Holders = {h1, h2}
  Workspaces = {w1, w2}
  TTL = 2
  Nobody = Nobody
INVARIANT NoSplitBrain
CHECK_DEADLOCK FALSE
