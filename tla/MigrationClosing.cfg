SPECIFICATION UnclosedSpec
CONSTANTS
  Procs = {m1, m2}
  StaleAge = 1
  NoMarker = NoMarker
  Torn = Torn
INVARIANTS
  OneSession
