SPECIFICATION FairTimelySpec
CONSTANTS
  Procs = {p1, p2, p3}
  Updates = {u1, u2, u3}
  StaleAge = 4
  WaitLimit = 1
  HoldLimit = 2
  NoFile = NoFile
  Dead = Dead
  Garbage = Garbage
INVARIANTS
  MutualExclusion
PROPERTIES
  NoLostUpdate
  ImplementsAtomicState
  CallReturns
CHECK_DEADLOCK FALSE
