SPECIFICATION HttpSpec
CONSTANTS
  Reqs = {r1, r2}
  worker = worker
  store = store
  search = search
  spawn = spawn
  joined = joined
  key1 = key1
  key2 = key2
  Tools <- MCTools
  Allowed <- MCAllowed
  Identities <- MCIdentities
  MaxPermits = 1
  MaxExecutions = 1
  MaxPerWindow = 2
  NoTool = NoTool
INVARIANTS
  HttpTypeOK
  AdmittedNotRefused
  AnswerTellsEffect
  DiscoveryFits
PROPERTIES
  ReadRequestsEnd
