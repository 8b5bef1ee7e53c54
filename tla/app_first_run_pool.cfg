\* app_first_run_pool
CONSTANTS
  Clients <- OneClient
  EarlyClients = {}
  StartOrder <- OneStartOrder
  Routed <- OneClient
  ViaLink <- OneClient
  FilledClients = {}
  Stoppers <- OneClient
  ServerActor = 0
  N = 2
  PoolSlices = 2
  HardOffset = 2
  FileExistsAtStart = FALSE
  Lossy = FALSE
  NoPkt = NoPkt
SPECIFICATION Spec
INVARIANT HighPayloadFromPool
CHECK_DEADLOCK FALSE
