\* app_phase_boundary
CONSTANTS
  Clients <- OneClient
  EarlyClients = {}
  StartOrder <- OneStartOrder
  Routed <- OneClient
  ViaLink <- OneClient
  FilledClients = {}
  Stoppers <- OneClient
  ServerActor = 0
  N = 2
  PoolSlices = 2
  HardOffset = 2
  FileExistsAtStart = TRUE
  Lossy = FALSE
  NoPkt = NoPkt
SPECIFICATION Spec
INVARIANT HighWindowExact
CHECK_DEADLOCK FALSE
