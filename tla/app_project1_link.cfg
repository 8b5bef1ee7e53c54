\* app_project1_link
CONSTANTS
  Clients <- P1Clients
  EarlyClients <- P1Early
  StartOrder <- P1StartOrder
  Routed <- P1Routed
  ViaLink <- P1ViaLink
  FilledClients <- P1Filled
  Stoppers <- P1Stoppers
  ServerActor = 0
  N = 2
  PoolSlices = 2
  HardOffset = 2
  FileExistsAtStart = FALSE
  Lossy = FALSE
  NoPkt = NoPkt
SPECIFICATION Spec
INVARIANT ServerMeasuresLink
CHECK_DEADLOCK FALSE
