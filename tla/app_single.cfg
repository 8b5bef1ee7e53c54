\* app_single
CONSTANTS
  Clients <- P1Clients
  EarlyClients <- P1Early
  StartOrder <- P1StartOrder
  Routed <- P1Routed
  ViaLink <- P1ViaLink
  FilledClients <- P1Filled
  Stoppers <- P1Stoppers
  ServerActor = 0
  N = 3
  PoolSlices = 3
  HardOffset = 3
  FileExistsAtStart = FALSE
  Lossy = FALSE
  NoPkt = NoPkt
SPECIFICATION FairSpec
INVARIANT TypeOK
INVARIANT ClientSchedule
INVARIANT LowWindowExact
INVARIANT ReportComplete
INVARIANT MeasuredPayloadFromPool
PROPERTY EchoesReturn
PROPERTY TimerRefinement
CHECK_DEADLOCK FALSE
