\* app_udpapp_fill
CONSTANTS
  Clients <- UAClients
  EarlyClients <- UAEarly
  StartOrder <- UAStartOrder
  Routed <- UARouted
  ViaLink <- UAViaLink
  FilledClients <- UAFilled
  Stoppers <- UAStoppers
  ServerActor = 0
  N = 2
  PoolSlices = 2
  HardOffset = 2
  FileExistsAtStart = FALSE
  Lossy = FALSE
  NoPkt = NoPkt
SPECIFICATION Spec
INVARIANT ClientSchedule
CHECK_DEADLOCK FALSE
