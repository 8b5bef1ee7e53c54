\* app_lossy
CONSTANTS
  Clients <- TwoClients
  EarlyClients = {1}
  StartOrder <- TwoStartOrder
  Routed = {1}
  ViaLink = {1}
  FilledClients = {}
  Stoppers <- TwoClients
  ServerActor = 0
  N = 3
  PoolSlices = 3
  HardOffset = 3
  FileExistsAtStart = FALSE
  Lossy = TRUE
  NoPkt = NoPkt
SPECIFICATION FairSpec
PROPERTY TimerRefinement
PROPERTY ClientCompletes
CHECK_DEADLOCK FALSE
