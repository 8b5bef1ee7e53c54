\* Compression on both devices, IPv4 (PPP 0x0021) selected; mixed traffic.
CONSTANTS
  Packets <- MCPacketsAll
  QueueCap = 1
  MaxSends = 3
  CompressTx = TRUE
  CompressRx = TRUE
  ConfigProto = 33
  ChannelMayReject = TRUE
  RxErrorModel = TRUE
  NoPacket = NoPacket
SPECIFICATION FairSpec
INVARIANT WorkConserving
PROPERTY AllResolved
PROPERTY OrderRefinement
\* The simulation ends once the bounded sends have drained.
CHECK_DEADLOCK FALSE
