\* Compression off on both devices; lossy channel and receiver.
CONSTANTS
  Packets <- MCPacketsMixed
  QueueCap = 2
  MaxSends = 5
  CompressTx = FALSE
  CompressRx = FALSE
  ConfigProto = 33
  ChannelMayReject = TRUE
  RxErrorModel = TRUE
  NoPacket = NoPacket
SPECIFICATION FairSpec
INVARIANT TypeOK
INVARIANT WorkConserving
PROPERTY LinkRefinement
PROPERTY AllResolved
\* The simulation ends once the bounded sends have drained.
CHECK_DEADLOCK FALSE
