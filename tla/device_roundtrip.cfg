\* Compression on both devices over a lossless link: is what the peer hands up what was sent?
CONSTANTS
  Packets <- MCPacketsMixed
  QueueCap = 2
  MaxSends = 3
  CompressTx = TRUE
  CompressRx = TRUE
  ConfigProto = 33
  ChannelMayReject = FALSE
  RxErrorModel = FALSE
  NoPacket = NoPacket
SPECIFICATION Spec
PROPERTY LinkRefinement
CHECK_DEADLOCK FALSE
