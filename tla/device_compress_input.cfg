\* Compression on the sender: does deflate consume exactly the packet bytes?
CONSTANTS
  Packets <- MCPacketsV4
  QueueCap = 2
  MaxSends = 2
  CompressTx = TRUE
  CompressRx = TRUE
  ConfigProto = 33
  ChannelMayReject = FALSE
  RxErrorModel = FALSE
  NoPacket = NoPacket
SPECIFICATION Spec
INVARIANT FrameEncodesPacket
CHECK_DEADLOCK FALSE
