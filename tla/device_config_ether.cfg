\* Compression on, target given as the IPv4 EtherType 0x0800: is IPv4 compressed?
CONSTANTS
  Packets <- MCPacketsV4
  QueueCap = 2
  MaxSends = 2
  CompressTx = TRUE
  CompressRx = TRUE
  ConfigProto = 2048
  ChannelMayReject = FALSE
  RxErrorModel = FALSE
  NoPacket = NoPacket
SPECIFICATION Spec
INVARIANT CompressesTarget
CHECK_DEADLOCK FALSE
