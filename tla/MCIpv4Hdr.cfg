SPECIFICATION FairSpec
CONSTANTS
  Messages <- MCMessages
  Packets <- MCPackets
  Addrs <- MCAddrs
  SockOpts <- MCSockOpts
  Arguments <- MCArguments
  Beyond <- MCBeyond
INVARIANTS HdrInv EvenBuffersVerify PlainHeadersVerify SocketOptionsOnWire IhlCoversOptions OptionReadShort PacketVerifiesIfBytesEqual
PROPERTIES CsumReturns
CHECK_DEADLOCK FALSE
