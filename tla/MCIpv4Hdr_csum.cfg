SPECIFICATION Spec
CONSTANTS
  Messages <- MCMessages
  Packets <- MCPackets
  Addrs <- MCAddrs
  SockOpts <- MCSockOpts
  Arguments <- MCArguments
  Beyond <- MCBeyond
INVARIANTS BuffersVerify
CHECK_DEADLOCK FALSE
