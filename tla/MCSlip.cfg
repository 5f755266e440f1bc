SPECIFICATION FairSpec
CONSTANTS
  Data = {"d"}
  MaxLen = 2
  MaxPackets = 2
INVARIANTS SlipInv PlainPacketsInOrder PlainPacketResynchronises
PROPERTIES NoOverrun CallReturns
CHECK_DEADLOCK FALSE
