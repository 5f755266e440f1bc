SPECIFICATION Spec
CONSTANTS
  Data = {"d"}
  MaxLen = 2
  MaxPackets = 2
INVARIANTS PacketsArrive
CHECK_DEADLOCK FALSE
