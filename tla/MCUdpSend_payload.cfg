SPECIFICATION Spec
CONSTANTS
  PayloadLens <- MCPayloadLens
  Usable = 24
INVARIANTS PayloadOnWire
CHECK_DEADLOCK FALSE
