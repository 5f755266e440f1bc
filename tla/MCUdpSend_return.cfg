SPECIFICATION Spec
CONSTANTS
  PayloadLens <- MCPayloadLens
  Usable = 24
PROPERTIES ReturnContract
CHECK_DEADLOCK FALSE
