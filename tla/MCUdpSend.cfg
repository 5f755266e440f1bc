SPECIFICATION Spec
CONSTANTS
  PayloadLens <- MCPayloadLens
  Usable = 24
INVARIANTS TypeOK ResourcesReturned ShortMessagesArrive LengthsAgree ReturnTellsSent UInv
CHECK_DEADLOCK FALSE
