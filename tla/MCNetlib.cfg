SPECIFICATION NetlibFairSpec
CONSTANTS
  Clients = {c1, c2}
  Fds = {3, 4}
  PayloadLens = {9}
  Usable = 24
  NoId = NoId
  IdSpace = 10
  BlockSize = 1
  MaxBlocks = 1
  FirstBlocks = 1
  IntMax = 7
  RandFns <- MCRandFns
  MaxFailures = 2
INVARIANTS NetlibInv DescriptorsAccounted NullLeavesNoMemory SocketTellsOutcome MainOutcome HangTakesFailures
PROPERTIES StarvedForGood SendReturns
CHECK_DEADLOCK FALSE
