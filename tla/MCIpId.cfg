SPECIFICATION FairSpec
CONSTANTS
  Streams = {s1, s2}
  NoId = NoId
  IdSpace = 10
  BlockSize = 2
  MaxBlocks = 3
  FirstBlocks = 4
  IntMax = 7
  RandFns <- MCRandFns
INVARIANTS TypeOK UniqueIds BitsAccounted IInv
PROPERTIES ExhaustedIsPermanent FirstFree SearchEnds ImplementsIdPool
