SPECIFICATION Spec
CONSTANTS
  NoId = NoId
  IdSpace = 16
  ByteBits = 8
  BlockSize = 8
  MaxBlocks = 2
  FirstBlocks = 3
  IntMax = 3
  RandFns <- MCRandFns
  Threads = {t1, t2}
  Streams = {s1}
PROPERTIES FreeIsHarmless
