SPECIFICATION FairSpec
CONSTANTS
  Size = 13
  HeadLen = 2
  Reserved = 3
  Word = 256
  Sizes = {1, 4, 7}
  Buffers = {4, 8}
  MaxPosts = 5
INVARIANTS
  TypeOK
  ReservedIsFree
  InsideUnlessPassed
PROPERTIES
  ImplementsFifo
  LeavesUnlessOutside
CHECK_DEADLOCK FALSE
