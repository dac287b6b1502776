SPECIFICATION Spec
CONSTANTS
  Conns = {1, 2}
  Lens <- MCLens
  HeadLen = 2
  BufLen = 6
  QCap = 2
  Garbage = {0, 2, 9}
  MaxBreaks = 1
  MaxPosts = 5
INVARIANTS
  TypeOK
  PacketsUnlessSpoiled
  NothingHeldBack
CONSTRAINT UpToSpoiled
CHECK_DEADLOCK FALSE
