SPECIFICATION ClearSpec
CONSTANTS
  ValidSize = 10
  HeadLen = 2
  Sizes = {1, 3}
  MaxPosts = 4
  MaxClears = 2
INVARIANTS
  InOrderUnlessRaced
  ClearSkipsAtMostOne
CHECK_DEADLOCK FALSE
