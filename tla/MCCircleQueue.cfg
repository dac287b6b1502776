SPECIFICATION FairSpec
CONSTANTS
  ValidSize = 12
  HeadLen = 2
  Sizes = {1, 2, 4}
  MaxPosts = 6
INVARIANTS
  TypeOK
  NoOverwrite
  EqualOnlyWhenEmpty
  EmptyTakesHalf
PROPERTY DeliversAll
CHECK_DEADLOCK FALSE
