SPECIFICATION Spec
CONSTANTS
  SendBuf = 131072
  CodeBuf = 131072
  QueueLen = 131008
  HeadLen = 4
  PHDR_LEN = 16
  Factor = 5
  Growth = 3
  Tries = 5
  MaxRatio = 1032
  Lens <- MCLens
  Bodies <- MCBodies
INVARIANTS
  AcceptedIsWhole
  RawAtMostThrice
  BufferInProportion
PROPERTY FirstIsDecoded
