SPECIFICATION Spec
CONSTANTS
  Conns = {1, 2}
  NSocks = 6
  NFds = 3
  MaxRetry = 1
  SendCap = 0
  Api = {}
  AddsOverlap = TRUE
INVARIANT NoDangling
