SPECIFICATION ShutFairSpec
CONSTANTS
  Conns = {1, 2}
  NSocks = 6
  NFds = 2
  MaxRetry = 1
  SendCap = 1
  Api = {"remove", "send"}
  MaxCalls = 3
  AddsOverlap = FALSE
INVARIANTS
  ShutTypeOK
  NoDanglingBefore
  ConnectedIsWatched
  RightUnlessReused
  NothingLeftOpen
PROPERTY StopIsHeard
CHECK_DEADLOCK FALSE
