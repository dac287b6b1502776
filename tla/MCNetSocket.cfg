SPECIFICATION LuaFairSpec
CONSTANTS
  Conns = {1}
  NSocks = 4
  NFds = 2
  MaxRetry = 1
  SendCap = 1
  Api = {"remove", "reconnect", "send"}
  AddsOverlap = FALSE
  EvCap = 3
  Patient = TRUE
INVARIANTS
  LuaTypeOK
  FlagIsTrue
PROPERTIES
  LiveIsTold
  DestroyedIsClosed
  ImplementsSession
  AskIsAnswered
CHECK_DEADLOCK FALSE
