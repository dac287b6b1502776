SPECIFICATION FairSpec
CONSTANTS
  Conns = {1}
  NSocks = 4
  NFds = 1
  MaxRetry = 2
  SendCap = 2
  Api = {"remove", "reconnect", "send", "auto"}
  AddsOverlap = FALSE
INVARIANTS
  TypeOK
  OneSocketPerIndex
  AttemptsBounded
PROPERTIES
  BrokenAfterConnect
  RetriedToTheEnd
  ReportedUnlessAuto
  EndIsNoticed
