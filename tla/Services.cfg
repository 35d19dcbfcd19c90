SPECIFICATION ServicesSpec
CONSTANTS
  File = {"snapshot", "services"}
  MaxEvents = 1
  MaxWriteFailures = 1
  Peer = {p1}
  Self = self
  NoServer = NoServer
  MaxLinks = 2
  Call = {k1, k2}
  FanOut = {k1}
  Target = {t1, t2}
  MaxTurns = 1
INVARIANTS StoreInvariant BridgeInvariant
PROPERTIES FilesFollowState AnsweredOnce CallsSettle
CHECK_DEADLOCK FALSE
