SPECIFICATION ClientsSpec
CONSTANTS
  MaxSessions = 2
  MaxDown = 2
  MaxUp = 2
  MaxMessages = 2
  MaxFailures = 1
  NoSession = NoSession
  Socket = {s1, s2}
  ConnectCall = {c1}
  Run = {r1}
  MaxAttempts = 2
  NoSocket = NoSocket
  Client = {w, c}
  Required = {w}
  NoConfig = NoConfig
  MaxEdits = 1
  MaxSaves = 1
  MaxTroubles = 2
  MaxClients = 5
  MaxAsks = 2
  MaxDowns = 2
INVARIANTS LoopInvariant ConnectionInvariant ExtensionInvariant EditorInvariant
PROPERTIES ImplementsFifoLink CloseFlushesFirst MessagesArrive ConnectionsComeToAnEnd ConnectsAgain LossIsTriedAgain
CHECK_DEADLOCK FALSE
