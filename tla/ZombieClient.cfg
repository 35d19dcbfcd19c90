SPECIFICATION FairSpec
CONSTANTS
  Session = {s, h}
  Client = {c}
  Request = {r}
  None = None
  HttpLoop = {h}
  Lingering = {s}
PROPERTIES DeadClientsAreRemoved
CHECK_DEADLOCK FALSE
