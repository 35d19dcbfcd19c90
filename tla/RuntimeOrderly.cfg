SPECIFICATION FairSpec
CONSTANTS
  Session = {s, t, h}
  Client = {c, d}
  Request = {r}
  None = None
  HttpLoop = {h}
  Lingering = {}
INVARIANTS RegistryAgrees CallsFollowRegistration
PROPERTIES ImplementsInvocationPromise InvocationsEnd DeadClientsAreRemoved
CHECK_DEADLOCK FALSE
