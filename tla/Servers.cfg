SPECIFICATION ServersSpec
CONSTANTS
  Session = {s1, s2, h}
  Client = {c, d}
  Request = {r}
  None = None
  HttpLoop = {h}
  Lingering = {s1, h}
  Deployments <- MCDeployments
  Probed = 2
  Ports = 3
  MaxUnderway = 2
  MaxStops = 1
INVARIANTS RuntimeInvariant DiscoveryInvariant
PROPERTIES SettledOnce
SYMMETRY Symmetry
CHECK_DEADLOCK FALSE
