SPECIFICATION DiscoverySpec
CONSTANTS
  Deployments <- MCHubAndEdges
  Probed = 2
  Ports = 4
  MaxUnderway = 1
  MaxStops = 1
INVARIANT FailoverPossible
CHECK_DEADLOCK FALSE
