SPECIFICATION Spec
CONSTANTS
  Client = {c, d}
  Primary = {a, b}
  Busy = {c}
  None = None
  MaxTerm = 2
  MaxProxies = 2
  MaxVersion = 2
  MaxDrops = 1
INVARIANTS MirrorInvariant MirrorsAgree FollowsCluster ClosedProxiesLetGo ReconcileWaitsForSocket
SYMMETRY Symmetry
CHECK_DEADLOCK FALSE
