SPECIFICATION Spec
CONSTANTS
  Client = {c}
  Primary = {a, b}
  Busy = {c}
  None = None
  MaxTerm = 2
  MaxProxies = 2
  MaxVersion = 1
  MaxDrops = 0
INVARIANT FollowsPrimary
SYMMETRY Symmetry
CHECK_DEADLOCK FALSE
