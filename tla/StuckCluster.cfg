SPECIFICATION OrderedSpec
CONSTANTS
  Node = {a, b, c}
  None = None
  Static = TRUE
  Stoppable = {a}
  Flaky = {a, c}
  Silent = {}
  Probing = {}
  Calling = {}
  MaxTerm = 3
  MaxInFlight = 2
INVARIANTS ElectionPossible
CONSTRAINT FewInFlight
CHECK_DEADLOCK FALSE
