SPECIFICATION FormedSpec
CONSTANTS
  Node = {a, b, c}
  None = None
  Static = TRUE
  Stoppable = {}
  Flaky = {c}
  Silent = {c}
  Probing = {}
  Calling = {}
  MaxTerm = 2
  MaxInFlight = 2
  MaxInCalm = 4
INVARIANTS ElectionInvariant OneLeaderPerTerm TimersArmed
PROPERTIES VotesAreFinal ImplementsTermLeadership
CONSTRAINT FewerInStorm
SYMMETRY Symmetry
CHECK_DEADLOCK FALSE
