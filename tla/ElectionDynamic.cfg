SPECIFICATION FairSpec
CONSTANTS
  Node = {a, b}
  None = None
  Static = FALSE
  Stoppable = {a, b}
  Flaky = {a, b}
  Silent = {a, b}
  Probing = {a}
  Calling = {a}
  MaxTerm = 2
  MaxInFlight = 2
INVARIANTS FollowsElected
PROPERTIES ClosedNeverCampaigns LostQuorumStepsDown
CONSTRAINT FewInFlight
CHECK_DEADLOCK FALSE
