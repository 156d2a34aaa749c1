SPECIFICATION Spec
CONSTANTS
  p1 = p1
  p2 = p2
  r1 = r1
  r2 = r2
  k1 = k1
  k2 = k2
  k3 = k3
  d1 = d1
  d2 = d2
  d3 = d3
  d4 = d4
  Processes <- TwoProcesses
  ProcessOf <- Spread
  Runs <- MCRuns
  Creates <- MCCreates
  Decides <- MCDecides
  RunOf <- MCRunOf
  DecisionOf <- MCDecisionOf
  Backends = {"memory", "sqlite"}
  Home = p1
  Filters = {"all", "pending", "approved"}
  PageSize = 1
  MaxRestarts = 1
  None = None
INVARIANTS
  TypeOK
  AcceptedDecisionStands
  RefusedOnlyWhenDecided
  WalkMissesNothing
PROPERTIES
  ImplementsQueue
CHECK_DEADLOCK FALSE
