SPECIFICATION FairSpec
CONSTANTS
  Pipelines = {"research_analysis", "research_only", "analysis_only", "research", "run", "structured", "summariser"}
  Policies <- MCPolicies
  Models = {"known", "unpriced", "strict", "unnamed", "unnamed_strict", "nameless"}
  Budget = 6
  NoBudget = NoBudget
  Estimates <- MCEstimates
  Costs <- MCCosts
  MaxIterations = 3
  StepCaps = {4, 7}
  MaxAttempts = 4
INVARIANTS
  FailClosed
  StreamProtocol
  SpendCapped
  CausesSurface
  IterationsForceCompletion
PROPERTIES
  SpendingStops
  Answers
CHECK_DEADLOCK FALSE
