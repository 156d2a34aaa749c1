SPECIFICATION Spec
CONSTANTS
  a = a
  b = b
  c = c
  d = d
  e = e
  f = f
  s1 = s1
  s2 = s2
  Requests <- CompetingRequests
  Kind <- CompetingKind
  SessionOf <- CompetingSession
  Sessions <- MCSessions
  NoSession = NoSession
  Regulated <- CompetingRegulated
  OnLoop <- CompetingOnLoop
  RegulatedEnabled = TRUE
  Workers = 1
  ServerWaits = FALSE
INVARIANTS
  NoSessionLeft
  PooledPipelineHoldsSession
  StoresOutliveWrites
  OverlapOnlyAfterAbort
  ReviewSubmitted
PROPERTIES
  ImplementsGuard
CHECK_DEADLOCK FALSE
