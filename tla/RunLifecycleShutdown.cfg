SPECIFICATION FairSpec
CONSTANTS
  a = a
  b = b
  c = c
  d = d
  e = e
  f = f
  s1 = s1
  s2 = s2
  Requests <- MixedRequests
  Kind <- MixedKind
  SessionOf <- MixedSession
  Sessions <- MCSessions
  NoSession = NoSession
  Regulated <- MixedRegulated
  OnLoop <- MixedOnLoop
  RegulatedEnabled = FALSE
  Workers = 1
  ServerWaits = FALSE
PROPERTIES
  GracefulShutdown
CHECK_DEADLOCK FALSE
