SPECIFICATION FairSpec
CONSTANTS
  p1 = p1
  p2 = p2
  s1 = s1
  s2 = s2
  r1 = r1
  r2 = r2
  r3 = r3
  r4 = r4
  r5 = r5
  r6 = r6
  Replicas <- MCReplicas
  Sessions <- MCSessions
  Runs <- MCRuns
  HomeOf <- MCHomeOf
  SessionOf <- MCSessionOf
  Outages <- MCOutages
  LongRuns <- MCLongRuns
  None = None
INVARIANTS
  TypeOK
  OneRunPerSession
PROPERTIES
  ImplementsGuard
  ReplicaDeletesOnlyItsLocks
  NeverBlockedForever
CHECK_DEADLOCK FALSE
