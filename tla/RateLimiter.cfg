SPECIFICATION Spec
CONSTANTS
  steady = steady
  unlucky = unlucky
  Keys <- MCKeys
  Backends = {"memory", "redis"}
  MaxRequests = 2
  Window = 2
  Skew = 1
  EvictInterval = 3
  Outages <- MCUnlucky
  Bursts <- MCUnlucky
  MaxTime = 5
  MaxGrants = 4
  NoBound = NoBound
INVARIANTS
  WindowLimit
  DenialJustified
PROPERTIES
  RetryAfterWorks
CHECK_DEADLOCK FALSE
