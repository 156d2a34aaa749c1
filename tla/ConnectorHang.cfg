SPECIFICATION FairSpec
CONSTANTS
  t1 = t1
  t2 = t2
  t3 = t3
  Threads = {t1, t2, t3}
  PackOf <- MCPackOf
  Kinds = {"sharepoint"}
  Margin = 3
  Lifetime = 5
  MaxTime = 6
  MaxStay = 2
  MaxRedirects = 2
  MaxBody = 1
  None = None
PROPERTIES
  EveryFetchEnds
CHECK_DEADLOCK FALSE
