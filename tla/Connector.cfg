SPECIFICATION FairSpec
CONSTANTS
  t1 = t1
  t2 = t2
  t3 = t3
  Threads = {t1, t2, t3}
  PackOf <- MCPackOf
  Kinds = {"http", "sharepoint", "gdrive", "rag"}
  Margin = 3
  Lifetime = 4
  MaxTime = 4
  MaxStay = 2
  MaxRedirects = 2
  MaxBody = 1
  None = None
PROPERTIES
  ReusedTokenIsLive
  EndsUnlessAsleep
CHECK_DEADLOCK FALSE
