SPECIFICATION FairSpec
CONSTANTS
  Posts = {p1, p2}
  Null = Null
  HttpThreads = {t1}
  Workers = {w1}
  Configs = {c1}
  Faults = {"exception", "error", "socket", "disk"}
  MaxEdits = 2
  MaxCrashes = 1
INVARIANTS
  TypeOK
  ActiveHasAgent

  
CHECK_DEADLOCK FALSE
