SPECIFICATION Spec
CONSTANTS
  Posts = {p1, p2}
  Null = Null
  HttpThreads = {t1, t2}
  Workers = {w1, w2}
  Configs = {c1}
  Faults = {}
  MaxEdits = 1
  MaxCrashes = 0
INVARIANTS
  UniqueIds
CHECK_DEADLOCK FALSE
