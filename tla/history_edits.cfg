SPECIFICATION Spec
CONSTANTS
  Posts = {p1}
  Null = Null
  HttpThreads = {t1}
  Workers = {w1, w2}
  Configs = {c1}
  Faults = {}
  MaxEdits = 2
  MaxCrashes = 0
PROPERTIES
  EditsAreKept
CHECK_DEADLOCK FALSE
