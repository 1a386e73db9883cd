SPECIFICATION Spec
CONSTANTS
  Posts = {p1, p2, p3}
  Null = Null
  HttpThreads = {t1}
  Workers = {w1, w2}
  Configs = {c1}
  Faults = {"kb"}
  MaxEdits = 1
  MaxCrashes = 1
SYMMETRY Symmetry
VIEW View
INVARIANTS
  NewestFirst
  FilesAreNotShared
  FolderIsKnown
  AtMostOneAgent
  SuccessHasRow
PROPERTIES
  ImplementsCrawlJobs
CHECK_DEADLOCK FALSE
