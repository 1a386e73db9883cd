SPECIFICATION Spec
CONSTANTS
  home = home
  list = list
  item = item
  form = form
  done = done
  out = out
  a1 = a1
  a2 = a2
  Consumers = {c1, c2}
  Pages <- Site
  Index = home
  Offsite = out
  App <- Chain
  NoAction = NoAction
  MaxDepth = 2
  MaxStates = 2
  Timed = TRUE
  Faults = {"unreachable", "unfired", "escape", "exception", "error", "login", "slow"}
SYMMETRY Symmetry
INVARIANTS
  TypeOK
  EveryActionAccounted
  TasksAreReachable
  DepthIsJustified
  NobodyIsStuck
PROPERTIES
  ImplementsCrawlActions
CHECK_DEADLOCK FALSE
