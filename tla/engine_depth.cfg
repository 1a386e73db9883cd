SPECIFICATION Spec
CONSTANTS
  home = home
  list = list
  item = item
  form = form
  done = done
  out = out
  a1 = a1
  a2 = a2
  Consumers = {c1}
  Pages <- DeepSite
  Index = home
  Offsite = out
  App <- Deep
  NoAction = NoAction
  MaxDepth = 3
  MaxStates = 0
  Timed = FALSE
  Faults = {}
INVARIANTS
  DepthIsBounded
CHECK_DEADLOCK FALSE
