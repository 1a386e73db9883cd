SPECIFICATION FairSpec
CONSTANTS
  home = home
  list = list
  item = item
  form = form
  done = done
  out = out
  a1 = a1
  a2 = a2
  Consumers = {c1, c2}
  Pages <- Site
  Index = home
  Offsite = out
  App <- Web
  NoAction = NoAction
  MaxDepth = 0
  MaxStates = 0
  Timed = FALSE
  Faults = {}
PROPERTIES
  NothingBegunAfterShutDown
  
  CrawlEnds
  BrowsersAreClosed
CHECK_DEADLOCK FALSE
