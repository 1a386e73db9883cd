SPECIFICATION PagesSpec
CONSTANTS
  Crawls = {1, 2}
  NoCrawl = 0
  Visited = {1}
  MaxWire = 2
  LogCrawls = {c1, c2}
  NoLog = NoLog
  MaxVisits = 2
  MaxLogDrops = 1
  MaxDown = 2
INVARIANTS
  PagesTypeOK
  
  LogFollowsPage
  ClosedSocketsAreSilent
  
PROPERTIES
  EndedCrawlLeaves
  
CHECK_DEADLOCK FALSE
