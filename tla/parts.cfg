SPECIFICATION PartsSpec
CONSTANTS
  Configs = {A, B}
  NoConfig = NoConfig
  None = None
  Groups = {"jatyta", "forms"}
  Lists = {"formList", "validations"}
  MaxEdits = 3
  s1 = s1
  s2 = s2
  t1 = t1
  t2 = t2
  Schemas = {s1, s2}
  Types = {t1, t2}
  SchemaOf <- SchemaOfTypes
  Nothing = Nothing
  MaxPages = 2
  Requests = {r1, r2}
  GoodJars = {1, 2}
  MaxJars = 2
  MaxOutages = 1
  Clients = {q1, q2}
  NoId = NoId
  Names = {"a", "a2"}
  ConfigIds = {"a", "a2", "a3", "a22", "a23"}
  Variants <- IdVariants
  MaxWrites = 3
  MaxDeaths = 1
  index_ = index_
  good = good
  bad = bad
  Checkers = {k1, k2}
  PageStates = {index_, good, bad}
  IndexState = index_
  LeadsTo <- SiteMap
  BrokenPages = {bad}
  NoLink = NoLink
  Extractors = {x1, x2}
  Elements = {e1, m}
  MenuItems = {m}
  Titles = {t, u}
  NoTitle = u
  MaxPagesSeen = 3
INVARIANTS
  PartsTypeOK
  FieldsStayHome
  ListsBelongToSelection
  
  QuietReportsAreTrue
  FilesFollowMap
  AddsReplaceNothing
  TakenOnce
PROPERTIES
  NothingStoredIsLost
  SaveStoresEveryTab
  UploadsKeepApart
  
CHECK_DEADLOCK FALSE
