SPECIFICATION RequestsSpec
CONSTANTS
  Parts = {"forms"}
  Clients = {c1, c2}
  Limit = 2
  Duration = 2
  CleanupEvery = 2
  MaxTime = 6
  Tabs = {t1, t2}
  Announcements = {a1}
  ExemptForms = {}
  MaxVisits = 3
  MaxPosts = 3
  MaxSessions = 1
  RouteQueries <- MCQueries
  Tables <- MCTables
  MaxASN = 7
  TldServers = {"uk"}
  OctetRIR <- MCOctets
  MaxLines = 3
  MaxEntities = 3
  Rows = {1, 2, 3}
  PageSize = 1
  Provided = {101, 102}
  MaxUpserts = 4
  MaxSearches = 1
  Handlers = {h1, h2}
  Shapes <- MCShapes
  ServerTokens <- MCTokens
  CorsOn = TRUE
  MaxArrivals = 3
  MaxDays = 2
  MaxTokenEdits = 1
  Urls = {u1, u2}
  Searches = {q1, q2}
  EnvServer = Nothing
  Nothing = Nothing
  MaxRuns = 2
  MaxKeys = 5
  MaxFlips = 1
CHECK_DEADLOCK FALSE
INVARIANT FormsMatchCookie
