SPECIFICATION TopicsSpec
CONSTANTS
  Tokens = {t1, t2}
  NoToken = NoToken
  Ttl = 2
  MaxClock = 3
  MaxRestarts = 1
  Configured = {"ingest", "analyzer"}
  Addresses = {a1, a2, a3}
  Limit = 2
  Window = 2
  MaxKeys = 2
  MaxNow = 3
  MaxTakes = 6
  Clients = {c1, c2}
  Size = 2
  MaxRequests = 3
  Identities = {"a", "b"}
  MaxAnalyses = 1
  MaxRows = 1
  DumpIds = {1, 2, 3}
  CaseIds = {1, 2, 3, 4}
  MaxTime = 1
  MaxEvents = 5
  PageSize = 1
  RecentCases = 1
  MaxLimit = 2
SYMMETRY TokenSymmetry
INVARIANTS AccessIsSound LimiterIsFair DownloadIsWhole ListsAreExact ContractsAgree
PROPERTIES RefusalsChangeNothing
CHECK_DEADLOCK FALSE
