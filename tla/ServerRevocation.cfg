SPECIFICATION ServerSpec
CONSTANTS
  c1 = c1
  c2 = c2
  t1 = t1
  i1 = i1
  NoConn = NoConn
  Conns = {c1}
  Tabs = {t1}
  Identities = {i1}
  TabOf <- OneTab
  IdentityOf <- OneId
  MaxConnections = 2
  MaxConversations = 1
  SavesFail = FALSE
  MaxGeneration = 3
  MaxRuns = 1
  MaxAccess = 0
  OpenVersions = {0}
INVARIANTS
  OnlineWithLiveSession
