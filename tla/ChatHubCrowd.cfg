SPECIFICATION Spec
CONSTANTS
  c1 = c1
  c2 = c2
  c3 = c3
  t1 = t1
  t2 = t2
  t3 = t3
  i1 = i1
  i2 = i2
  NoConn = NoConn
  Conns = {c1, c2, c3}
  Tabs = {t1, t2, t3}
  Identities = {i1, i2}
  TabOf <- CrowdTabs
  IdentityOf <- CrowdIds
  MaxConnections = 2
  MaxConversations = 1
  SavesFail = TRUE
  MaxGeneration = 1
INVARIANTS
  NoneBlacklistedOnline
  ReservedHasPlace
PROPERTIES
  EvictionSparesOnline
