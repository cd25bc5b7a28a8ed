SPECIFICATION FairSpec
CONSTANTS
  c1 = c1
  c2 = c2
  c3 = c3
  t1 = t1
  t2 = t2
  t3 = t3
  i1 = i1
  i2 = i2
  NoConn = NoConn
  Conns = {c1, c2}
  Tabs = {t1}
  Identities = {i1}
  TabOf <- ReconnectTabs
  IdentityOf <- ReconnectIds
  MaxConnections = 2
  MaxConversations = 1
  SavesFail = FALSE
  MaxGeneration = 2
INVARIANTS
  TypeOK
  NoGhost
  NoLostPeer
  DrainedIsQuiet
PROPERTIES
  ImplementsSessions
  StoppedDrains
