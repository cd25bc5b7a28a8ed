SPECIFICATION PartsSpec
CONSTANTS
  m1 = m1
  m2 = m2
  w1 = w1
  t1 = t1
  t2 = t2
  v1 = v1
  x = x
  y = y
  day1 = day1
  day2 = day2
  None = None
  Plain = Plain
  Messages = {m1, m2}
  Incoming = {w1}
  Times = {t1, t2}
  Conversations = {v1}
  ConversationOf <- TwoInOne
  Contents = {x, y}
  Places = {day1, day2}
  MaxMishaps = 2
  Users = {a, b}
  NoRecord = NoRecord
  MaxWrites = 2
  MaxChanges = 3
  MaxFaults = 1
  Uploads = {u1, u2}
  Recalls = {r1, r2}
  Deletions = {d1}
  Switches = {w1}
  Stops = {s1}
  Monitors = {n1, n2}
  NoMonitor = NoMonitor
  NoBinding = NoBinding
  MaxShown = 2
  MaxCodes = 2
  MaxInbox = 1
  MaxSends = 1
  MaxTroubles = 1
  MaxMade = 3
  MaxCertMishaps = 3
  Ids = {i1, i2}
  Names = {alice}
  NoName = NoName
  NoRow = NoRow
  MaxSaves = 3
  Uploaders = {q1, q2}
  FileNames = {f}
  Window = Window
  NotSaving = NotSaving
  MaxEntries = 3
  MaxShareOps = 3
  MaxShareMishaps = 1
  Forms = {f1, f2}
  Addresses = {h1, h2}
  Nowhere = Nowhere
  MaxForms = 3
  MaxSettingsMishaps = 2
INVARIANTS
  AttachmentsOpen
  CountsCover
  NothingLeftBehind
  UsersOnDisk
  WaitsEndAtBrowser
  NoMessageSkipped
  BoundIsHeard
  CommitIsAtomic
  TrustedCAIsKept
  RowsFollowBuckets
  SharesOnDisk
  UploadsAreListed
  SettingsSurvive
  ListensWhereShown
CHECK_DEADLOCK FALSE
