SPECIFICATION MessagesSpec
CONSTANTS
  Admin = Admin
  Clients = {a, b}
  Groups = {g}
  MaxHistory = 2
  MaxBytes = 1
  MaxConversations = 1
  MaxMessages = 3
  MaxDisturbed = 2
  MaxUploads = 1
  MaxJobs = 2
  MaxChores = 1
  MaxMishaps = 1
SYMMETRY Interchangeable
INVARIANTS
  ShownAsStored
  HiddenRowsExplained
  HistoryCounted
PROPERTIES
  MarksStand
CHECK_DEADLOCK FALSE
