SPECIFICATION Spec
CONSTANTS
  a = a
  b = b
  d1 = d1
  d2 = d2
  adm = adm
  NoGroup = NoGroup
  Identities = {a, b}
  Devices = {d1, d2}
  IdentityOf <- DeviceOwners
  Admins = {adm}
  g1 = g1
  g2 = g2
  Gids = {g1, g2}
  n1 = n1
  n2 = n2
  Names = {n1, n2}
  MaxPending = 2
  Failures = TRUE
  MaxCrashes = 1
SYMMETRY Interchangeable
CONSTRAINT SmallEnough
INVARIANTS
  RestartLosesNothing
  DissolvedStaysGone
PROPERTIES
  OwnerLostOnlyWhenBarred
  BlacklistedNeverJoins
