SPECIFICATION Spec
CONSTANTS
  u1 = u1
  u2 = u2
  n1 = n1
  n2 = n2
  p1 = p1
  p2 = p2
  k1 = k1
  k2 = k2
  r1 = r1
  r2 = r2
  None = None
  Ids = {u1}
  Names = {n1}
  Passwords = {p1, p2}
  Tokens = {k1}
  Requests = {r1}
  Modes <- OnlyUndisturbed
  MaxRestarts = 1
SYMMETRY Interchangeable
INVARIANTS
  ResetRemovesAccess
