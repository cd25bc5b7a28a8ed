SPECIFICATION TablesSpec
CONSTANTS
  Ids = {u1, u2}
  Names = {alice}
  NoName = NoName
  NoRow = NoRow
  MaxSaves = 3
INVARIANTS
  DeletedLeavesNothing
CHECK_DEADLOCK FALSE
