SPECIFICATION FairLocksSpec
CONSTANTS
  Uploads = {u1, u2}
  Recalls = {r1, r2}
  Deletions = {d1}
  Switches = {w1}
  Stops = {s1}
PROPERTIES
  SwitchNeverBlocks
CHECK_DEADLOCK FALSE
