\* Three rows of two sessions, segments of either length, one abort that may lose.
CONSTANTS
  Ids = {i1, i2, i3}
  Sessions = {sA, sB}
  p1 = p1
  p2 = p2
  Parts = {p1, p2}
  States <- Growing
  Aborters = {c1}
  Intervals = {2, 3}
  ShardSize = 1
  MaxAttempts = 2
  CallersShareIds = FALSE
  MaxSaves = 4
  AbortWindow = 2
SYMMETRY Symmetric
SPECIFICATION Spec
INVARIANTS RowsAreWhole AbortAnswersOnce
CHECK_DEADLOCK FALSE
