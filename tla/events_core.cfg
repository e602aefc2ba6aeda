SPECIFICATION MCSpec
CONSTANTS
  s1 = s1  s2 = s2  q1 = q1  q2 = q2
  Sessions = {s1, s2}
  Disposable = {}
  MaxScans = 1
  LogLimit = 3
  RingSize = 3
  Updates = 2
  MaxConnects = 2
  MaxRestarts = 0
  Queriers = {q1, q2}
  Snapshots = {s1, s2}
  Listings <- MCListings
  Length <- MCLength
  MaxCursors = 2
  PageLimits = {1, 2}
  MaxPages = 3
SYMMETRY MCSymmetry
INVARIANTS
  TypesOK
  HeardInOrder
  GapsNoticed
  PagesComplete
  CursorsKept
CHECK_DEADLOCK FALSE
