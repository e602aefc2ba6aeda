SPECIFICATION Spec
CONSTANTS
  s1 = s1  s2 = s2
  Sessions = {s1, s2}
  Disposable = {}
  MaxScans = 1
  LogLimit = 3
  RingSize = 3
  Updates = 1
  MaxConnects = 2
  MaxRestarts = 1
INVARIANTS
  GapsNoticed
CHECK_DEADLOCK FALSE
