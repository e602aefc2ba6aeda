SPECIFICATION MCSpec
CONSTANTS
  MaxStarts = 2
  MaxTaps = 2
  MaxBuffered = 1
  c1 = c1  c2 = c2
  Calls = {c1, c2}
  MaxAttempts = 3
  MaxExpiries = 2
  Delegates = {"own connection", "this client"}
  Sessions = {c1, c2}
  Disposable = {c1}
  MaxScans = 1
  LogLimit = 2
  RingSize = 3
  Updates = 0
  MaxConnects = 2
  MaxRestarts = 1
INVARIANTS
  TypesOK
  NestedRetriesBounded
  QueueHoldsErrors
PROPERTIES
  EndedStaysEnded
  ClientSettles
CHECK_DEADLOCK FALSE
