SPECIFICATION MCSpec
CONSTANTS
  s1 = s1  s2 = s2
  Sessions = {s1, s2}
  Named = {s1}
  MaxScans = 1
  Tree <- MCTree
  Directories <- MCTree
  Size <- MCSize
  MaxDepth = 3
  MaxPartial = 3
  BatchSize = 2
INVARIANTS
  TypesOK
  EventsTellOutcome
  CanceledOnlyOnRequest
  TreeIsTold
PROPERTIES
  StatusMovesForward
  AdmissionKeepsPromise
  ScansSettle
CHECK_DEADLOCK FALSE
