SPECIFICATION Spec
CONSTANTS
  s1 = s1  s2 = s2
  Sessions = {s1, s2}
  Named = {s1, s2}
  MaxScans = 1
INVARIANTS
  EndIsQueryable
CHECK_DEADLOCK FALSE
