SPECIFICATION FairSpec
CONSTANTS
  r1 = r1  r2 = r2  c1 = c1  c2 = c2
  dir = dir  file = file  other = other  v1 = v1  v2 = v2
  Commands = {c1}
  Nodes = {file, other}
  Requests = {r1, r2}
  Confirmations <- MCRetries
  Inside = {}
  Versions = {v1}
  Eligible <- MCEligible
  PlanShapes <- MCPairShape
  Absent = Absent
  Blocked = Blocked
  StoreLimit = 1
  FaultSet = {"refused", "unsynced"}
  MaxPlanId = 1
  MaxFaults = 1
  MaxCrashes = 1
  MaxTouches = 1
INVARIANTS
PROPERTIES
  ImplementsPromise
  LocksDrain
  TakenUpIsAnswered
