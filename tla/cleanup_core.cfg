SPECIFICATION Spec
CONSTANTS
  r1 = r1  r2 = r2  c1 = c1  c2 = c2
  dir = dir  file = file  other = other  v1 = v1  v2 = v2
  Commands = {c1, c2}
  Nodes = {dir, file, other}
  Requests = {r1, r2}
  Confirmations <- MCConfirmations
  Inside <- MCInside
  Versions = {v1}
  Eligible <- MCEligible
  PlanShapes <- MCPlanShapes
  Absent = Absent
  Blocked = Blocked
  StoreLimit = 2
  FaultSet = {"refused", "torn", "unterminated", "unsynced"}
  MaxPlanId = 2
  MaxFaults = 1
  MaxCrashes = 1
  MaxTouches = 0
SYMMETRY MCSymmetry
INVARIANTS
  TypeOK
  AtMostOneCall
  HonestReceipts
  InboxHoldsCutShort
  FoldAgrees
PROPERTIES
  FinalReceiptStable
  DamageStopsCleanup
  MovesSpareOthers
