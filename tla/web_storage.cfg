SPECIFICATION MCSpec
CONSTANTS
  c1 = c1  c2 = c2
  Openers = {c1, c2}
  MaxChecks = 4
  Visitors = {c1, c2}
  MaxCommits = 2
  Clients = {c1, c2}
  Hasty = {c1}
  MaxRequests = 5
  MaxExecutors = 4
  MaxPages = 2
  MaxTransactions = 3
  MaxCrashes = 1
  Tabs = {c1, c2}
  Attempts = 2
  MaxCalls = 7
INVARIANTS
  TypesOK
  AnswersHold
  CommitsOutlastServers
  Isolated
  CommitsStored
  LocksHold
PROPERTIES
  WorkersAnswer
CHECK_DEADLOCK FALSE
