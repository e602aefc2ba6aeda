SPECIFICATION MCSpec
CONSTANTS
  MaxFutures = 3
  MaxListeners = 2
  MaxEvents = 3
  MaxPauses = 2
  MaxSignals = 3
  Listeners = {l1, l2, l3}
  MaxFired = 3
  MaxLatePauses = 2
  CollectionKeys <- MCKeys
  MaxChanges = 4
  MaxSent = 3
  Columns = {"a", "b"}
  Texts = {"t", "u"}
  Args <- Values
  MaxArgs = 2
  MaxRows = 2
  SqlTexts <- MCTexts
  Batches <- MCBatches
  Bindings <- MCBindings
  Limit = 2
  Half = 8
  Exact = 4
  Paths = {"a"}
  MaxOpen = 2
  MaxLength = 3
  Smallest = 3
  MaxPages = 2
  MaxTransactions = 3
  MaxStops = 2
  Probers = {"a", "b"}
  Listing = {"b"}
  Databases = {"a", "b"}
INVARIANTS
  TypesOK
  DartHolds
  WireHolds
  SqliteHolds
  SearchHolds
CHECK_DEADLOCK FALSE
