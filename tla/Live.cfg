CONSTANTS
  c1 = c1
  c2 = c2
  Writers = {w1, w2}
  Collectors = {c1, c2}
  Ops <- LiveOps
  MaxItems = 1
  MaxLives = 2
  None = None
  NumCqs = 1
  Rpcs = {"notified", "generic"}
  MaxRpcs = 3
SPECIFICATION LiveSpec
INVARIANTS CallObjectsSound ListenersKept
PROPERTIES CollectionReturns ShutdownReturns
CHECK_DEADLOCK FALSE
