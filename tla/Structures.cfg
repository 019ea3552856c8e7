CONSTANTS
  WordBits = 3
  CompactAt = 6
  MaxBits = 6
  MaxRun = 4
  CompactWords = 2
  EstimatedIds = 2
  MaxIds = 8
  Updaters = {a, b}
  MaxIdx = 2
  AllocBlk = 2
  TruncateOn = 1
  Keys = {1}
  NodeSpan = 3
  MaxNth = 3
  Versions = {1, 2}
  Clients = {a, b}
  CounterThreads = {a, b}
  Releases = {"decrement", "decrement_testz", "decrement_testz_and_test_status",
              "dec_xchng_status_ifz", "dec_xchng_status_only_ifz"}
  MaxRefs = 2
  Handles = {1, 2}
  HandleThreads = {a, b, c}
  PoolThreads = {a, b}
  MaxListCount = 2
  BlockSize = 2
  MaxBlocks = 5
  Appenders = {1, 2}
  MaxItems = 4
  MaxBegins = 3
  ScopedThreads = {a, b, c}
  MaxEdits = 4
  Calls = {a, b}
  ClientThreads = {a, b}
  CallKinds = {"callback", "future", "rpc"}
SPECIFICATION StructSpec
SYMMETRY Alike
INVARIANTS SearchesExact RangesSound PoolsSound  ScopedSafe CallsEndOnce
PROPERTIES  IdsSound StreamSound CounterSound HandlesSound
CHECK_DEADLOCK FALSE
