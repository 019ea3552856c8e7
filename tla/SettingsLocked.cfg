CONSTANTS
  FlipThreads = {a, b}
  FlipSpecs <- SomeFlips
  MaxAdds = 2
  MaxHits = 4
  Listeners = {a, b}
  MaxContents = 3
  MaxWds = 3
  NumCqs = 1
  Rpcs = {"plain", "generic"}
  MaxRpcs = 2
  Calls = {a, b}
  ClientThreads = {w}
  CallKinds = {"future"}
  FlushThreads = {1, 2, 3}
  Flushers = {1}
  MetricThreads = {a, b}
  Shared = Shared
  GroupKinds = {"thread_buf", "rcu", "atomic"}
  Deltas <- UpAndDown
  Boundaries <- TwoBoundaries
  Samples = {3, 5}
  MaxUpdates = 3
  MaxExited = 2
  FarmGroups = {a, b, c}
  InstNames <- OneName
  ClassMetrics <- TwoClasses
  NoGroup = NoGroup
  SettingsReaders = {a, b}
  Override <- PortOverridden
  MaxNodes = 3
  SoThreads = {a, b}
  SoNames = {1, 2, 3}
  BatchSize = 2
SPECIFICATION ServicesSpec
SYMMETRY Alike
INVARIANT SafelyLocked
CHECK_DEADLOCK FALSE
