CONSTANTS
  Parts = {"canneal", "workers", "barrier", "loader"}
  NPtrs = 3
  Locs = {1, 2, 3}
  Start <- OwnLocation
  Threads = {t1, t2}
  MaxSwaps = 2
  ATOMIC_NULL = 0
  NumberTempSteps <- UntilConverged
  MaxSteps = 1
  NWorkers = 3
  Script <- TwoEdgeMaps
  Height = 5
  Half = 1
  WorkUnit = 2
  Parties = {b1, b2, b3}
  n = 2
  MaxCalls = 3
  GenMod = 4
  BufferSize = 2
  NumFrames = 7
  MayFail = {3}
SPECIFICATION ThreadsSpec
CHECK_DEADLOCK FALSE
INVARIANTS WorkersInStep RowsOnce NeverPopsEmpty SameTemperature
PROPERTIES ImplementsBarrier SwapIsAtomic ThreadsEnd
