CONSTANTS
  Parts = {"workers"}
  NPtrs = 2
  Locs = {1, 2}
  Start <- OwnLocation
  Threads = {t1, t2}
  MaxSwaps = 1
  ATOMIC_NULL = 0
  NumberTempSteps <- UntilConverged
  MaxSteps = 2
  NWorkers = 2
  Script <- TwoEdgeMaps
  Height = 5
  Half = 1
  WorkUnit = 2
  Parties = {b1, b2, b3}
  n = 2
  MaxCalls = 1
  GenMod = 4
  BufferSize = 2
  NumFrames = 4
  MayFail = {}
SPECIFICATION ThreadsSpec
CHECK_DEADLOCK FALSE
INVARIANT GradientComplete
