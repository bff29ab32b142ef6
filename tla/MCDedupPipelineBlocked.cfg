CONSTANTS
  a = a
  b = b
  None = None
  Input <- InputDup
  NThreads = 2
  MaxThreadsPerQueue = 4
  QueueSize = 1
  PerFetch = 1
  CoarsePerFetch = 2
  PerInsert = 2
  AnchorsInit = 3
SPECIFICATION FairSpec
PROPERTIES WriteReturns
CHECK_DEADLOCK FALSE
