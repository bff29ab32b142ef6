CONSTANTS
  a = a
  b = b
  None = None
  Input <- InputFour
  NThreads = 3
  MaxThreadsPerQueue = 2
  QueueSize = 1
  PerFetch = 2
  CoarsePerFetch = 2
  PerInsert = 2
  AnchorsInit = 1
SPECIFICATION FairSpec
INVARIANTS EnqueueBeforeTermination DataStoredOnce NothingMissing
PROPERTIES ImplementsArchive EventuallyDone
