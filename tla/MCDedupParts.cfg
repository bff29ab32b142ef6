CONSTANTS
  Units = {"queue", "ring", "mbuffer", "tasks", "cutting", "serial"}
  Producers = {p1, p2}
  Consumers = {c1, c2}
  QueueSize = 2
  PerInsert = 2
  PerFetch = 2
  NItems = 3
  Elements = {e1, e2, e3}
  Capacity = 3
  Handles = {h1, h2, h3}
  First = h1
  MaxSize = 3
  Input <- InputFour
  NThreads = 3
  None = None
  NULL = NULL
  MaxLen = 6
  MAXBUF = 3
  ANCHOR_JUMP = 1
  Bytes = {0, 1}
SPECIFICATION PartsSpec
INVARIANTS NoLostWakeup NoEarlyExit FifoPerProducer NoUseAfterFree FreedOnce ViewsInBounds DataStoredOnce FragmentTilesInput
PROPERTIES ImplementsFifo QueueFinishes OrderKept VersionsEnd
