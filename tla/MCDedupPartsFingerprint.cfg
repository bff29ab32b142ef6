CONSTANTS
  Units = {"tasks"}
  Producers = {p1}
  Consumers = {c1}
  QueueSize = 1
  PerInsert = 1
  PerFetch = 1
  NItems = 1
  Elements = {e1}
  Capacity = 1
  Handles = {h1}
  First = h1
  MaxSize = 1
  Input <- InputTwo
  NThreads = 2
  None = None
  NULL = NULL
  MaxLen = 0
  MAXBUF = 1
  ANCHOR_JUMP = 0
  Bytes = {0}
SPECIFICATION PartsSpec
INVARIANT FingerprintAfterData
