\* Two sessions, updates and rollbacks of one app.
SPECIFICATION FairSpec
CONSTANTS
  Sessions = {alice, bob}
  alice = alice
  bob = bob
  x = x
  y = y
  AppIds = {x, y}
  Terminals <- MCTerminals
  Configs <- MCConfigs
  Paths = {1, 2, 3}
  StaticFiles = {3}
  ErrorFiles = {3}
  TooLong = {}
  Size <- MCSize
  MaxFilesToClone = 1
  MaxBatchSize = 2
  MaxBatchCount = 2
  MaxBatchFileSize = 2
  BatchOverhead = 0
  MaxTries = 2
  None = None
INVARIANTS
  ServedIsComplete
  OrphanOnlyIfLost
  SentOnce
PROPERTIES
  EverySessionEnds
  NoForeignRollback
CHECK_DEADLOCK TRUE
