SPECIFICATION Spec
CONSTANTS
  Limit = 2
  BlockSize = 2
  FindBlock = 3
  MaxRecords = 3
  MaxSubs = 1
  MaxDay = 2
  MaxSpan = 1
  MaxRuns = 3
INVARIANTS
  OnceInOrder
  NothingMissing
