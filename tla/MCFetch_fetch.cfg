\* A budget of three attempts, two client ranges, a listed and another type.
SPECIFICATION FairSpec
CONSTANTS
  RetryFetchCount = 3
  CompressType = "snappy"
  Ranges = {r1, r2}
  Narrowed = narrowed
  Types = {video, plain}
  Filtered = {video}
  Plain = plain
  None = None
INVARIANTS
  TypeOK
  RangeIsClients
  ContentSentOnce
  BudgetPerCall
PROPERTY
  EveryFetchAnswered
CHECK_DEADLOCK TRUE
