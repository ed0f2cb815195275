\* The compress filter of snova.conf against what dispatch.go does with it.
SPECIFICATION Spec
CONSTANTS
  RetryFetchCount = 3
  CompressType = "snappy"
  Ranges = {r1, r2}
  Narrowed = narrowed
  Types = {video, plain}
  Filtered = {video}
  Plain = plain
  None = None
INVARIANT
  OthersCompressed
CHECK_DEADLOCK TRUE
