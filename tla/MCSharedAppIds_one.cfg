\* One instance, one app id, two requests in flight, no symmetry.
SPECIFICATION FairSpec
CONSTANTS
  Instances = {i1}
  Workers = {w1, w2}
  Apps = {a1}
  Emails = {e1, e2, admin}
  Admin = admin
  None = None
INVARIANTS
  TypeOK
  ListMatchesStore
PROPERTIES
  OnlyOwnerDeletes
  NoTakeover
  EveryRequestEnds
CHECK_DEADLOCK TRUE
