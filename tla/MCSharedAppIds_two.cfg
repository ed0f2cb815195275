\* Two instances with lists of their own, one app id, two requests in flight.
SPECIFICATION Spec
CONSTANTS
  Instances = {i1, i2}
  Workers = {w1, w2}
  Apps = {a1}
  Emails = {e1, e2, admin}
  Admin = admin
  None = None
SYMMETRY Symmetry
INVARIANT
  ListMatchesStore
CHECK_DEADLOCK TRUE
