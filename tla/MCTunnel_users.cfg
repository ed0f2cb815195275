\* Two users with the same session id, two requests in flight, no symmetry.
SPECIFICATION FairSpec
CONSTANTS
  Users = {u1, u2}
  Sids = {7}
  Addrs = {a1, a2}
  Workers = {w1, w2}
  Conns = {c1}
  None = None
INVARIANTS
  TypeOK
  SessionIsolation
  SaveFindsUserMap
PROPERTIES
  EveryRequestAnswered
CHECK_DEADLOCK TRUE
