\* One session, three requests in flight.
SPECIFICATION Spec
CONSTANTS
  Users = {u1}
  Sids = {7}
  Addrs = {a1, a2}
  Workers = {w1, w2, w3}
  Conns = {c1, c2, c3}
  None = None
SYMMETRY Symmetry
INVARIANTS
  MappedSocketsOpen
  NoDoubleClose
  ConnectReachesAddress
  NoLeakWithoutRace
  AnswersAreTrue
PROPERTIES
  ClosesWhatFailed
  NoSilentSwitch
CHECK_DEADLOCK TRUE
