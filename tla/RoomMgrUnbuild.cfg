SPECIFICATION Spec
CONSTANTS
  Users = {u1, u2}
  Peers = {p1, p2}
  Addrs = {a1, a2}
  MaxRoomID = 3
  BuildLimit = 3
  NULL = NULL
SYMMETRY Symmetry
CHECK_DEADLOCK FALSE
PROPERTIES
  UnbuildClosesNamedRoom
