SPECIFICATION Spec
CONSTANTS
  Clients = {c1, c2}
  Users = {u1, u2}
  Peers = {p1, p2}
  Addrs = {a1, a2}
  MaxRoomID = 2
  BuildLimit = 2
  NULL = NULL
  Streamer = u1
  MaxQueue = 1
  MaxWindows = 2
  MaxLogins = 2
CONSTRAINT Company
VIEW View
SYMMETRY Symmetry
CHECK_DEADLOCK FALSE
INVARIANTS
  LoginMeansBound
  AcceptedIsBound
  RoomsAgree
