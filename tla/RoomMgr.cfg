SPECIFICATION Spec
CONSTANTS
  Users = {u1, u2, u3}
  Peers = {p1, p2, p3}
  Addrs = {a1, a2}
  MaxRoomID = 3
  BuildLimit = 3
  NULL = NULL
SYMMETRY Symmetry
CHECK_DEADLOCK FALSE
INVARIANTS
  TypeOK
  PeerBinding
  RoomTables
PROPERTIES
  CrashCause
  ImplementsRelay
