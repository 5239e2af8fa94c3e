SPECIFICATION Spec
CONSTANTS
  Viewers = {v1, v2}
  Width = 2
  MaxVer = 2
  MaxJoins = 2
SYMMETRY Symmetry
CHECK_DEADLOCK FALSE
INVARIANTS
  InStep
  HandlerForRooms
PROPERTIES
  NeverBack
