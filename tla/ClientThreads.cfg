SPECIFICATION Spec
CONSTANTS
  CursorDetectors = {cursorPos, cursorShape}
  Mirror = mirror
  RoomIDs = {1, 2}
  MaxMsgs = 1
  NULL = NULL
SYMMETRY Symmetry
CHECK_DEADLOCK FALSE
INVARIANTS
  TypeOK
  DeadlockIsLockCycle
  NoDetectorWithoutHandler
