SPECIFICATION FairSpec
CONSTANTS
  CursorDetectors = {}
  Mirror = mirror
  RoomIDs = {1}
  MaxMsgs = 1
  NULL = NULL
CHECK_DEADLOCK FALSE
PROPERTY GUIReturns
