SPECIFICATION FairSpec
CONSTANTS
  Viewers = {v1, v2, v3}
  Rooms = {r1, r2}
  MaxFrames = 4
  MaxPacket = 2
  NULL = NULL
CHECK_DEADLOCK FALSE
INVARIANTS
  NoDanglingViewer
  BatchIsSignalled
PROPERTIES
  ImplementsFifo
  FramesDrawn
