SPECIFICATION CaptureSpec
CONSTANTS
  a1 = a1
  a2 = a2
  cursor = cursor
  shape = shape
  Mirror = mirror
  None = none
  RingSize = 2
  Areas <- TwoAreas
  WindowMoves <- BothWays
  Cursors <- TwoCursors
  MaxPaint = 2
  Border <- Square
  Paints <- SquarePaints
  Places <- SquarePlaces
  Colours = {0, 1}
  MaxOps = 2
  BlockSize = 4
  Dimensions <- Pictures
  Reports <- PictureReports
SYMMETRY Symmetry
CHECK_DEADLOCK FALSE
INVARIANTS
  TypeOK
  ChangeOnItsWay
  UnsharedInStep
  KeeperExact
PROPERTY FilterExact
