SPECIFICATION BackgroundSpec
CONSTANTS
  Printers = {p1, p2}
  MaxLines = 2
  PipeSize = 2
  Many = 2
  Detached = FALSE
  NULL = NULL
  Threads = {t1, t2, t3}
  None = None
  MaxLives = 3
  MaxFailures = 5
CHECK_DEADLOCK FALSE
INVARIANTS
  LoggerSafe
  CollectorSafe
  DriverSafe
PROPERTIES
  AllReturn
