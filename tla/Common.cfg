SPECIFICATION CommonSpec
CONSTANTS
  Threads = {t1, t2, t3}
  NULL = NULL
  Fetchers = {f1, f2, f3}
  MaxPumped = 4
  MAX_MSG_NUM = 9
  Delays = {1, 2}
  Early = 1
  MaxId = 3
  MaxTimers = 3
  MaxTime = 3
  Elements = {e1, e2, e3, e4, e5}
  Keys = {1, 2, 3}
PROPERTIES
  ImplementsLock
  LibrarySafe
  LibraryServes
