CONSTANTS
  t1 = t1
  t2 = t2
  Threads = {t1, t2}
  NoThread = NoThread
  MaxPending = 2
  Overlap = TRUE

SPECIFICATION Spec
INVARIANT StoresFindPageOpen
CHECK_DEADLOCK FALSE
