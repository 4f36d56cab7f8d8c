SPECIFICATION Spec
CONSTANTS
  Threads = {t1, t2, t3}
  NoThread = NoThread
  MaxReaders = 3
  MaxHolds = 1
INVARIANTS HandoverReachesWaiter
