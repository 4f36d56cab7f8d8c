SPECIFICATION FairSpec
CONSTANTS
  Threads = {t1, t2, t3}
  NoThread = NoThread
  MaxReaders = 3
  MaxHolds = 2
INVARIANTS Inv NobodySleepsOnFreeLock
PROPERTIES NoForgottenSleeper
