SPECIFICATION FairSpec
CONSTANTS
  Threads = {t1, t2, t3}
  NoThread = NoThread
  WordSize = 12
  MaxMissed = 2
  MaxItems = 2
INVARIANTS NoSignalLost
PROPERTIES NoForgottenWaiter
