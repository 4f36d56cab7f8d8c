SPECIFICATION FairSpec
CONSTANTS
  t1 = t1
  t2 = t2
  t3 = t3
  Threads = {t1, t2, t3, t4}
  NoThread = NoThread
  Few = {t1, t2, t3}
  Users = {t1, t2, t3}
  SEM_VALUE_MAX = 2
  InitialValue = 1
  ReturnsEintr = FALSE
  MaxPosts = 3
  MaxCounter = 1
  Cycles = 3
  Queries = {q1, q2}
  NoQuery = NoQuery
  Hashes = {1, 2}
  MaxEntries = 1
  MaxTime = 2
  MaxFires = 3
INVARIANTS
  PermitsConserved NoLostWakeup CyclesApart FieldsExact
  NobodyOrphaned RequestsAccounted TimerOutlivesItsUsers
PROPERTIES
  NoForgottenSleeper CallsComplete ImplementsAbstractLock ImplementsAbstractOnce
