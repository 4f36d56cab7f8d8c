SPECIFICATION Spec
CONSTANTS
  t1 = t1
  t2 = t2
  t3 = t3
  Threads = {t1, t2}
  NoThread = NoThread
  Libraries = {l1}
  Exe = Exe
  PageSize = 4
  EntrySize = 3
  MaxAtexit = 3
  MaxAtfork = 2
  MaxForks = 1
  MaxPending = 2
  Overlap = FALSE
  Libs = {l1, l2}
  NoLib = NoLib
  MainThread = t1
  MaxGeneration = 4
  Sizes = {0, 1, 8, 40}
  Aligns = {1, 2, 8, 16, 64, 128}
  Skews = {0, 1, 8, 12}
  MaxSolibs = 1
  Openers = {t1, t2, t3}
  NoTag = NoTag
  InlineFds = 1
  MaxFds = 3
  LowFds = 1
  PageEntries = 3
INVARIANTS
  NothingOfUnloaded ForkIsPaired StoresFindPageOpen AllocatorKept
  TlsBlocksKept LayoutIsSound NoFalseAlarm
PROPERTIES
  CalledInReverse LimitStays AddressIsStable
CHECK_DEADLOCK FALSE
