SPECIFICATION FairSpec
CONSTANTS
  Threads = {m, a, b}
  Main = m
  None = None
  MaxRuns = 1
INVARIANTS NoUseAfterUnmap NothingLeaked RunIsComplete
PROPERTIES CallsComplete
CHECK_DEADLOCK FALSE
