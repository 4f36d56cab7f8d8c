SPECIFICATION FairSpec
CONSTANTS
  Threads = {t1, t2}
  KeyCount = 2
  Iterations = 2
  MaxSeq = 3
INVARIANTS RightDestructor NoStaleData NothingLeftBehind
PROPERTIES ExitCompletes
