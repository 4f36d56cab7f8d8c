SPECIFICATION Spec
CONSTANTS
  Libs = {1, 2, 3}
  Threads = {t1}
  NoLib = NoLib
  Loops = TRUE
  MaxHandles = 1
  MaxDtors = 0
INVARIANT LoopsAreUnloaded
