SPECIFICATION Spec
CONSTANTS
  Libs = {1, 2, 3}
  Threads = {t1}
  NoLib = NoLib
  Loops = FALSE
  MaxHandles = 2
  MaxDtors = 2
INVARIANTS
  LibrariesInUseStay
  RefCountExact
  UnusedAreUnloaded
