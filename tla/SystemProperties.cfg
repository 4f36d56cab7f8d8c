SPECIFICATION FairSpec
CONSTANTS
  Props = {p, q}
  Early = {p}
  Readers = {r}
  MaxUpdates = 2
INVARIANTS ConsistentTrio ReadsAreCurrent
PROPERTIES ClientsCatchUp
CHECK_DEADLOCK FALSE
