SPECIFICATION Spec
CONSTANTS
  t1 = t1
  s1 = s1
  s2 = s2
  Threads = {t1}
  Servers = {s1, s2}
  MAXNS = 2
  MaxSamples = {1, 2}
  MaxRevision = 6
INVARIANT SamplesOfTheirServer
CHECK_DEADLOCK FALSE
