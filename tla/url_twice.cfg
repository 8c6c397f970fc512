\* The same name is asked for twice before the first journal is written.
CONSTANTS
  Tasks = {t1, t2}
  Inodes = {i1, i2, i3}
  NoFile = NoFile
  N = 2
  Platform = "HOST"
  HasLength = TRUE
  RangeModes = {206}
  Faults = {}
  CrashAt = {}
  Interval = 1
  MaxDone = 6
SPECIFICATION Spec
INVARIANT PublishedIsWhole
CHECK_DEADLOCK FALSE
