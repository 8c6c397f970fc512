\* The regression build, a healthy server that answers ranges: pause and resume.
CONSTANTS
  Tasks = {t1}
  Inodes = {i1, i2}
  NoFile = NoFile
  N = 2
  Platform = "HOST"
  HasLength = TRUE
  RangeModes = {206}
  Faults = {}
  CrashAt = {}
  Interval = 2
  MaxDone = 6
SPECIFICATION Spec
INVARIANT HealthyNeverFails
CHECK_DEADLOCK FALSE
