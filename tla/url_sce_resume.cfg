\* The console build, a healthy server: pause and resume.
CONSTANTS
  Tasks = {t1}
  Inodes = {i1, i2}
  NoFile = NoFile
  N = 3
  Platform = "SCE"
  HasLength = TRUE
  RangeModes = {206}
  Faults = {}
  CrashAt = {}
  Interval = 2
  MaxDone = 6
SPECIFICATION Spec
INVARIANT WholeIsAccepted
CHECK_DEADLOCK FALSE
