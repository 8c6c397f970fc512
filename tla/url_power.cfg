\* The power fails while a download is paused.
CONSTANTS
  Tasks = {t1}
  Inodes = {i1, i2}
  NoFile = NoFile
  N = 2
  Platform = "HOST"
  HasLength = TRUE
  RangeModes = {206}
  Faults = {"power"}
  CrashAt = {"idle"}
  Interval = 1
  MaxDone = 4
SPECIFICATION Spec
INVARIANT RestartResumes
CHECK_DEADLOCK FALSE
