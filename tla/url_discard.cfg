\* The payload dies between the removal of the private file and of its journal.
CONSTANTS
  Tasks = {t1}
  Inodes = {i1, i2}
  NoFile = NoFile
  N = 2
  Platform = "HOST"
  HasLength = TRUE
  RangeModes = {206}
  Faults = {}
  CrashAt = {"rmjournal"}
  Interval = 1
  MaxDone = 4
SPECIFICATION Spec
INVARIANT RestartResumes
CHECK_DEADLOCK FALSE
