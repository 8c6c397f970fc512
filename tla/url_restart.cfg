\* The payload dies while a server that ignores Range answers a resumed download.
CONSTANTS
  Tasks = {t1}
  Inodes = {i1, i2}
  NoFile = NoFile
  N = 2
  Platform = "HOST"
  HasLength = TRUE
  RangeModes = {200}
  Faults = {}
  CrashAt = {"idle", "start", "open", "journal", "request", "rejournal", "total", "body", "checkpoint", "ended", "sync", "publish", "unlink", "rename", "dirsync", "finish", "rmpart", "settle"}
  Interval = 1
  MaxDone = 4
SPECIFICATION Spec
INVARIANT RestartResumes
CHECK_DEADLOCK FALSE
