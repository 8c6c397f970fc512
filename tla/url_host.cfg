\* One download on the regression build: every fault, crashes and power loss anywhere.
CONSTANTS
  Tasks = {t1}
  Inodes = {i1, i2, i3}
  NoFile = NoFile
  N = 3
  Platform = "HOST"
  HasLength = TRUE
  RangeModes = {200, 206}
  Faults = {"foreign", "net", "journal", "write", "sync", "unlink", "dirsync", "power", "conversion"}
  CrashAt = {"idle", "start", "open", "journal", "request", "rejournal", "total", "body", "checkpoint", "ended", "sync", "publish", "unlink", "rename", "dirsync", "finish", "rmpart", "rmjournal", "settle"}
  Interval = 2
  MaxDone = 6
SYMMETRY FileSymmetry
SPECIFICATION Spec
INVARIANTS PublishedIsWhole ProgressIsTrue
PROPERTY ImplementsAtomicPublish
