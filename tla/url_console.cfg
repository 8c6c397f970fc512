\* The console build with a server that ignores Range: safety and liveness.
CONSTANTS
  Tasks = {t1}
  Inodes = {i1, i2}
  NoFile = NoFile
  N = 2
  Platform = "SCE"
  HasLength = TRUE
  RangeModes = {200}
  Faults = {"net", "journal", "write", "sync", "nolink", "unlink", "dirsync", "power", "conversion"}
  CrashAt = {"idle", "start", "open", "journal", "request", "rejournal", "total", "body", "checkpoint", "ended", "sync", "publish", "unlink", "rename", "dirsync", "finish", "rmpart", "rmjournal", "settle"}
  Interval = 1
  MaxDone = 4
SPECIFICATION FairSpec
INVARIANT ProgressIsKept
PROPERTY DownloadSettles
