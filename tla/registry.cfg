\* All kinds of jobs together: two jobs, two packages, two worker threads, one slot.
CONSTANTS
  Ops = {"fs", "url", "pkg", "upload", "download"}
  MaxTasks = 2
  Threads = {w1, w2}
  Paths = {p1, p2}
  WorkerLimit = 1
  QueueLimit = 2
  MaxAgain = 1
SPECIFICATION FairSpec
INVARIANTS SlotAccounting OneWorkerRuns ActiveHasWorker NoLostWakeup FsExclusive
PROPERTIES PkgInOrder QueueDrains ShutdownCompletes
CHECK_DEADLOCK FALSE
