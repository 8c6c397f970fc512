\* Two ports, three attempts, up to four failures or crashes anywhere.
CONSTANTS
  Ports = {p1, p2}
  Attempts = 3
  Faults = {"service", "disk", "dirsync", "read", "marker", "refused", "stale", "install", "unlink"}
  MaxFaults = 4
  CrashAt = {"prepare", "param", "create", "icon", "decide", "verify", "mark", "uninstall", "install", "reverify", "fallback", "reinstall", "check", "clear"}
SPECIFICATION FairSpec
INVARIANTS MetadataWhole RemovedIsMarked SuccessIsRegistered
PROPERTY RetryRegisters
