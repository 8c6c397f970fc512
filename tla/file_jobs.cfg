\* Two requests for jobs over a small and a large file, or for extractions.
CONSTANTS
  Files = {f1, f2}
  Large = {f2}
  Slots = 2
  Chunks = 3
  Kinds = {"copy", "move", "delete", "chmod", "extract"}
  Requests = 2
  Faults = {"disk", "nolink", "unlink", "deep", "foreign", "taken"}
SPECIFICATION FairSpec
INVARIANTS NothingLost DoneMeansAll EndIsClean CopiesAreWhole PipelineIsSound
PROPERTIES CopiesAskLeave ImplementsAtomicPublish JobSettles
CHECK_DEADLOCK FALSE
