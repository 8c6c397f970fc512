\* Three extractions in a row, of archives with links or too many folders.
CONSTANTS
  Files = {f1, f2}
  Large = {}
  Slots = 2
  Chunks = 1
  Kinds = {"extract"}
  Requests = 3
  Faults = {"disk", "unlink", "link", "deep", "taken"}
SPECIFICATION FairSpec
INVARIANTS DoneMeansAll EndIsClean
PROPERTIES ImplementsAtomicPublish JobSettles
CHECK_DEADLOCK FALSE
