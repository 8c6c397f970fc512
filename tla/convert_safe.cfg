\* Conversions with edits, faults, cancel and crashes anywhere.
CONSTANTS
  Files = 2
  Early = 1
  Blocks = 2
  Versions = 2
  Faults = {"space", "journal", "note", "disk", "nolink", "unlink", "foreign", "lost"}
SPECIFICATION Spec
INVARIANTS PublishedIsSnapshot JournalCovered StagesAnnounced NoRetryLoop
PROPERTY ImplementsAtomicPublish
