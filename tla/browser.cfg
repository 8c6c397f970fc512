\* A tab uploads two files of one chunk or downloads, one uploads without a task,
\* and another program makes files with the names.
CONSTANTS
  j1 = j1
  j2 = j2
  Jobs = {j1, j2}
  Offer <- Offers
  Files = 2
  Size = 1
  Faults = {"disk", "short", "closed", "foreign", "nolink", "unlink"}
SPECIFICATION FairSpec
INVARIANTS PublishedIsWhole DoneMeansPublished ReferredIsKept
PROPERTIES EndedStaysEnded NoClobber TransferSettles
CHECK_DEADLOCK FALSE
