\* Up to three threads pack four blocks; two calls.  A call that returned well
\* is the end of the behavior.
CONSTANTS
  Blocks = 4
  Counts = {1, 2, 3}
  Hard = {1}
  Every = 2
  Calls = 2
  Faults = {"read", "write", "compress", "thread", "crash"}
SPECIFICATION FairSpec
INVARIANTS RingIsSound CheckpointBacked
PROPERTIES ImplementsSerialPack CallReturns
CHECK_DEADLOCK FALSE
