\* A crash after the stage grew past its last checkpoint.
CONSTANTS
  Files = 2
  Early = 0
  Blocks = 1
  Versions = 1
  Faults = {}
SPECIFICATION Spec
INVARIANT HealthyNeverFails
