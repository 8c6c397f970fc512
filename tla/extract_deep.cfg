\* An archive whose folders are nested too deep.
CONSTANTS
  Files = {f1}
  Large = {}
  Slots = 2
  Chunks = 1
  Kinds = {"extract"}
  Requests = 1
  Faults = {"deep"}
SPECIFICATION Spec
INVARIANT FailedIsUnstaged
CHECK_DEADLOCK FALSE
