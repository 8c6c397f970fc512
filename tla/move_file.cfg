\* One file is moved while another program writes its name.
CONSTANTS
  Files = {f1}
  Large = {}
  Slots = 2
  Chunks = 1
  Kinds = {"move"}
  Requests = 1
  Faults = {"foreign"}
SPECIFICATION Spec
PROPERTY NoStrangerReplaced
CHECK_DEADLOCK FALSE
