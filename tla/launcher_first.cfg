\* Two ports, and a start that dies once, between the staged files and the marker.
CONSTANTS
  Ports = {p1, p2}
  Attempts = 3
  Faults = {}
  MaxFaults = 1
  CrashAt = {"verify", "mark"}
SPECIFICATION Spec
INVARIANT UpToDateIsRegistered
