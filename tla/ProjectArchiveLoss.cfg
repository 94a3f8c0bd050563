SPECIFICATION Spec
CONSTANTS
  None = None
  Torn = Torn
  Partial = Partial
  Broken = Broken
  Faults = {"segments"}
  MaxChanges = 3
  MaxSessions = 4
INVARIANTS Survives
CHECK_DEADLOCK FALSE
