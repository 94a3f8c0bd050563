SPECIFICATION Spec
CONSTANTS
  None = None
  Torn = Torn
  Partial = Partial
  Broken = Broken
  Faults = {"persist"}
  MaxChanges = 3
  MaxSessions = 4
INVARIANTS ArtefactTrue
CHECK_DEADLOCK FALSE
