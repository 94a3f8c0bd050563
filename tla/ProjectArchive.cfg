SPECIFICATION Spec
CONSTANTS
  None = None
  Torn = Torn
  Partial = Partial
  Broken = Broken
  Faults = {"extract", "rebuild", "persist", "segments", "pack", "remove", "remove_none",
            "crash"}
  MaxChanges = 3
  MaxSessions = 4
INVARIANTS CopySurvives IndexTrue SessionRestored ArtefactCurrent
CHECK_DEADLOCK FALSE
