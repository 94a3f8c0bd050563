CONSTANTS
  Function = {f, g}
  f = f
  g = g
  Reader = {r1}
  r1 = r1
  Absent = Absent
  Miss = Miss
  MaxRevision = 2
SPECIFICATION Spec
SYMMETRY Symmetry
INVARIANTS ReadTrue TurnFresh
CHECK_DEADLOCK TRUE
