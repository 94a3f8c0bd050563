CONSTANTS
  Name = {decoder, sweeper}
  Phase = {"Retract", "Decode", "Partition", "Derive"}
  Cancelled = {"Decode", "Partition"}
  Place = {p1, p2}
  Hints = {p1, p2}
  OnMapping = {decoder, sweeper}
  Configs <- Changing
  MaxOpen = 2
  MaxChanges = 1
SYMMETRY Alike
SPECIFICATION Spec
INVARIANTS CoveredTrue MarkersKept
PROPERTY NotRepeated
CHECK_DEADLOCK FALSE
