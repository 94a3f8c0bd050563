CONSTANTS
  Caller = {c1}
  c1 = c1
  Querier = {q1}
  q1 = q1
  Owner = Owner
  None = None
  Capacity = 1
SPECIFICATION FairSpec
INVARIANTS Truthful NoRequestForgotten
PROPERTIES CallsReturn CloseEnds
CHECK_DEADLOCK FALSE
