CONSTANTS
  Caller = {c1}
  c1 = c1
  Querier = {q1}
  q1 = q1
  Owner = Owner
  None = None
  Capacity = 1
SPECIFICATION FairSpec
PROPERTY ReadersReturn
CHECK_DEADLOCK FALSE
