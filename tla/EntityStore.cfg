SPECIFICATION Spec
CONSTANTS
  Key = {k1, k2}
  Value = {v1}
  Reader = {r1}
  Project = Project
  Absent = Absent
  Clean = Clean
  Empty = Empty
  Unset = Unset
  NoClient = NoClient
  Closing = Closing
  NoAnswer = NoAnswer
  Span <- MCSpan
  Capacity = 1
  MaxBatch = 2
  MaxOps = 2
  MaxFailures = 1
  MaxEpochs = 1
INVARIANTS FlushDurable NothingStranded
PROPERTIES ImplementsMap WriteSettles FlushReturns
CHECK_DEADLOCK FALSE
