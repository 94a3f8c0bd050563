CONSTANTS
  Entry = {"f", "g"}
  Mapping = {"m"}
  Place = {1, 2}
  Asserted = {"g"}
  Before <- OneBefore
  Placed <- OnePlaced
  MaxRecords = 3
  MaxOps = 5
SPECIFICATION StagingSpec
INVARIANTS StagingExact NetReported SemanticKept
CHECK_DEADLOCK FALSE
