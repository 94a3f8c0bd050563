CONSTANTS
    bytes = bytes
    functionAdded = functionAdded
    functionChanged = functionChanged
    problem = problem
    lifted = lifted
    resync = resync
    Bytes = Bytes
    Functions = Functions
    Problems = Problems
    Nowhere = Nowhere
    Kind = {bytes, functionAdded, functionChanged, problem, lifted, resync}
    Group = {Bytes, Functions, Problems}
    Mark = {lifted, resync}
    HomeOf <- Homes
    Problem <- Collapsed
    Resync <- ResyncHere
    Space = {0}
    MaxAddress = 4
    Record <- Splitting
    MaxDetailed = 3
    MaxRuns = 1
    CensusInterval = 3
    MaxRevision = 6
SPECIFICATION IndexSpec
INVARIANT CensusBounds
