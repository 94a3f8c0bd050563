CONSTANTS
    bytes = bytes
    functionAdded = functionAdded
    functionChanged = functionChanged
    problem = problem
    lifted = lifted
    resync = resync
    Bytes = Bytes
    Functions = Functions
    Problems = Problems
    Nowhere = Nowhere
    Kind = {bytes, functionAdded, functionChanged, problem, lifted, resync}
    Group = {Bytes, Functions, Problems}
    Mark = {lifted, resync}
    HomeOf <- Homes
    Problem <- Collapsed
    Resync <- ResyncHere
    Space = {0, 1}
    MaxAddress = 1
    Record <- Mixed
    MaxDetailed = 3
    MaxRuns = 1
    CensusInterval = 2
    MaxRevision = 3
SPECIFICATION IndexSpec
INVARIANTS IndexTypeOK Conservative Precise
