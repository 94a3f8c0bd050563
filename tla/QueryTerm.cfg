CONSTANTS
    bytes = bytes
    problem = problem
    mapping = mapping
    resync = resync
    Bytes = Bytes
    Problems = Problems
    a1 = a1
    Nowhere = Nowhere
    Never = Never
    Kind = {bytes, problem, mapping, resync}
    Group = {Bytes, Problems}
    Mark = {mapping, resync}
    HomeOf <- Homes
    Problem <- Collapsed
    Resync <- ResyncHere
    Space = {0}
    MaxAddress = 1
    Record <- Changes
    MaxDetailed = 2
    MaxRuns = 1
    CensusInterval = 2
    MaxRevision = 3
    Agent = {a1}
    Clauses <- OneDependency
    ReadSets <- Readings
SPECIFICATION FairSpec
INVARIANTS Conservative Precise HitFresh
PROPERTY Returns
