CONSTANTS
    k1 = k1
    k2 = k2
    a = a
    b = b
    s1 = s1
    s2 = s2
    lo = lo
    hi = hi
    edit = edit
    pass = pass
    Kind = {k1, k2}
    KindOf <- KindsHere
    Cell = {lo, hi}
    Where <- WhereHere
    Resync = Resync
    None = None
    Record = {a, b}
    Source = {edit, pass}
    Subscriber = {s1, s2}
    KindsOf <- AllKinds
    RegionOf <- Regions
    SourcesOf <- Sources
    Capacity <- Tight
    MaxDetailed = 1
    MaxRevision = 3
SPECIFICATION FairSpec
INVARIANTS NoSilentGap InOrder
PROPERTY Converges
