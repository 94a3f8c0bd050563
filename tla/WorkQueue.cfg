CONSTANTS
    Analyser <- OneAnalyser
    OrderOf <- Identity1
    PhaseOf <- Decode1
    Space <- OneSpace
    MaxAddress = 3
    Priority = {0}
    Trigger = {t1, t2}
    MaxAttempts = 2
    AttemptLimit = 3
    CancelPhases = {1, 2}
    MaxWorkItems = 2
    MaxCauses = 1
    SliceBytes = 2
    BatchItems = 2
    Regions <- RegionsOne
    MaxRequests = 3
    None = None
SYMMETRY TriggerSymmetry
SPECIFICATION Spec
INVARIANTS IndexAgrees NoWorkLost
