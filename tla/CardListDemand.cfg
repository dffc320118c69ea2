SPECIFICATION MCSpec
CHECK_DEADLOCK FALSE
SYMMETRY MCSymmetry
CONSTANTS
    None = None
    Nothing = Nothing
    c1 = c1
    c2 = c2
    i1 = i1
    i2 = i2
    Contexts <- MCContexts
    Results <- MCResults
    Versions <- MCVersions
    PageLengths = {2}
    WindowLimit = 3
    Extents = {3, 4}
    Restorable <- MCRestorable
    Late = 1
    Keys = {1}
    Identities = {i1, i2}
    Batch = 2
    Capacity = 1
INVARIANTS
    DemandIsAcquired
