SPECIFICATION MCSpec
CHECK_DEADLOCK FALSE
SYMMETRY Interchangeable
CONSTANTS
    None = None
    d = d
    e = e
    here = here
    there = there
    owned = owned
    c1 = c1
    c2 = c2
    w1 = w1
    w2 = w2
    w3 = w3
    r1 = r1
    m1 = m1
    m2 = m2
    s1 = s1
    s2 = s2
    i1 = i1
    Loaders = {m1, m2}
    Snapshots = {s1, s2}
    Plans <- MCPlans
    MaxLoads = 1
    BatchRecords = 1
    Intended = {d, e}
    Locations = {here, there}
    Owned = owned
    Targets = {1, 2, 3}
    Printings = {2, 3, 4}
    Copies = {c1, c2}
    MaxQuantity = 4
    MaxIssued = 9
    Workers = {w1, w2, w3}
    Requests <- MCRequests
    Accounts <- MCAccounts
    PageSize = 1
    Readers = {r1}
INVARIANTS WritersYield PagesOfOneState LoadedOnce
PROPERTIES KeepsPromise
CONSTRAINT OneQuestion
