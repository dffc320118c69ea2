SPECIFICATION ServingSpec
CONSTANTS
    None = None
    a = a
    b = b
    n1 = n1
    n2 = n2
    f1 = f1
    f2 = f2
    t1 = t1
    t2 = t2
    r1 = r1
    Readers = {r1}
    PageSize = 1
    Tasks = {t1, t2}
    Cards = {a, b}
    Names = {n1, n2}
    Printings = {1, 2, 3}
    Facts = {f1, f2}
    Looks = {1, 2}
    Versions = {"v1", "v2", "v3", "v4", "v5", "v6"}
    Snapshot <- MCSnapshot
    MaxRecords = 2
    MaxBytes = 2
    MaxRevisions = 3
    Calls = {1}
    Identifiers = {"n", "read", "sources", "entries"}
CONSTRAINT OneQuestion
INVARIANTS
    AnswersNameTheirRevision
    ReportedAsItWas
PROPERTIES
    PublishesHistory
