\* Confirmation: two imports, each of one line, one of them without a printing,
\* racing under two operations, either of which may name either import.
CONSTANTS
 None = None
 a = a
 b = b
 p1 = p1
 p2 = p2
 q1 = q1
 foil = foil
 l1 = l1
 l2 = l2
 l3 = l3
 k1 = k1
 k2 = k2
 CardOf <- MCCardOf
 Finishes = {foil}
 Cards = {a}
 Printings = {p1, p2}
 MaxQuantity = 2
 Candidates = {}
 MaxCandidates = 0
 Sessions = {s1, s2}
 Sources = {src}
 InputIds = {l1, l2}
 Keys = {}
 Published <- NoPublished
 MaxAttempts = 0
 Tags = {t1}
 Deckable = {t1}
 MaxAssociation = 3
 Ops = {o1, o2}
 Workers = {w1, w2}
 MaxChanges = 4
 MaxConfirmEntries = 2
 LineBatches <- OneLineEach
 Readings <- NoBatches
 SourceBatches <- NoBatches
 Reviews <- NoBatches
\* The page: two imports, their reviews and confirmations.
 i1 = i1
 i2 = i2
 e1 = e1
 e2 = e2
 e3 = e3
 Null = Null
 v1 = v1
 Imports = {i1, i2}
 Manual = i2
 Entries = {e1, e2, e3}
 ImportOf <- MCImportOf
 Staged <- MCStaged
 Values = {v1, v2}
 First = v1
 Attempts = {c1, c2}
 BatchSize = 1
 DraftWindow = 2
 MaxRevision = 3
 MaxRequests = 2
 MaxReads = 2
 MaxVisits = 2
SPECIFICATION PageSpec
CONSTRAINT SecondRepeats
SYMMETRY Interchangeable
INVARIANTS OneOutstanding LeavesWhatIsDecided
PROPERTIES KeepsPromise DraftsSurvive
CHECK_DEADLOCK FALSE
