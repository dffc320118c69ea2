\* Confirmation: two lines of one import, two operations, retries and replays.
CONSTANTS
 None = None
 a = a
 b = b
 p1 = p1
 p2 = p2
 q1 = q1
 foil = foil
 l1 = l1
 l2 = l2
 l3 = l3
 k1 = k1
 k2 = k2
 CardOf <- MCCardOf
 Finishes = {foil}
 Cards = {a}
 Printings = {p1, p2}
 MaxQuantity = 2
 Candidates = {}
 MaxCandidates = 0
 Sessions = {s1}
 Sources = {src}
 InputIds = {l1, l2}
 Keys = {}
 Published <- NoPublished
 MaxAttempts = 0
 Tags = {t1}
 Deckable = {t1}
 MaxAssociation = 3
 Ops = {o1, o2}
 Workers = {w1, w2}
 MaxChanges = 4
 MaxConfirmEntries = 2
 LineBatches <- TwoLines
 Readings <- NoBatches
 SourceBatches <- NoBatches
 Reviews <- ConfirmReviews
 PageSize = 1
 EntriesPerRead = 1
SPECIFICATION MCSpec
CONSTRAINT OneQuestion
SYMMETRY Interchangeable
INVARIANTS TypeOK OwnedAsReviewed ConfirmedOnce IntendedOnce ReportsWhatItDid
 ListedOneState
PROPERTIES DecidedForever RevisionNamesState
CHECK_DEADLOCK FALSE
