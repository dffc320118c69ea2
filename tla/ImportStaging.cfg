\* One session of captures, or of one parsed list imported again, reviewed and
\* discarded between readings and, the list, confirmed.
CONSTANTS
 None = None
 a = a
 b = b
 p1 = p1
 p2 = p2
 q1 = q1
 foil = foil
 l1 = l1
 l2 = l2
 l3 = l3
 k1 = k1
 k2 = k2
 CardOf <- MCCardOf
 Finishes = {foil}
 Cards = {a, b}
 Printings = {p1, p2, q1}
 MaxQuantity = 3
 Candidates = {d1}
 MaxCandidates = 1
 Sessions = {s1}
 Sources = {src}
 InputIds = {l1, l2, l3}
 Keys = {k1, k2}
 Published <- MCPublished
 MaxAttempts = 3
 Tags = {t1}
 Deckable = {t1}
 MaxAssociation = 9
 Ops = {o1, o2}
 Workers = {w1}
 MaxChanges = 4
 MaxConfirmEntries = 1
 LineBatches <- CaptureLines
 Readings <- CaptureReadings
 SourceBatches <- SourceLists
 Reviews <- CaptureReviews
SPECIFICATION Spec
CONSTRAINT SecondRepeats
SYMMETRY InterchangeableInputs
INVARIANTS StagedAsAccepted NeverBeyondDeclared
PROPERTIES AdmissionPermanent SessionRevisionNamesView
CHECK_DEADLOCK FALSE
