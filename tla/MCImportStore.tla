---------------------------- MODULE MCImportStore ----------------------------
(* Small instances of ImportStore: one card with two printings (p1, p2) and *)
(* one with a single printing (q1).                                         *)
EXTENDS ImportStore

CONSTANTS a, b, p1, p2, q1, foil, l1, l2, l3, k1, k2

MCCardOf == [p \in Printings |-> IF p = q1 THEN b ELSE a]

Content(printing, quantity) ==
    [card |-> MCCardOf[printing], printing |-> printing, finish |-> foil,
     quantity |-> quantity]
CardLevel(card, quantity) ==
    [card |-> card, printing |-> None, finish |-> None, quantity |-> quantity]

Line(id, content) == [id |-> id, key |-> None, content |-> content, candidates |-> {}]

\* Confirmation: two equal lines, which compete for one content's
\* occurrences, reviewed to another printing, or one of them without a printing.
TwoLines == {<<Line(l1, Content(p1, 1)), Line(l2, Content(p1, 1))>>}
OneLineEach == {<<Line(l1, Content(p1, 1))>>, <<Line(l2, CardLevel(a, 1))>>}
ConfirmReviews == {Content(p2, 2)}

Interchangeable == Permutations(Workers) \cup Permutations(Ops) \cup Permutations(Sessions)

\* Captures: two printings of one card, another card and an unread frame.
CaptureReadings ==
    {[content |-> Content(p1, 1), candidates |-> {}],
     [content |-> Content(p2, 1), candidates |-> {}],
     [content |-> Content(q1, 1), candidates |-> {}],
     [content |-> [CardLevel(None, 1) EXCEPT !.card = None], candidates |-> {}]}

CaptureLines == {<<Line(l1, Content(p1, 1))>>}
CaptureReviews == {Content(q1, 1)}
InterchangeableInputs == Permutations({l2, l3}) \cup Permutations(Ops)

\* Source lines: a list, its rows reordered and split, and a longer list.
MCPublished ==
    [k \in {k1, k2} |-> IF k = k1 THEN [printing |-> p1, finish |-> foil]
                        ELSE [printing |-> None, finish |-> None]]
Row(key, quantity) == [key |-> key, quantity |-> quantity]
SourceLists ==
    {<<Row(k1, 2), Row(k2, 1)>>, <<Row(k1, 1), Row(k2, 1), Row(k1, 2)>>, <<Row(k1, 1)>>}

\* A second confirmation repeats the first, under its operation or its request.
SecondRepeats ==
    \A w \in Workers, o \in Ops : request[w] # None /\ receipt[o] # None =>
        request[w].op = o \/ request[w].input = receipt[o].input

NoBatches == {}
NoPublished == [k \in {} |-> k]
=============================================================================
