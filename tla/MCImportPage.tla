----------------------------- MODULE MCImportPage -----------------------------
(* Imports on both sides of the request, each on its own: operations that  *)
(* race in the store, and the Import page's review, whose questions are    *)
(* asked one at a time.                                                    *)
EXTENDS MCImportStore, ImportReviewEditor

CONSTANTS i1, i2, e1, e2, e3, v1

VARIABLE part   \* what is asked of an instance

MCImportOf == [e \in Entries |-> IF e = e3 THEN i2 ELSE i1]

MCStaged == {{e1}, {e1, e2}, {e1, e2, e3}}

\* One entry edited and saved while requests are away; two entries confirmed
\* in two batches, one of them edited and the other changed elsewhere;
\* imports presented as they are staged and discarded; and three entries of two
\* imports edited, one more than a window of drafts.
ReviewsAnEntry == Reviewing({e1}) \/ Deciding \/ DiscardImport
ConfirmsEntries == Confirming \/ Elsewhere(e2) \/ \E v \in Values \ {First} : Edit(e1, v)
PresentsImports == Presenting \/ Deciding
EditsEntries ==
    \/ \E i \in Imports : ChooseImport(i)
    \/ \E e \in Entries, v \in Values \ {First} : Edit(e, v)

\* What a state may still hold, each against the others.
Bounded ==
    /\ part \in {"confirm", "edit"} <=> row[e2].state # "absent"
    /\ part = "edit" =>
        /\ row[e3].state # "absent"
        /\ Len(view.reads) <= 1
    /\ part = "confirm" =>
        /\ row[e3].state = "absent"
        /\ Len(view.reads) <= 1
        /\ \A e \in Entries : row[e].revision < MaxRevision
    /\ part = "review" =>
        /\ Len(view.reads) <= 1
        /\ Cardinality(requests) + visit.number + row[e1].revision <= MaxRequests + MaxRevision
    /\ part = "present" =>
        /\ ~behind
        /\ Cardinality(requests) < MaxRequests
        /\ Len(view.reads) + visit.number + Cardinality(requests) <= MaxReads + MaxVisits

PageInit ==
    /\ Init /\ ReviewInit
    /\ part \in {"store", "review", "confirm", "present", "edit"} /\ Bounded

PageNext ==
    /\ UNCHANGED part
    /\ \/ part = "store" /\ Next /\ UNCHANGED reviewVars
       \/ /\ part # "store" /\ UNCHANGED vars
          /\ \/ Visiting
             \/ part = "review" /\ ReviewsAnEntry
             \/ part = "confirm" /\ ConfirmsEntries
             \/ part = "present" /\ PresentsImports
             \/ part = "edit" /\ EditsEntries
          /\ Len(view'.reads) <= MaxReads
          /\ Bounded'

PageSpec == PageInit /\ [][PageNext]_<<vars, reviewVars, part>>
=============================================================================
