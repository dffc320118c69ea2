----------------------------- MODULE ImportReview -----------------------------
(***************************************************************************)
(* Review (src/usercards/internal/imports/review.ts): explicit             *)
(* corrections, late candidates and discards of pending entries.  Every    *)
(* handler locks the entry's session first and checks the revision the     *)
(* caller quotes against the row it then reads.                            *)
(***************************************************************************)
EXTENDS ImportState

CONSTANT Reviews    \* the contents a reviewer may give an entry

ASSUME ReviewAssumption ==
    /\ Reviews \subseteq Contents
    /\ \A c \in Reviews : IF c.printing = None
                          THEN c.card # None /\ c.finish = None
                          ELSE c.card = CardOf[c.printing]

\* Slip: an edit checks the revision and not the state.
ReviewableSlip(e, expected) == entry[e].revision = expected

\* The row an edit of a pending entry may change: still pending, at the
\* revision its caller read.
Reviewable(e, expected) ==
    entry[e].state = "pending" /\ entry[e].revision = expected

\* Slip: a review changes a session without a new account revision.
PublishReviewSlip(s) ==
    /\ session' = BumpSession(s)
    /\ UNCHANGED <<revision, staged, confirmationVars>>

\* An edit publishes a session revision, which a whole-import discard quotes,
\* and an account revision.
PublishReview(s) ==
    /\ session' = BumpSession(s)
    /\ AdvanceRevision
    /\ UNCHANGED <<staged, confirmationVars>>

Corrected(row, content) == [row EXCEPT !.content = content, !.revision = @ + 1]

CorrectEntry(e, expected, content) ==
    /\ entry[e] # None
    /\ Unlocked(entry[e].session)
    /\ Reviewable(e, expected)
    /\ entry' = [entry EXCEPT ![e] = Corrected(@, content)]
    /\ PublishReview(entry[e].session)

\* Candidates already recorded, and candidates for an entry that is no
\* longer pending, change nothing; more than the limit is refused.
AttachCandidates(e, candidates) ==
    /\ entry[e] # None
    /\ Unlocked(entry[e].session)
    /\ entry[e].state = "pending"
    /\ ~(candidates \subseteq entry[e].candidates)
    /\ Cardinality(entry[e].candidates \cup candidates) <= MaxCandidates
    /\ entry' = [entry EXCEPT ![e].candidates = @ \cup candidates]
    /\ PublishReview(entry[e].session)

DiscardEntry(e, expected) ==
    /\ entry[e] # None
    /\ Unlocked(entry[e].session)
    /\ Reviewable(e, expected)
    /\ entry' = [entry EXCEPT ![e] = Closed(@, "discarded")]
    /\ PublishReview(entry[e].session)

\* Discards what is pending in a session its caller read at this revision; a
\* session with nothing pending answers without a change.
DiscardSession(s, expected) ==
    /\ session[s] # None
    /\ Unlocked(s)
    /\ session[s].revision = expected
    /\ PendingOf(s) # {}
    /\ entry' = [e \in EntryIds |->
           IF e \in PendingOf(s) THEN Closed(entry[e], "discarded") ELSE entry[e]]
    /\ PublishReview(s)
=============================================================================
