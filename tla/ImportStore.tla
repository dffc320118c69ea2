----------------------------- MODULE ImportStore -----------------------------
(***************************************************************************)
(* The private import store: staging, review and confirmation of one       *)
(* account's imports, interleaved as its transactions commit.              *)
(***************************************************************************)
EXTENDS ImportStaging, ImportReview, ImportConfirmation

Init == InitState

Stage ==
    \E s \in Sessions :
        \/ \E source \in Sources \cup {CaptureSource(s)}, batch \in LineBatches :
              StageEntries(s, source, batch)
        \/ \E id \in InputIds, reading \in Readings : StageCapture(s, id, reading)
        \/ \E source \in Sources, rows \in SourceBatches :
              StageSourceLines(s, source, rows)

Review ==
    \/ \E e \in EntryIds :
          \/ \E expected \in 1 .. MaxChanges, content \in Reviews :
                CorrectEntry(e, expected, content)
          \/ \E candidates \in (SUBSET Candidates) \ {{}} : AttachCandidates(e, candidates)
          \/ \E expected \in 1 .. MaxChanges : DiscardEntry(e, expected)
    \/ \E s \in Sessions, expected \in 1 .. MaxChanges + 1 : DiscardSession(s, expected)

Confirm ==
    \E w \in Workers :
        \/ \E o \in Ops, s \in Sessions, d \in Destinations : \E E \in SUBSET EntriesOf(s) :
              ReadReviewed(w, o, s, d, E)
        \/ LockConfirmation(w)
        \/ AnswerUnchanged(w)
        \/ RollBack(w)
        \/ CommitIdentical(w)
        \/ CommitTag(w)
        \/ CommitOwnership(w)

Next == Stage \/ Review \/ Confirm

Spec == Init /\ [][Next]_vars

--------
(* The store keeps the promise of Confirmations.                           *)

Decision(e) == IF entry[e] = None THEN "absent" ELSE entry[e].state
Outcome(o) == IF receipt[o] = None THEN None ELSE receipt[o].input

Promise == INSTANCE Confirmations WITH
    Entries <- EntryIds, Operations <- Ops, Requested <- Inputs,
    NamedBy <- Named, NoOutcome <- None,
    decision <- [e \in EntryIds |-> Decision(e)],
    outcome <- [o \in Ops |-> Outcome(o)]

\* Every entry is decided once and every operation confirms one request.
KeepsPromise == Promise!DecisionSpec

--------
(* Types.                                                                  *)

\* Every record has the shape its table gives it.
TypeOK ==
    /\ session \in [Sessions -> SessionRows \cup {None}]
    /\ entry \in [EntryIds -> EntryRows \cup {None}]
    /\ staged \in [EntryIds -> StageRows \cup {None}]
    /\ revision \in 0 .. MaxChanges
    /\ lock \in [Sessions -> Workers \cup {None}]
    /\ request \in [Workers -> Requests \cup {None}]
    /\ receipt \in [Ops -> Outcomes \cup {None}]
    /\ acquisition \subseteq AcquisitionRows
    /\ binding \in [EntryIds -> AcquisitionIds \cup {None}]
    /\ association \in [Tags -> [Targets -> 0 .. MaxAssociation]]

\* What a request read of the entries it names, and what its lock assured.
RequestAgrees(r) ==
    /\ session[r.input.session] # None
    /\ \A e \in Named(r.input) :
          entry[e] # None /\ r.state[e] # None /\ r.reviewed[e] # None
    /\ r.phase = "read" => r.identical = None
    /\ r.phase = "locked" =>
          IF r.identical = None
          THEN \A e \in Named(r.input) :
                  ~Unresolved(r.input.destination, r.reviewed[e])
          ELSE receipt[r.identical] # None

\* The shape the tables give one another, which TypeOK alone does not say:
\* entries and requests name sessions, requests the entries they read, and
\* receipts published revisions.
RecordsAgree ==
    /\ \A e \in EntryIds : entry[e] # None =>
          staged[e] # None /\ session[entry[e].session] # None
    /\ \A w \in Workers : request[w] # None => RequestAgrees(request[w])
    /\ \A o \in Ops : receipt[o] # None => receipt[o].position <= revision

--------
(* Confirmation.                                                           *)

ConfirmedInputs == {receipt[o].input : o \in {o \in Ops : receipt[o] # None}}
ConfirmingInputs(e) == {i \in ConfirmedInputs : e \in Named(i)}
InState(e, state) == entry[e] # None /\ entry[e].state = state

\* However confirmations are retried, repeated under another operation,
\* raced against another session or interrupted, an entry is confirmed by
\* exactly one request: the entries with a recorded outcome are the confirmed
\* ones and no two different recorded requests share an entry.
ConfirmedByOneRequest ==
    \A e \in EntryIds :
        /\ InState(e, "confirmed") <=> ConfirmingInputs(e) # {}
        /\ Cardinality(ConfirmingInputs(e)) <= 1

\* What a confirmation applied is what its caller reviewed: the confirmed
\* entry was at the quoted revision, and the acquisition it is bound to has
\* the content it then had, though the content was read before the lock.
AppliesReviewedRevision ==
    \A e \in EntryIds :
        /\ \A i \in ConfirmingInputs(e) : entry[e].revision = i.quoted[e] + 1
        /\ binding[e] # None => binding[e].content = Reviewed(entry[e].content)

\* Physical ownership grows once per confirmed entry: the entries confirmed
\* into ownership are those bound to an acquisition, no two share one, and
\* each acquisition created the copies of the entry bound to it.  A session's
\* acquisitions of one content are numbered without a gap, which is what lets
\* the next one be numbered by counting.
OwnedOnce ==
    /\ \A e \in EntryIds :
         binding[e] # None
            <=> \E i \in ConfirmingInputs(e) : i.destination = "ownership"
    /\ \A e, f \in EntryIds : binding[e] # None /\ binding[e] = binding[f] => e = f
    /\ {[id |-> binding[e], entry |-> e, copies |-> entry[e].content.quantity] :
          e \in {e \in EntryIds : binding[e] # None}} = acquisition
    /\ \A a \in acquisition : \A n \in 1 .. a.id.occurrence :
         [a.id EXCEPT !.occurrence = n] \in RecordedAcquisitions

\* A confirmation into ownership adds what was reviewed, and adds it once.
OwnedAsReviewed == AppliesReviewedRevision /\ OwnedOnce

\* The entries confirmed into a tag that review to one of its targets.
IntendedBy(t, x) ==
    {e \in EntryIds : /\ \E i \in ConfirmingInputs(e) : i.destination = t
                      /\ TargetOf(Reviewed(entry[e].content)) = x}

\* A tag requires of each target exactly what the entries confirmed into it
\* review to that target: no retry adds a quantity twice and none is lost.
IntendedOnce ==
    \A t \in Tags, x \in Targets :
        association[t][x] =
            Total([e \in IntendedBy(t, x) |-> entry[e].content.quantity])

\* Operations that confirmed the same request report the same outcome at the
\* same publication position; different requests never share a position.
SameRequestSameOutcome ==
    \A o, p \in Ops :
        receipt[o] # None /\ receipt[p] # None =>
            /\ receipt[o].input = receipt[p].input => receipt[o] = receipt[p]
            /\ receipt[o].position = receipt[p].position => receipt[o] = receipt[p]
            /\ receipt[o].position <= revision

\* The entries an outcome confirmed that review to one target.
ConfirmedTo(outcome, x) ==
    {e \in Named(outcome.input) : TargetOf(Reviewed(entry[e].content)) = x}

\* An outcome in ownership is the acquisitions its entries are bound to; one in
\* a tag is the targets they review to, each at the quantity required of it
\* then: at least what was added, and no more than the tag requires now.
ReportsAcquired(outcome) ==
    /\ outcome.associations = {}
    /\ outcome.acquisitions = {binding[e] : e \in Named(outcome.input)}

ReportsRequired(outcome) ==
    /\ outcome.acquisitions = {}
    /\ {x.target : x \in outcome.associations}
          = {TargetOf(Reviewed(entry[e].content)) : e \in Named(outcome.input)}
    /\ \A x \in outcome.associations :
          /\ x.quantity <= association[outcome.input.destination][x.target]
          /\ x.quantity >=
                Total([e \in ConfirmedTo(outcome, x.target) |-> entry[e].content.quantity])

\* What an operation reports, at once or to a retry however late, is what its
\* confirmation did to the records, whatever was confirmed since and however
\* often the request was repeated under other operations.
ReportsWhatItDid ==
    \A o \in Ops : receipt[o] # None =>
        IF receipt[o].input.destination = "ownership" THEN ReportsAcquired(receipt[o])
        ELSE ReportsRequired(receipt[o])

\* Each entry is confirmed once, by one request with one outcome.
ConfirmedOnce == ConfirmedByOneRequest /\ SameRequestSameOutcome

\* A recorded outcome is never changed, so a recovery after any delay reports
\* what its operation did, and an operation never confirms a second request.
ReceiptsImmutable ==
    [][\A o \in Ops : receipt[o] # None => receipt'[o] = receipt[o]]_vars

--------
(* Review and the revisions that guard it.                                 *)

\* A decided entry is never pending, edited or decided again; its history
\* outlives every later import of the same line.
DecidedForever ==
    [][\A e \in EntryIds :
          entry[e] # None /\ entry[e].state # "pending" => entry'[e] = entry[e]]_vars

\* A session revision names one view of the pending entries and of the
\* accepted sequence, which is what a whole-import discard relies on to drop
\* only entries its caller saw.
SessionRevisionNamesView ==
    [][\A s \in Sessions :
          session[s] # None /\
          (\/ \E e \in EntryIds :
                 /\ entry[e] # entry'[e]
                 /\ s \in {r.session : r \in {entry[e], entry'[e]} \ {None}}
           \/ session'[s] # session[s])
             => session'[s].revision > session[s].revision]_vars

\* Every change a reader can see publishes a new account revision, so reads
\* and continuations that carry one revision saw one state.
RevisionNamesState ==
    [][(entry' # entry \/ receipt' # receipt \/ acquisition' # acquisition
           \/ association' # association) => revision' > revision]_vars

--------
(* Captures.                                                               *)

Captured(s) ==
    {e \in EntriesOf(s) : staged[e].fingerprint.kind = "capture"}
AcceptedIdentity(e) == staged[e].fingerprint.content.card

\* The accepted sequence of a session never repeats an identity, whatever was
\* since corrected, discarded or confirmed, and the session remembers its last.
AcceptedSequence ==
    \A s \in Sessions : \A e \in Captured(s) :
        LET later == {f \in Captured(s) : entry[f].position > entry[e].position}
        IN  IF later = {} THEN session[s].lastAccepted = AcceptedIdentity(e)
            ELSE \E f \in later :
                    /\ \A g \in later : entry[f].position <= entry[g].position
                    /\ AcceptedIdentity(f) # AcceptedIdentity(e)

\* An input's admission is decided once: a retry of a suppressed capture never
\* stages it, under whatever the session accepted since, and entries exist
\* exactly for the admitted inputs.
AdmissionPermanent ==
    [][\A e \in EntryIds :
          /\ staged[e] # None => staged'[e] = staged[e]
          /\ staged'[e] # None /\ staged'[e].outcome = "admitted" <=> entry'[e] # None]_vars

--------
(* Source lines.                                                           *)

\* A repeated import can always stage what its list declares again: the
\* identities its next attempts are hashed from are unused, so staging never
\* fails on an entry that was decided before.
NextAttemptsUnused ==
    \A s \in Sessions, k \in Keys, n \in 1 .. MaxAttempts :
        n > Records(s, k) => entry[<<s, k, n>>] = None

\* What an import holds of a line, decided or not, but what was discarded.
Standing(s, k) == {e \in EntriesOfKey(s, k) : ~InState(e, "discarded")}

\* However a list is repeated, reordered, partly discarded or partly
\* confirmed, its import never holds more of a line than one reading of the
\* list declared (in runs whose reviews raise no quantity).
NeverBeyondDeclared ==
    \A s \in Sessions, k \in Keys : Standing(s, k) # {} =>
        \E b \in SourceBatches :
            Total([e \in Standing(s, k) |-> entry[e].content.quantity])
                <= DeclaredBy(b, k, Len(b))

\* What is accepted is staged in order, and what is declared again can always
\* be staged.
StagedAsAccepted == AcceptedSequence /\ NextAttemptsUnused
=============================================================================
