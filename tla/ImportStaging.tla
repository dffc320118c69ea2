---------------------------- MODULE ImportStaging ----------------------------
(***************************************************************************)
(* Staging (src/usercards/internal/imports/staging.ts): the three          *)
(* transactions that admit pending entries into a session.  Each one       *)
(* creates the session when it is new, locks it and then reads, so each is *)
(* one atomic step that waits for a confirmation holding the session.      *)
(* A handler that throws rolls back and is no step at all; one that        *)
(* returns a conflict commits the session it created.                      *)
(***************************************************************************)
EXTENDS ImportState, Sequences

CONSTANTS
    LineBatches,    \* batches of caller-identified lines that may be offered
    Readings,       \* what a capture may be read as: [content, candidates]
    SourceBatches   \* parsed lists: sequences of [key, quantity]

ASSUME StagingAssumption ==
    /\ LineBatches \subseteq Seq([id : InputIds, key : {None}, content : Contents,
                                 candidates : SUBSET Candidates])
    /\ \A b \in LineBatches : \A i, j \in DOMAIN b : b[i].id = b[j].id => i = j
    /\ Readings \subseteq [content : Contents, candidates : SUBSET Candidates]
    /\ \A r \in Readings : \/ r.content.printing = None
                           \/ r.content.card = CardOf[r.content.printing]
    /\ SourceBatches \subseteq Seq([key : Keys, quantity : 1 .. MaxQuantity])

--------
(* claimSession: the session row, created when it is new, is locked; an    *)
(* import another source owns is refused.                                  *)

NewSession(source) == [source |-> source, lastAccepted |-> None, revision |-> 1]

ClaimsSession(s, source) ==
    /\ Unlocked(s)
    /\ session[s] # None => session[s].source = source

LineFingerprint(line) ==
    [kind |-> "line", content |-> line.content, candidates |-> line.candidates]

Claimed(s, source) ==
    IF session[s] = None THEN [session EXCEPT ![s] = NewSession(source)]
    ELSE session

\* insertStagedEntries: the fresh lines, at the next positions in the order
\* they were offered, with their admission receipts and one session revision.
\* An identity that already names an entry violates the primary key.
InsertStagedEntries(s, source, lines, fresh) ==
    LET Row(e) == CHOOSE i \in fresh : lines[i].id = e
        Offered(e) == \E i \in fresh : lines[i].id = e
        Position(i) == NextPosition(s) + Cardinality({j \in fresh : j < i})
    IN  /\ \A i \in fresh : entry[lines[i].id] = None
        /\ entry' = [e \in EntryIds |->
               IF Offered(e) THEN NewEntry(s, Position(Row(e)), lines[Row(e)].key,
                                         lines[Row(e)].content, lines[Row(e)].candidates)
               ELSE entry[e]]
        /\ staged' = [e \in EntryIds |->
               IF Offered(e) THEN [session |-> s, outcome |-> "admitted",
                                 fingerprint |-> LineFingerprint(lines[Row(e)])]
               ELSE staged[e]]
        /\ session' = [Claimed(s, source) EXCEPT ![s].revision = @ + 1]
        /\ AdvanceRevision

\* A call that only prepares its session, or reads one that exists.
OnlyClaim(s, source) ==
    /\ session' = Claimed(s, source)
    /\ UNCHANGED <<entry, staged, revision>>

--------
(* stageEntries: lines the caller identified itself.                       *)

\* A line already staged replays only as the same line of the same session.
Replays(s, line) ==
    /\ staged[line.id].session = s
    /\ staged[line.id].outcome = "admitted"
    /\ staged[line.id].fingerprint = LineFingerprint(line)

LineConflict(s, batch) ==
    \E i \in DOMAIN batch : staged[batch[i].id] # None /\ ~Replays(s, batch[i])

Fresh(batch) == {i \in DOMAIN batch : staged[batch[i].id] = None}

StageEntries(s, source, batch) ==
    /\ ClaimsSession(s, source)
    /\ IF LineConflict(s, batch) \/ Fresh(batch) = {}
       THEN OnlyClaim(s, source)
       ELSE InsertStagedEntries(s, source, batch, Fresh(batch))
    /\ UNCHANGED confirmationVars

--------
(* stageCapture: one reading of a capture session, suppressed when it      *)
(* repeats the identity the session accepted last.                         *)

CaptureFingerprint(reading) ==
    [kind |-> "capture", content |-> reading.content,
     candidates |-> reading.candidates]

StageRow(s, outcome, reading) ==
    [session |-> s, outcome |-> outcome, fingerprint |-> CaptureFingerprint(reading)]

Resolved(reading) == reading.content.printing # None

\* The identity compared is the playable card, not its printing.
RepeatsAccepted(s, reading) ==
    session[s] # None /\ session[s].lastAccepted = reading.content.card

\* Slip: a suppressed capture is offered again as if it were new.
UndecidedSlip(id) == entry[id] = None

Undecided(id) == staged[id] = None

\* A capture already decided, under any content, and an unresolved reading
\* change nothing beyond the session they prepare.
CaptureUnchanged(s, id, reading) ==
    /\ ClaimsSession(s, CaptureSource(s))
    /\ ~Undecided(id) \/ ~Resolved(reading)
    /\ OnlyClaim(s, CaptureSource(s))
    /\ UNCHANGED confirmationVars

CaptureSuppressed(s, id, reading) ==
    /\ ClaimsSession(s, CaptureSource(s))
    /\ Undecided(id) /\ Resolved(reading) /\ RepeatsAccepted(s, reading)
    /\ staged' = [staged EXCEPT ![id] = StageRow(s, "suppressed", reading)]
    /\ UNCHANGED <<session, entry, revision, confirmationVars>>

\* Slip: the accepted identity is not remembered.
AcceptingSlip(row, card) == [row EXCEPT !.revision = @ + 1]

Accepting(row, card) == [row EXCEPT !.lastAccepted = card, !.revision = @ + 1]

\* Slip: the accepted identity publishes no session revision.
AcceptIdentitySlip(s, reading) ==
    [Claimed(s, CaptureSource(s)) EXCEPT ![s].lastAccepted = reading.content.card]

\* acceptIdentityStatement: the session's accepted sequence advances with it.
AcceptIdentity(s, reading) ==
    [Claimed(s, CaptureSource(s)) EXCEPT ![s] = Accepting(@, reading.content.card)]

CaptureAdmitted(s, id, reading) ==
    /\ ClaimsSession(s, CaptureSource(s))
    /\ Undecided(id) /\ Resolved(reading) /\ ~RepeatsAccepted(s, reading)
    /\ entry' = [entry EXCEPT ![id] =
           NewEntry(s, NextPosition(s), None, reading.content, reading.candidates)]
    /\ session' = AcceptIdentity(s, reading)
    /\ staged' = [staged EXCEPT ![id] = StageRow(s, "admitted", reading)]
    /\ AdvanceRevision
    /\ UNCHANGED confirmationVars

StageCapture(s, id, reading) ==
    \/ CaptureUnchanged(s, id, reading)
    \/ CaptureSuppressed(s, id, reading)
    \/ CaptureAdmitted(s, id, reading)

--------
(* stageSourceLines: a parsed list is reconciled with what its import      *)
(* already staged and acquired.  Rows with one key are covered together,   *)
(* in source order, by the quantity the import still holds of that key.    *)

EntriesOfKey(s, key) == {e \in EntriesOf(s) : entry[e].key = key}

\* Slip: a confirmed entry no longer covers its line.
CoversSlip(e) == entry[e].state = "pending"

Covers(e) == entry[e].state \in {"pending", "confirmed"}

Covering(s, key) == {e \in EntriesOfKey(s, key) : Covers(e)}

Held(s, key) == Total([e \in Covering(s, key) |-> entry[e].content.quantity])

Records(s, key) == Cardinality(EntriesOfKey(s, key))

RowsOfKey(rows, key, upTo) == {i \in 1 .. upTo : rows[i].key = key}

\* The quantity the first `upTo` rows declare of one key.
DeclaredBy(rows, key, upTo) ==
    Total([i \in RowsOfKey(rows, key, upTo) |-> rows[i].quantity])

Beyond(declared, held) == Max({0, declared - held})

\* What row i stages: the part of its group's declared quantity that goes
\* beyond the quantity held and that no earlier row already stages.
Uncovered(s, rows, i) ==
    LET key == rows[i].key
    IN  Beyond(DeclaredBy(rows, key, i), Held(s, key))
          - Beyond(DeclaredBy(rows, key, i - 1), Held(s, key))

StagingRows(s, rows) == {i \in DOMAIN rows : Uncovered(s, rows, i) > 0}

\* The attempt that names row i's entry counts every entry its key recorded.
Attempt(s, rows, i) ==
    Records(s, rows[i].key)
      + Cardinality(RowsOfKey(rows, rows[i].key, i) \cap StagingRows(s, rows))

SourceEntry(s, rows, i) ==
    [id |-> <<s, rows[i].key, Attempt(s, rows, i)>>,
     key |-> rows[i].key,
     content |-> [card |-> None, printing |-> Published[rows[i].key].printing,
                  finish |-> Published[rows[i].key].finish,
                  quantity |-> Uncovered(s, rows, i)],
     candidates |-> {}]

Reconciled(s, rows) == [i \in DOMAIN rows |-> SourceEntry(s, rows, i)]

StageSourceLines(s, source, rows) ==
    /\ ClaimsSession(s, source)
    /\ \A i \in StagingRows(s, rows) :
         /\ Attempt(s, rows, i) \in 1 .. MaxAttempts
         /\ Uncovered(s, rows, i) \in 1 .. MaxQuantity
    /\ IF StagingRows(s, rows) = {}
       THEN OnlyClaim(s, source)
       ELSE InsertStagedEntries(s, source, Reconciled(s, rows), StagingRows(s, rows))
    /\ UNCHANGED confirmationVars
=============================================================================
