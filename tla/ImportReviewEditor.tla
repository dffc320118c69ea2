-------------------------- MODULE ImportReviewEditor --------------------------
(***************************************************************************)
(* The pending review of the Import page                                   *)
(* (src/ui/editors/internal/imports.ts, import-edits.ts): one import's     *)
(* pending entries with the unsaved input of their owner, saved, discarded *)
(* and confirmed through UserCards.  A handler keeps what it read before   *)
(* it awaits; its answer finds the owner editing on, another import        *)
(* presented, or the view left and mounted again with the drafts it kept.  *)
(***************************************************************************)
EXTENDS Naturals, Sequences, SequencesExt, FiniteSets, FiniteSetsExt

CONSTANTS
    Null,           \* null
    Imports,        \* import sessions
    Manual,         \* the manual queue among them, presented by default
    Entries,        \* pending entries
    ImportOf,       \* [Entries -> Imports]
    Staged,         \* what may be staged when the page opens: sets of entries
    Values,         \* what a review can say of an entry
    First,          \* what the entries of Staged say at first
    Attempts,  \* identities of the confirmations an account can begin
    BatchSize,      \* constraints.batch.confirmEntries
    DraftWindow,    \* UI_LIMITS.listWindow
    MaxRevision,    \* bound on the changes of one entry
    MaxRequests,    \* bound on the reviews and discards in flight at once
    MaxReads,       \* bound on the session reads in flight at once
    MaxVisits       \* bound on the times the view is mounted

ASSUME EditorAssumption ==
    /\ Manual \in Imports
    /\ ImportOf \in [Entries -> Imports]
    /\ Staged \subseteq SUBSET Entries
    /\ First \in Values
    /\ BatchSize \in Nat \ {0}
    /\ DraftWindow \in Nat \ {0}

AttemptRecords ==
    [import : Imports, entries : SUBSET Entries, at : {"sent", "applied", "refused"},
     quoted : UNION {[S -> Nat] : S \in SUBSET Entries},
     told : {"pending", "unknown", "established"}]

ASSUME NullAssumption ==
    /\ Null \notin Values \cup Attempts \cup Imports \cup {"committed", "unknown"}
    /\ Null \notin [revision : Nat, value : Values]
    /\ Null \notin AttemptRecords

VARIABLES
    row,        \* import_entry: [Entries -> [state, revision, value]]
    attempt,    \* the confirmations UserCards tracks: [Attempts -> attempt or Null]
    view,       \* what the mounted editor, or the history entry it left, keeps
    visit,      \* whether the view is mounted, and how often it was
    requests,   \* reviews and discards in flight
    saved,      \* history: what committed reviews wrote
    behind      \* history: a change was made that this view is not told of

reviewVars == <<row, attempt, view, visit, requests, saved, behind>>

Nothing == [e \in Entries |-> Null]
Unread == [e \in Entries |-> 0]
Unordered == [e \in Entries |-> {}]

--------
(* What UserCards answers.                                                 *)

PendingIn(i) == {e \in Entries : ImportOf[e] = i /\ row[e].state = "pending"}
SessionOf(i) ==
    [import |-> i, pending |-> Cardinality(PendingIn(i)),
     revision |-> MapThenSumSet(LAMBDA e : row[e].revision, {e \in Entries : ImportOf[e] = i})]
RecordsOf(i) ==
    [e \in Entries |-> IF e \notin PendingIn(i) THEN Null
                       ELSE [revision |-> row[e].revision, value |-> row[e].value]]

\* A listing of sessions, reduced to which are listed and have pending entries.
ListedSessions == [i \in Imports |-> IF PendingIn(i) = {} THEN "unlisted" ELSE "pending"]

Changed(e, state, value) == [state |-> state, revision |-> row[e].revision + 1, value |-> value]
Quoted(e, revision) == row[e].state = "pending" /\ row[e].revision = revision

\* retained: an attempt leaves once its outcome is established.
Retained(o) == attempt[o] # Null /\ attempt[o].told # "established"
RetainedConfirmation ==
    IF \E o \in Attempts : Retained(o) THEN CHOOSE o \in Attempts : Retained(o) ELSE Null

--------
(* The state of the view, and what its handlers make of it.                *)

\* The view keeps an import's list: the binding's records, the session they
\* were read with, the selection and the revisions selected entries had.
Present(v, i) ==
    IF i = v.import /\ i # Null THEN v
    ELSE [v EXCEPT !.import = i, !.held = Nothing, !.session = Null, !.selected = {},
                   !.kept = Unread, !.listing = i # Null]

Refresh(v) == [v EXCEPT !.listing = v.import # Null]

\* A committed change reacquires the list of the import it names.
Notified(v, i) == IF v.import = i THEN Refresh(v) ELSE v

\* readSessions: an older read never replaces the newest.
ReadSessions(v, then) ==
    [v EXCEPT !.reads = Append([n \in DOMAIN @ |-> [@[n] EXCEPT !.newest = FALSE]],
                               [then |-> then, newest |-> TRUE, found |-> Null])]

\* defaultSessionId: the manual queue, or the first of the sessions.
DefaultOf(found) ==
    IF found = {} THEN Null ELSE IF Manual \in found THEN Manual ELSE CHOOSE i \in found : TRUE

Listed(v) == {i \in Imports : v.listed[i] # "unlisted"}
WithPending(v) == {i \in Imports : v.listed[i] = "pending"}

\* recoverPendingConfirmation, up to its answer.
StartRecovery(v) ==
    IF v.confirmation = Null \/ v.confirming # Null \/ v.recovering THEN v
    ELSE [v EXCEPT !.recovering = TRUE]

AdoptSlip(v, s) ==
    LET known == IF v.listed[s.import] = "unlisted" THEN v
                 ELSE [v EXCEPT !.listed[s.import] = IF s.pending > 0 THEN "pending" ELSE "decided"]
    IN  IF s.import # v.import THEN known ELSE [known EXCEPT !.session = s]

\* adoptSession
Adopt(v, s) ==
    LET known == IF v.listed[s.import] = "unlisted" THEN v
                 ELSE [v EXCEPT !.listed[s.import] = IF s.pending > 0 THEN "pending" ELSE "decided"]
        moved == Present([known EXCEPT !.session = s], DefaultOf(WithPending(known)))
    IN  IF s.import # v.import THEN known
        ELSE IF s.pending > 0 THEN [known EXCEPT !.session = s]
        ELSE IF v.confirmation # Null /\ attempt[v.confirmation].import = s.import
        THEN StartRecovery(moved) ELSE moved

\* observePendingEntries: every load brings a session record of its own.
Observe(v, session, records) ==
    Adopt([v EXCEPT !.listing = FALSE, !.held = records,
              !.kept = [e \in Entries |->
                  IF e \notin v.selected THEN 0
                  ELSE IF @[e] = 0 /\ records[e] # Null THEN records[e].revision
                  ELSE @[e]]], session)

\* Unsaved input in the order it was begun: `before` says after which.
Drafted(v) == {e \in Entries : v.draft[e] # Null}
Oldest(v) == {e \in Drafted(v) : v.before[e] = {}}

Dropped(v, S) ==
    [v EXCEPT !.draft = [e \in Entries |-> IF e \in S THEN Null ELSE @[e]],
              !.before = [e \in Entries |-> IF e \in S THEN {} ELSE @[e] \ S]]

\* draftFor: of one window of drafts the oldest gives way to a new one
\* (boundByWindow).  A returning view reads back what was within it, in order.
DraftFor(v, e) ==
    LET room == IF Cardinality(Drafted(v)) >= DraftWindow THEN Dropped(v, Oldest(v)) ELSE v
    IN  IF v.draft[e] # Null THEN v ELSE [room EXCEPT !.before[e] = Drafted(room)]

\* forgetConfirmed
Forget(v, o) ==
    LET named == attempt[o].entries
        known == Dropped(v, named)
    IN  IF v.import # attempt[o].import THEN known
        ELSE [known EXCEPT !.selected = @ \ named,
                           !.kept = [e \in Entries |-> IF e \in named THEN 0 ELSE @[e]]]

\* What a session read's caller does once it settled.
AfterRead(v, then) ==
    CASE then = "present" -> Present(v, IF v.import = Null THEN DefaultOf(Listed(v)) ELSE v.import)
      [] then \in Imports -> IF v.import = then THEN Refresh(v) ELSE Present(v, then)
      [] OTHER ->
           IF v.import = Null THEN Present(v, DefaultOf(Listed(v)))
           ELSE IF /\ v.import \notin Listed(v)
                   /\ v.session # Null /\ v.session.pending = 0
           THEN Present(v, DefaultOf(Listed(v)))
           ELSE IF then = "refresh" THEN Refresh(v) ELSE v

\* The values an entry's editor presents: the unsaved ones, or those stored.
PresentedValue(v, e) == IF v.draft[e] # Null THEN v.draft[e] ELSE v.held[e].value

--------
(* The view is opened, left and returned to.                               *)

NewView ==
    [import |-> Null, held |-> Nothing, session |-> Null, listed |-> [i \in Imports |-> "unlisted"],
     draft |-> Nothing, before |-> Unordered, selected |-> {}, kept |-> Unread, confirmation |-> Null,
     confirming |-> Null, recovering |-> FALSE, listing |-> FALSE, reads |-> <<>>]

Live(v) == visit.open /\ visit.number = v

MountSlip(retained) ==
    ReadSessions([Refresh(retained) EXCEPT !.confirmation = Null], "present")

Mount(retained) ==
    ReadSessions(StartRecovery([Refresh(retained) EXCEPT !.confirmation = RetainedConfirmation]),
                 "present")

Return ==
    /\ ~visit.open /\ visit.number < MaxVisits
    /\ visit' = [open |-> TRUE, number |-> visit.number + 1]
    /\ view' = Mount(view)
    /\ UNCHANGED <<row, attempt, requests, saved, behind>>

\* capture and dispose: what stays with the history entry.
Leave ==
    /\ visit.open
    /\ visit' = [visit EXCEPT !.open = FALSE]
    /\ view' = [NewView EXCEPT !.import = view.import, !.draft = view.draft,
                    !.before = view.before,
                    !.selected = view.selected,
                    !.kept = [e \in Entries |->
                        IF e \notin view.selected THEN 0
                        ELSE IF view.held[e] # Null THEN view.held[e].revision
                        ELSE view.kept[e]]]
    /\ UNCHANGED <<row, attempt, requests, saved, behind>>

--------
(* Reads.                                                                  *)

\* A read is served before its answer arrives, for the newest of them, or fails.
ServeSessions(n) ==
    /\ n \in DOMAIN view.reads /\ view.reads[n].found = Null
    /\ view' = [view EXCEPT !.reads[n].found = ListedSessions]
    /\ UNCHANGED <<row, attempt, visit, requests, saved, behind>>

SettleSessions(n) ==
    /\ n \in DOMAIN view.reads
    /\ LET read == view.reads[n]
           rest == [view EXCEPT !.reads = RemoveAt(@, n)]
       IN  \/ /\ read.found # Null
              /\ view' = AfterRead(IF read.newest THEN [rest EXCEPT !.listed = read.found]
                                   ELSE rest, read.then)
              /\ UNCHANGED behind
           \/ /\ view' = AfterRead(rest, read.then)
              /\ behind' = TRUE
    /\ UNCHANGED <<row, attempt, visit, requests, saved>>

\* load of the pending-entry binding; CardList repeats a read that failed.
ReadEntries ==
    /\ view.listing
    /\ view' = Observe(view, SessionOf(view.import), RecordsOf(view.import))
    /\ UNCHANGED <<row, attempt, visit, requests, saved, behind>>

--------
(* What the owner does.                                                    *)

ChooseImport(i) ==
    /\ visit.open /\ i \in Listed(view) /\ i # view.import
    /\ view' = Present(view, i)
    /\ UNCHANGED <<row, attempt, visit, requests, saved, behind>>

SetSelected(e) ==
    /\ visit.open /\ view.held[e] # Null
    /\ view' = IF e \in view.selected
               THEN [view EXCEPT !.selected = @ \ {e}, !.kept[e] = 0]
               ELSE [view EXCEPT !.selected = @ \cup {e}, !.kept[e] = view.held[e].revision]
    /\ UNCHANGED <<row, attempt, visit, requests, saved, behind>>

\* Typing, or choosing a card or printing (chooseEntryTarget).
Edit(e, value) ==
    /\ visit.open /\ view.held[e] # Null /\ value # PresentedValue(view, e)
    /\ view' = [DraftFor(view, e) EXCEPT !.draft[e] = value]
    /\ UNCHANGED <<row, attempt, visit, requests, saved, behind>>

Request(kind, target, revision, value) ==
    /\ Cardinality(requests) < MaxRequests
    /\ requests' = requests \cup
         {[kind |-> kind, target |-> target, revision |-> revision, value |-> value,
           visit |-> visit.number, outcome |-> Null, session |-> Null]}
    /\ UNCHANGED <<row, attempt, view, visit, saved, behind>>

\* saveReview, up to its answer: it quotes the revision it read before it
\* resolved the printing.
SaveReview(e) ==
    /\ visit.open /\ view.held[e] # Null
    /\ Request("review", e, view.held[e].revision, PresentedValue(view, e))

RemoveEntry(e) ==
    /\ visit.open /\ view.held[e] # Null
    /\ Request("discard", e, view.held[e].revision, Null)

DiscardImport ==
    /\ visit.open /\ view.session # Null
    /\ Request("discard-import", view.import, view.session.revision, Null)

Reconcile ==
    /\ visit.open
    /\ view' = ReadSessions(view, "refresh")
    /\ UNCHANGED <<row, attempt, visit, requests, saved, behind>>

--------
(* Reviews and discards.                                                   *)

\* The request reaches UserCards, which commits it at the quoted revision,
\* or fails on its way.
Serve(r) ==
    /\ r \in requests /\ r.outcome = Null
    /\ LET named == IF r.kind = "discard-import" THEN PendingIn(r.target) ELSE {r.target}
           i == IF r.kind = "discard-import" THEN r.target ELSE ImportOf[r.target]
           commits == IF r.kind = "discard-import" THEN SessionOf(i).revision = r.revision
                      ELSE Quoted(r.target, r.revision)
           answered(outcome) ==
              requests' = (requests \ {r}) \cup
                 {[r EXCEPT !.outcome = outcome,
                            !.session = IF outcome = "committed" THEN SessionOf(i)' ELSE Null]}
       IN  \/ /\ commits /\ \A e \in named : row[e].revision < MaxRevision
              /\ row' = [e \in Entries |->
                    IF e \notin named THEN row[e]
                    ELSE IF r.kind = "review" THEN Changed(e, "pending", r.value)
                    ELSE Changed(e, "discarded", row[e].value)]
              /\ saved' = saved \cup IF r.kind = "review" THEN {<<r.target, r.value>>} ELSE {}
              /\ \E outcome \in {"committed", "unknown"} : answered(outcome)
           \/ /\ ~commits /\ answered("conflict")
              /\ UNCHANGED <<row, saved>>
           \/ /\ \E outcome \in {"failed", "unknown"} : answered(outcome)
              /\ UNCHANGED <<row, saved>>
    /\ UNCHANGED <<attempt, view, visit, behind>>

FinishReviewSlip(v, r) ==
    IF v.held[r.target] = Null THEN v
    ELSE IF r.outcome = "committed"
    THEN Adopt(Dropped(v, {r.target}), r.session)
    ELSE IF r.outcome = "failed" THEN v
    ELSE ReadSessions(v, "refresh")

\* finishReview: only the input this review committed leaves.
FinishReview(v, r) ==
    LET cleared == IF v.draft[r.target] # r.value THEN v ELSE Dropped(v, {r.target})
    IN  IF v.held[r.target] = Null THEN v
        ELSE IF r.outcome = "committed" THEN Adopt(cleared, r.session)
        ELSE IF r.outcome = "failed" THEN v
        ELSE ReadSessions(v, "refresh")

FinishRemove(v, r) ==
    IF r.outcome = "committed" THEN ReadSessions(Dropped(v, {r.target}), "keep")
    ELSE ReadSessions(v, "refresh")

\* forgetPresentedEntries, for the import the view still presents.
FinishDiscard(v, r) ==
    IF r.outcome # "committed" THEN ReadSessions(v, "refresh")
    ELSE IF r.target # v.import THEN ReadSessions(v, "keep")
    ELSE ReadSessions(
            [Dropped(v, {e \in Entries : v.held[e] # Null}) EXCEPT !.kept = Unread], "keep")

Finish(r) ==
    /\ r \in requests /\ r.outcome # Null
    /\ requests' = requests \ {r}
    /\ LET i == IF r.kind = "discard-import" THEN r.target ELSE ImportOf[r.target]
           told == IF r.outcome = "committed" /\ visit.open THEN Notified(view, i) ELSE view
       IN  view' = IF ~Live(r.visit) THEN told
                   ELSE IF r.kind = "review" THEN FinishReview(told, r)
                   ELSE IF r.kind = "discard" THEN FinishRemove(told, r)
                   ELSE FinishDiscard(told, r)
    /\ behind' = (behind \/ (~Live(r.visit) /\ r.outcome = "unknown"))
    /\ UNCHANGED <<row, attempt, visit, saved>>

--------
(* Confirmation.                                                           *)

\* reviewedRevision
ReviewedRevision(v, e) == IF v.held[e] # Null THEN v.held[e].revision ELSE v.kept[e]

\* One batch of what is left, under an operation of its own.
Dispatch(v, i, rest, A) ==
    \E batch \in SUBSET DOMAIN rest :
     LET o == CHOOSE unused \in Attempts : A[unused] = Null
     IN /\ Cardinality(batch) = Min({BatchSize, Cardinality(DOMAIN rest)})
        /\ \E unused \in Attempts : A[unused] = Null
        /\ attempt' = [A EXCEPT ![o] = [import |-> i, entries |-> batch, at |-> "sent",
                           quoted |-> [e \in batch |-> rest[e]], told |-> "pending"]]
        /\ view' = [v EXCEPT !.confirmation = o, !.confirming =
               [op |-> o, import |-> i, rest |-> [e \in DOMAIN rest \ batch |-> rest[e]]]]

\* confirmSelection, up to its first answer.
ConfirmSelection ==
    /\ visit.open
    /\ view.confirming = Null /\ ~view.recovering /\ view.confirmation = Null
    /\ view.import # Null /\ view.selected # {}
    /\ \A e \in view.selected : ReviewedRevision(view, e) # 0
    /\ Dispatch(view, view.import, [e \in view.selected |-> ReviewedRevision(view, e)], attempt)
    /\ UNCHANGED <<row, visit, requests, saved, behind>>

\* UserCards confirms what is pending at its quoted revision, whether or not
\* anybody still waits for it.
ServeConfirmation(o) ==
    /\ attempt[o] # Null /\ attempt[o].at = "sent"
    /\ LET quoted == attempt[o].quoted
       IN  IF \A e \in DOMAIN quoted : Quoted(e, quoted[e])
           THEN /\ \A e \in DOMAIN quoted : row[e].revision < MaxRevision
                /\ row' = [e \in Entries |-> IF e \in DOMAIN quoted
                             THEN Changed(e, "confirmed", row[e].value) ELSE row[e]]
                /\ attempt' = [attempt EXCEPT ![o].at = "applied"]
           ELSE /\ attempt' = [attempt EXCEPT ![o].at = "refused"]
                /\ UNCHANGED row
    /\ behind' = (behind \/ attempt[o].told # "pending")
    /\ UNCHANGED <<view, visit, requests, saved>>

\* confirmSelection, from the answer of one batch.
FinishConfirmation(o) ==
    /\ attempt[o] # Null /\ attempt[o].told = "pending"
    /\ \E outcome \in {"applied", "refused", "unknown"} :
         LET A == [attempt EXCEPT ![o].told =
                      IF outcome = "unknown" THEN "unknown" ELSE "established"]
             told == IF outcome = "applied" /\ visit.open
                     THEN Notified(view, attempt[o].import) ELSE view
             mine == visit.open /\ view.confirming # Null /\ view.confirming.op = o
             known == IF outcome = "unknown" THEN told ELSE [told EXCEPT !.confirmation = Null]
         IN  /\ outcome # "unknown" => attempt[o].at = outcome
             /\ IF ~mine THEN view' = told /\ attempt' = A
                ELSE IF outcome # "applied"
                THEN /\ view' = ReadSessions([known EXCEPT !.confirming = Null], "refresh")
                     /\ attempt' = A
                ELSE IF DOMAIN view.confirming.rest = {}
                THEN /\ view' = ReadSessions([Forget(known, o) EXCEPT !.confirming = Null], "keep")
                     /\ attempt' = A
                ELSE Dispatch(Forget(known, o), view.confirming.import, view.confirming.rest, A)
    /\ UNCHANGED <<row, visit, requests, saved, behind>>

RecoverConfirmation ==
    /\ visit.open /\ StartRecovery(view) # view
    /\ view' = StartRecovery(view)
    /\ UNCHANGED <<row, attempt, visit, requests, saved, behind>>

\* recoverPendingConfirmation, from the answer: the recorded outcome, its
\* absence, or nothing established.
FinishRecovery ==
    /\ view.recovering
    /\ LET o == view.confirmation
           ended == [view EXCEPT !.recovering = FALSE]
           applied == attempt[o].at = "applied"
       IN  /\ attempt[o].told # "pending"
           /\ \/ /\ attempt[o].told = "unknown"
                 /\ view' = ended
                 /\ UNCHANGED attempt
              \/ /\ attempt' = [attempt EXCEPT ![o].told = "established"]
                 /\ LET known == [ended EXCEPT !.confirmation = Null]
                    IN  view' = IF applied
                                THEN ReadSessions(
                                       Forget(Notified(known, attempt[o].import), o), "keep")
                                ELSE known
    /\ UNCHANGED <<row, visit, requests, saved, behind>>

--------
(* Changes from elsewhere.                                                 *)

\* Another client stages, corrects or discards an entry.
Elsewhere(e) ==
    /\ row[e].revision < MaxRevision
    /\ \E state \in {"pending", "discarded"}, value \in Values :
         /\ row[e].state = "pending" \/ (row[e].state = "absent" /\ state = "pending")
         /\ state = "discarded" => value = row[e].value
         /\ row' = [row EXCEPT ![e] = Changed(e, state, value)]
    /\ behind' = TRUE
    /\ UNCHANGED <<attempt, view, visit, requests, saved>>

\* Another editor of the page staged an entry (presentSession), or its camera
\* did (reconcileCapture).
StagedHere(e) ==
    /\ visit.open /\ row[e].state = "absent"
    /\ \E value \in Values : row' = [row EXCEPT ![e] = Changed(e, "pending", value)]
    /\ LET told == Notified(view, ImportOf[e])
       IN  \/ view' = ReadSessions(told, ImportOf[e])
          \/ /\ ImportOf[e] = view.import
             /\ view' = Adopt(told, SessionOf(ImportOf[e])')
    /\ UNCHANGED <<attempt, visit, requests, saved, behind>>

--------

ReviewInit ==
    /\ \E staged \in Staged : row = [e \in Entries |->
         [state |-> IF e \in staged THEN "pending" ELSE "absent",
          revision |-> IF e \in staged THEN 1 ELSE 0, value |-> First]]
    /\ attempt = [o \in Attempts |-> Null]
    /\ visit = [open |-> TRUE, number |-> 1]
    /\ view = ReadSessions(NewView, "present")
    /\ requests = {} /\ saved = {} /\ behind = FALSE

Visiting == Return \/ Leave \/ (\E n \in 1 .. MaxReads : ServeSessions(n) \/ SettleSessions(n)) \/ ReadEntries

Presenting ==
    \/ \E i \in Imports : ChooseImport(i)
    \/ DiscardImport \/ Reconcile
    \/ \E e \in Entries : StagedHere(e)

Reviewing(E) ==
    \E e \in E :
        \/ \E value \in Values : Edit(e, value)
        \/ SaveReview(e) \/ Elsewhere(e)

Deciding ==
    \/ \E e \in Entries : RemoveEntry(e)
    \/ \E r \in requests : Serve(r) \/ Finish(r)

Confirming ==
    \/ \E e \in Entries : SetSelected(e)
    \/ ConfirmSelection \/ RecoverConfirmation \/ FinishRecovery
    \/ \E o \in Attempts : ServeConfirmation(o) \/ FinishConfirmation(o)

ReviewNext ==
    /\ Visiting \/ Presenting \/ Reviewing(Entries) \/ Deciding \/ Confirming
    /\ Len(view'.reads) <= MaxReads

ReviewSpec == ReviewInit /\ [][ReviewNext]_reviewVars

--------
(* Properties.                                                             *)

\* Unsaved input leaves an entry's editor only once it was committed as it is,
\* the entry was decided, the discard of its whole import is answered, or it is
\* the oldest of a full window and another entry is edited, whatever was edited
\* while the request was away (imports.ts finishReview, forgetConfirmed,
\* forgetPresentedEntries, draftFor).
DraftsSurvive ==
    [][\A e \in Entries : view.draft[e] # Null /\ view'.draft[e] = Null =>
          \/ <<e, view.draft[e]>> \in saved
          \/ row[e].state \notin {"absent", "pending"}
          \/ \E r \in requests \ requests' :
                r.kind = "discard-import" /\ r.target = ImportOf[e]
                    /\ r.outcome = "committed"
          \/ /\ view.before[e] = {} /\ Cardinality(Drafted(view)) >= DraftWindow
             /\ \E f \in Entries : view.draft[f] = Null /\ view'.draft[f] # Null]_reviewVars

\* One confirmation at a time has an outcome that is not established, and the
\* view that is mounted, also after the owner left and returned, recovers it.
OneOutstanding ==
    \A o \in Attempts : Retained(o) =>
        /\ \A p \in Attempts : Retained(p) => p = o
        /\ visit.open => view.confirmation = o

\* Nothing is left that would bring the mounted view anything: no read, no
\* request, no confirmation without an outcome, no change it was not told of.
Rests ==
    /\ visit.open /\ ~behind
    /\ view.reads = <<>> /\ ~view.listing /\ requests = {}
    /\ \A o \in Attempts : ~Retained(o)

\* The view does not stay at an import whose entries are all decided, whoever
\* decided them and whatever overtook what (imports.ts adoptSession,
\* reconcile).
LeavesWhatIsDecided ==
    Rests /\ view.import # Null => PendingIn(view.import) # {}
=============================================================================
