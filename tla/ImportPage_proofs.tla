--------------------------- MODULE ImportPage_proofs ---------------------------
(***************************************************************************)
(* The review of the Import page, for any imports, entries, values and     *)
(* operations and any number of requests, reads and visits.                *)
(***************************************************************************)
EXTENDS ImportReviewEditor, FiniteSetTheorems, SequenceTheorems, TLAPS

--------
(* The inductive invariant.                                                *)

Fields == {"import", "held", "session", "listed", "draft", "before", "selected", "kept",
           "confirmation", "confirming", "recovering", "listing", "reads"}

HeldRecords == [revision : Nat, value : Values]

\* What a confirmation in batches still has to send.
Remaining(c) == c # Null =>
    /\ c.import \in Imports /\ DOMAIN c.rest \subseteq Entries
    /\ \A e \in DOMAIN c.rest : c.rest[e] \in Nat

IsView(v) ==
    /\ DOMAIN v = Fields
    /\ v.import \in Imports \cup {Null}
    /\ v.held \in [Entries -> HeldRecords \cup {Null}]
    /\ v.draft \in [Entries -> Values \cup {Null}]
    /\ v.selected \subseteq Entries
    /\ v.kept \in [Entries -> Nat]
    /\ v.confirmation \in Attempts \cup {Null}
    /\ Remaining(v.confirming)
    /\ v.recovering \in BOOLEAN

\* A view holds entries of the import it presents, and recovers a confirmation
\* only while it sends none.
ViewAgrees(v) ==
    /\ \A e \in Entries : v.held[e] # Null => ImportOf[e] = v.import
    /\ v.recovering => v.confirming = Null /\ v.confirmation # Null

Rows == [state : {"absent", "pending", "confirmed", "discarded"}, revision : Nat, value : Values]

RequestFields == {"kind", "target", "revision", "value", "visit", "outcome", "session"}
IsRequest(r) ==
    /\ DOMAIN r = RequestFields
    /\ r.kind \in {"review", "discard", "discard-import"}
    /\ r.kind # "discard-import" => r.target \in Entries
    /\ r.kind = "review" => r.value \in Values

\* What a committed request says was done.
Told(r, rows, written) ==
    r.outcome = "committed" =>
        /\ r.kind = "review" => <<r.target, r.value>> \in written
        /\ r.kind = "discard" => rows[r.target].state = "discarded"

RequestAgrees(r) == Told(r, row, saved)

\* What an applied confirmation names is confirmed.
AttemptAgrees(a) ==
    /\ a.entries = DOMAIN a.quoted
    /\ a.at = "applied" => \A e \in a.entries : row[e].state = "confirmed"

PageTypes ==
    /\ row \in [Entries -> Rows]
    /\ attempt \in [Attempts -> AttemptRecords \cup {Null}]
    /\ visit.open \in BOOLEAN /\ DOMAIN visit = {"open", "number"}
    /\ IsView(view) /\ \A r \in requests : IsRequest(r)

PageInv ==
    /\ PageTypes
    /\ ViewAgrees(view)
    /\ \A r \in requests : RequestAgrees(r)
    /\ \A o \in Attempts : attempt[o] # Null => AttemptAgrees(attempt[o])
    /\ view.confirmation # Null => attempt[view.confirmation] # Null
    /\ ~visit.open => view.confirmation = Null
    /\ OneOutstanding

--------
(* What the handlers leave of the view.                                    *)

\* A step of the view that concerns no confirmation, and one that concerns no
\* draft either.
Stands(v, w) ==
    /\ IsView(w) /\ ViewAgrees(w)
    /\ w.confirmation = v.confirmation /\ w.confirming = v.confirming

Steady(v, w) == Stands(v, w) /\ w.draft = v.draft

LEMMA SteadyItself == ASSUME NEW v, IsView(v), ViewAgrees(v) PROVE Steady(v, v)
BY DEF Steady, Stands

LEMMA SteadyOn ==
    ASSUME NEW v, NEW w, NEW x, Steady(v, w), Steady(w, x)
    PROVE  Steady(v, x)
BY DEF Steady, Stands

LEMMA NothingHeld == Nothing \in [Entries -> HeldRecords \cup {Null}] /\ Unread \in [Entries -> Nat]
                     /\ \A e \in Entries : Nothing[e] = Null
BY DEF Nothing, Unread

LEMMA PresentSteady ==
    ASSUME NEW v, IsView(v), ViewAgrees(v), NEW i \in Imports \cup {Null}, NEW w, w = Present(v, i)
    PROVE  Steady(v, w)
<1>1. CASE i = v.import /\ i # Null
  BY <1>1, SteadyItself DEF Present
<1>2. CASE ~(i = v.import /\ i # Null)
  <2>1. w = [v EXCEPT !.import = i, !.held = Nothing, !.session = Null, !.selected = {},
                      !.kept = Unread, !.listing = i # Null]
    BY <1>2 DEF Present
  <2>2. DOMAIN v = Fields
    BY DEF IsView
  <2>3. /\ DOMAIN w = Fields /\ w.import = i /\ w.held = Nothing /\ w.selected = {}
        /\ w.kept = Unread /\ w.draft = v.draft /\ w.confirmation = v.confirmation
        /\ w.confirming = v.confirming /\ w.recovering = v.recovering
    BY <2>1, <2>2 DEF Fields
  <2>4. IsView(w)
    BY <2>3, NothingHeld DEF IsView
  <2>5. ViewAgrees(w)
    BY <2>3, NothingHeld DEF ViewAgrees
  <2> QED
    BY <2>3, <2>4, <2>5 DEF Steady, Stands
<1> QED
  BY <1>1, <1>2

\* The other fields of a view.
LEMMA OtherFields ==
    ASSUME NEW v, IsView(v), ViewAgrees(v), NEW w, DOMAIN w = Fields,
           w.import = v.import, w.held = v.held, w.draft = v.draft, w.selected = v.selected,
           w.kept = v.kept, w.confirmation = v.confirmation, w.confirming = v.confirming,
           w.recovering = v.recovering
    PROVE  Steady(v, w)
BY DEF Steady, Stands, IsView, ViewAgrees

LEMMA RefreshSteady ==
    ASSUME NEW v, IsView(v), ViewAgrees(v), NEW w, w = Refresh(v)
    PROVE  Steady(v, w)
<1>1. w = [v EXCEPT !.listing = v.import # Null] /\ DOMAIN v = Fields
  BY DEF Refresh, IsView
<1> QED
  BY <1>1, OtherFields DEF Fields

LEMMA NotifiedSteady ==
    ASSUME NEW v, IsView(v), ViewAgrees(v), NEW i, NEW w, w = Notified(v, i)
    PROVE  Steady(v, w)
BY RefreshSteady, SteadyItself DEF Notified

LEMMA ReadSessionsSteady ==
    ASSUME NEW v, IsView(v), ViewAgrees(v), NEW then, NEW w, w = ReadSessions(v, then)
    PROVE  Steady(v, w)
<1> DEFINE reads == Append([n \in DOMAIN v.reads |-> [v.reads[n] EXCEPT !.newest = FALSE]],
                           [then |-> then, newest |-> TRUE, found |-> Null])
<1>1. w = [v EXCEPT !.reads = reads] /\ DOMAIN v = Fields
  BY DEF ReadSessions, IsView
<1> HIDE DEF reads
<1> QED
  BY <1>1, OtherFields DEF Fields

LEMMA RecoverySteady ==
    ASSUME NEW v, IsView(v), ViewAgrees(v), NEW w, w = StartRecovery(v)
    PROVE  Steady(v, w)
<1>1. CASE v.confirmation = Null \/ v.confirming # Null \/ v.recovering
  BY <1>1, SteadyItself DEF StartRecovery
<1>2. CASE ~(v.confirmation = Null \/ v.confirming # Null \/ v.recovering)
  <2>1. w = [v EXCEPT !.recovering = TRUE] /\ DOMAIN v = Fields
    BY <1>2 DEF StartRecovery, IsView
  <2>2. /\ DOMAIN w = Fields /\ w.import = v.import /\ w.held = v.held /\ w.draft = v.draft
        /\ w.selected = v.selected /\ w.kept = v.kept /\ w.confirmation = v.confirmation
        /\ w.confirming = v.confirming /\ w.recovering = TRUE
    BY <2>1 DEF Fields
  <2> QED
    BY <1>2, <2>2 DEF Steady, Stands, IsView, ViewAgrees
<1> QED
  BY <1>1, <1>2

LEMMA DefaultIsImport ==
    \A found \in SUBSET Imports : DefaultOf(found) \in found \cup {Null}
<1> SUFFICES ASSUME NEW found \in SUBSET Imports PROVE DefaultOf(found) \in found \cup {Null}
  OBVIOUS
<1>1. CASE found = {}
  BY <1>1 DEF DefaultOf
<1>2. CASE found # {}
  <2>1. (CHOOSE i \in found : TRUE) \in found
    BY <1>2
  <2> QED
    BY <1>2, <2>1, EditorAssumption DEF DefaultOf
<1> QED
  BY <1>1, <1>2

LEMMA AdoptSteady ==
    ASSUME NEW v, IsView(v), ViewAgrees(v), NEW s, NEW w, w = Adopt(v, s)
    PROVE  Steady(v, w)
<1> DEFINE listed == [v.listed EXCEPT ![s.import] = IF s.pending > 0 THEN "pending" ELSE "decided"]
           known == IF v.listed[s.import] = "unlisted" THEN v ELSE [v EXCEPT !.listed = listed]
           base == [known EXCEPT !.session = s]
           to == DefaultOf(WithPending(known))
           moved == Present(base, to)
<1>1. w = IF s.import # v.import THEN known
          ELSE IF s.pending > 0 THEN base
          ELSE IF v.confirmation # Null /\ attempt[v.confirmation].import = s.import
          THEN StartRecovery(moved) ELSE moved
  BY DEF Adopt
<1> HIDE DEF listed
<1>2. Steady(v, known)
  <2>1. DOMAIN v = Fields
    BY DEF IsView
  <2>2. Steady(v, [v EXCEPT !.listed = listed])
    BY <2>1, OtherFields DEF Fields
  <2> QED
    BY <2>2, SteadyItself
<1> HIDE DEF known
<1>3. Steady(v, base)
  <2>1. IsView(known) /\ ViewAgrees(known) /\ DOMAIN known = Fields
    BY <1>2 DEF Steady, Stands, IsView
  <2>2. Steady(known, base)
    BY <2>1, OtherFields DEF Fields
  <2> QED
    BY <1>2, <2>2, SteadyOn
<1> HIDE DEF base
<1>4. to \in Imports \cup {Null}
  BY DefaultIsImport DEF WithPending
<1> HIDE DEF to
<1>5. Steady(v, moved)
  <2>1. IsView(base) /\ ViewAgrees(base)
    BY <1>3 DEF Steady, Stands
  <2>2. Steady(base, moved)
    BY <1>4, <2>1, PresentSteady
  <2> QED
    BY <1>3, <2>2, SteadyOn
<1> HIDE DEF moved
<1>6. Steady(v, StartRecovery(moved))
  <2>1. IsView(moved) /\ ViewAgrees(moved)
    BY <1>5 DEF Steady, Stands
  <2>2. Steady(moved, StartRecovery(moved))
    BY <2>1, RecoverySteady
  <2> QED
    BY <1>5, <2>2, SteadyOn
<1> QED
  BY <1>1, <1>2, <1>3, <1>5, <1>6

LEMMA AfterReadSteady ==
    ASSUME NEW v, IsView(v), ViewAgrees(v), NEW then, NEW w, w = AfterRead(v, then)
    PROVE  Steady(v, w)
<1>1. DefaultOf(Listed(v)) \in Imports \cup {Null} /\ v.import \in Imports \cup {Null}
  BY DefaultIsImport DEF Listed, IsView
<1>2. \/ w = v \/ w = Refresh(v) \/ \E i \in Imports \cup {Null} : w = Present(v, i)
  BY <1>1 DEF AfterRead
<1> QED
  BY <1>2, SteadyItself, RefreshSteady, PresentSteady

LEMMA RecordsHeld ==
    ASSUME row \in [Entries -> Rows], NEW i
    PROVE  /\ RecordsOf(i) \in [Entries -> HeldRecords \cup {Null}]
           /\ \A e \in Entries : RecordsOf(i)[e] # Null => ImportOf[e] = i
BY DEF RecordsOf, PendingIn, HeldRecords, Rows

LEMMA ObserveSteady ==
    ASSUME PageInv, NEW w, w = Observe(view, SessionOf(view.import), RecordsOf(view.import))
    PROVE  Steady(view, w)
<1> DEFINE records == RecordsOf(view.import)
           kept == [e \in Entries |->
                        IF e \notin view.selected THEN 0
                        ELSE IF view.kept[e] = 0 /\ records[e] # Null THEN records[e].revision
                        ELSE view.kept[e]]
           read == [view EXCEPT !.listing = FALSE, !.held = records, !.kept = kept]
           s == SessionOf(view.import)
<1>1. w = Adopt(read, s)
  BY DEF Observe
<1>2. /\ records \in [Entries -> HeldRecords \cup {Null}]
      /\ \A e \in Entries : records[e] # Null => ImportOf[e] = view.import
  BY RecordsHeld DEF PageInv, PageTypes
<1>3. IsView(view) /\ ViewAgrees(view) /\ DOMAIN view = Fields
  BY DEF PageInv, PageTypes, IsView
<1>4. kept \in [Entries -> Nat]
  <2>1. ASSUME NEW e \in Entries PROVE kept[e] \in Nat
    <3>1. view.kept[e] \in Nat
      BY <1>3 DEF IsView
    <3>2. records[e] # Null => records[e].revision \in Nat
      BY <1>2 DEF HeldRecords
    <3> QED
      BY <3>1, <3>2
  <2> QED
    BY <2>1
<1> HIDE DEF records, kept, s
<1>5. /\ DOMAIN read = Fields /\ read.import = view.import /\ read.held = records
      /\ read.kept = kept /\ read.draft = view.draft /\ read.selected = view.selected
      /\ read.confirmation = view.confirmation /\ read.confirming = view.confirming
      /\ read.recovering = view.recovering
  BY <1>3 DEF Fields
<1> HIDE DEF read
<1>6. Steady(view, read)
  BY <1>2, <1>3, <1>4, <1>5 DEF Steady, Stands, IsView, ViewAgrees
<1>7. Steady(view, Adopt(read, s))
  <2>1. IsView(read) /\ ViewAgrees(read)
    BY <1>6 DEF Steady, Stands
  <2>2. Steady(read, Adopt(read, s))
    BY <2>1, AdoptSteady
  <2> QED
    BY <1>6, <2>2, SteadyOn
<1> QED
  BY <1>1, <1>6, <1>7

--------
(* Steps that concern no confirmation.                                     *)

\* What is decided stays so.
Decided == \A e \in Entries :
    row[e].state \in {"confirmed", "discarded"} => row'[e].state = row[e].state

LEMMA ViewStep ==
    ASSUME PageInv, UNCHANGED <<attempt, visit>>, Decided, row' \in [Entries -> Rows],
           saved \subseteq saved', Stands(view, view'),
           \A r \in requests' : r \in requests \/ (IsRequest(r) /\ Told(r, row', saved'))
    PROVE  PageInv'
<1>1. PageTypes'
  BY DEF PageInv, PageTypes, Stands, IsView, Remaining
<1>2. ViewAgrees(view)'
  BY DEF Stands, ViewAgrees
<1>3. ASSUME NEW r \in requests' PROVE RequestAgrees(r)'
  <2>1. CASE r \in requests
    BY <2>1 DEF PageInv, PageTypes, IsRequest, RequestAgrees, Told, Decided
  <2> QED
    BY <1>3, <2>1 DEF RequestAgrees
<1>4. ASSUME NEW o \in Attempts, attempt'[o] # Null PROVE AttemptAgrees(attempt[o])'
  <2>1. attempt'[o] = attempt[o] /\ AttemptAgrees(attempt[o]) /\ attempt[o] \in AttemptRecords
    BY <1>4 DEF PageInv, PageTypes
  <2>2. attempt[o].entries \subseteq Entries
    BY <2>1 DEF AttemptRecords
  <2> QED
    BY <2>1, <2>2 DEF AttemptAgrees, Decided
<1>5. (view.confirmation # Null => attempt[view.confirmation] # Null)'
      /\ (~visit.open => view.confirmation = Null)'
  BY DEF PageInv, Stands
<1>6. OneOutstanding'
  BY DEF PageInv, Stands, OneOutstanding, Retained
<1> QED
  BY <1>1, <1>2, <1>3, <1>4, <1>5, <1>6 DEF PageInv

\* What a step says of the drafts it takes away.
DraftsKept == \A e \in Entries : view.draft[e] # Null /\ view'.draft[e] = Null =>
    \/ <<e, view.draft[e]>> \in saved
    \/ row[e].state \notin {"absent", "pending"}
    \/ \E r \in requests \ requests' :
          r.kind = "discard-import" /\ r.target = ImportOf[e] /\ r.outcome = "committed"
    \/ /\ view.before[e] = {} /\ Cardinality(Drafted(view)) >= DraftWindow
       /\ \E f \in Entries : view.draft[f] = Null /\ view'.draft[f] # Null

LEMMA SteadyStep ==
    ASSUME PageInv, UNCHANGED <<attempt, visit>>, Decided, row' \in [Entries -> Rows],
           saved \subseteq saved', Steady(view, view'),
           \A r \in requests' : r \in requests \/ (IsRequest(r) /\ Told(r, row', saved'))
    PROVE  PageInv' /\ DraftsKept
BY ViewStep DEF Steady, DraftsKept

LEMMA StillDecided == ASSUME PageInv, UNCHANGED row PROVE Decided /\ row' \in [Entries -> Rows]
BY DEF Decided, PageInv, PageTypes

LEMMA ViewTypes == PageInv => IsView(view) /\ ViewAgrees(view) /\ DOMAIN view = Fields
BY DEF PageInv, PageTypes, IsView

LEMMA ServeSessionsStep ==
    ASSUME PageInv, NEW n, ServeSessions(n) PROVE PageInv' /\ DraftsKept
<1> DEFINE reads == [view.reads EXCEPT ![n].found = ListedSessions]
<1>1. view' = [view EXCEPT !.reads = reads] /\ UNCHANGED <<row, attempt, visit, requests, saved>>
  BY DEF ServeSessions
<1> HIDE DEF reads
<1>2. Steady(view, view')
  BY <1>1, ViewTypes, OtherFields DEF Fields
<1> QED
  BY <1>1, <1>2, StillDecided, SteadyStep

LEMMA SettleSessionsStep ==
    ASSUME PageInv, NEW n, SettleSessions(n) PROVE PageInv' /\ DraftsKept
<1> DEFINE read == view.reads[n]
           reads == RemoveAt(view.reads, n)
           rest == [view EXCEPT !.reads = reads]
           newer == [rest EXCEPT !.listed = read.found]
<1>1. /\ \/ view' = AfterRead(newer, read.then) \/ view' = AfterRead(rest, read.then)
      /\ UNCHANGED <<row, attempt, visit, requests, saved>>
  BY DEF SettleSessions
<1> HIDE DEF reads, read
<1>2. Steady(view, rest) /\ DOMAIN rest = Fields
  BY ViewTypes, OtherFields DEF Fields
<1>3. IsView(rest) /\ ViewAgrees(rest)
  BY <1>2 DEF Steady, Stands
<1> HIDE DEF rest
<1>4. Steady(rest, newer)
  BY <1>2, <1>3, OtherFields DEF Fields
<1>5. IsView(newer) /\ ViewAgrees(newer) /\ Steady(view, newer)
  BY <1>2, <1>4, SteadyOn DEF Steady, Stands
<1> HIDE DEF newer
<1>6. Steady(view, AfterRead(newer, read.then)) /\ Steady(view, AfterRead(rest, read.then))
  BY <1>2, <1>3, <1>5, AfterReadSteady, SteadyOn
<1> QED
  BY <1>1, <1>6, StillDecided, SteadyStep

LEMMA ReadEntriesStep == ASSUME PageInv, ReadEntries PROVE PageInv' /\ DraftsKept
<1>1. /\ view' = Observe(view, SessionOf(view.import), RecordsOf(view.import))
      /\ UNCHANGED <<row, attempt, visit, requests, saved>>
  BY DEF ReadEntries
<1> QED
  BY <1>1, ObserveSteady, StillDecided, SteadyStep

LEMMA ChooseImportStep ==
    ASSUME PageInv, NEW i \in Imports, ChooseImport(i) PROVE PageInv' /\ DraftsKept
<1>1. view' = Present(view, i) /\ UNCHANGED <<row, attempt, visit, requests, saved>>
  BY DEF ChooseImport
<1> QED
  BY <1>1, ViewTypes, PresentSteady, StillDecided, SteadyStep

LEMMA ReconcileStep == ASSUME PageInv, Reconcile PROVE PageInv' /\ DraftsKept
<1>1. view' = ReadSessions(view, "refresh") /\ UNCHANGED <<row, attempt, visit, requests, saved>>
  BY DEF Reconcile
<1> QED
  BY <1>1, ViewTypes, ReadSessionsSteady, StillDecided, SteadyStep

LEMMA RecoverStep == ASSUME PageInv, RecoverConfirmation PROVE PageInv' /\ DraftsKept
<1>1. view' = StartRecovery(view) /\ UNCHANGED <<row, attempt, visit, requests, saved>>
  BY DEF RecoverConfirmation
<1> QED
  BY <1>1, ViewTypes, RecoverySteady, StillDecided, SteadyStep

LEMMA SetSelectedStep ==
    ASSUME PageInv, NEW e \in Entries, SetSelected(e) PROVE PageInv' /\ DraftsKept
<1>1. /\ view.held[e] # Null /\ UNCHANGED <<row, attempt, visit, requests, saved>>
      /\ view' = IF e \in view.selected
                 THEN [view EXCEPT !.selected = @ \ {e}, !.kept = [@ EXCEPT ![e] = 0]]
                 ELSE [view EXCEPT !.selected = @ \cup {e},
                                   !.kept = [@ EXCEPT ![e] = view.held[e].revision]]
  BY DEF SetSelected
<1>2. view.held[e].revision \in Nat
  BY <1>1, ViewTypes DEF IsView, HeldRecords
<1>3. PICK chosen, kept :
          /\ chosen \subseteq Entries /\ kept \in [Entries -> Nat]
          /\ view' = [view EXCEPT !.selected = chosen, !.kept = kept]
  <2>1. CASE e \in view.selected
    <3> DEFINE chosen == view.selected \ {e}
               kept == [view.kept EXCEPT ![e] = 0]
    <3>1. chosen \subseteq Entries /\ kept \in [Entries -> Nat]
      BY ViewTypes DEF IsView
    <3>2. view' = [view EXCEPT !.selected = chosen, !.kept = kept]
      BY <1>1, <2>1
    <3> QED
      BY <3>1, <3>2
  <2>2. CASE e \notin view.selected
    <3> DEFINE chosen == view.selected \cup {e}
               kept == [view.kept EXCEPT ![e] = view.held[e].revision]
    <3>1. chosen \subseteq Entries /\ kept \in [Entries -> Nat]
      BY <1>2, ViewTypes DEF IsView
    <3>2. view' = [view EXCEPT !.selected = chosen, !.kept = kept]
      BY <1>1, <2>2
    <3> QED
      BY <3>1, <3>2
  <2> QED
    BY <2>1, <2>2
<1>4. /\ DOMAIN view' = Fields /\ view'.import = view.import /\ view'.held = view.held
      /\ view'.draft = view.draft /\ view'.selected = chosen /\ view'.kept = kept
      /\ view'.confirmation = view.confirmation /\ view'.confirming = view.confirming
      /\ view'.recovering = view.recovering
  BY <1>3, ViewTypes DEF Fields
<1>5. Steady(view, view')
  BY <1>3, <1>4, ViewTypes DEF Steady, Stands, IsView, ViewAgrees
<1> QED
  BY <1>1, <1>5, StillDecided, SteadyStep

\* A view whose drafts alone differ.
DraftsAlone(v, w) ==
    /\ DOMAIN w = Fields /\ w.import = v.import /\ w.held = v.held
    /\ w.session = v.session /\ w.listed = v.listed /\ w.listing = v.listing
    /\ w.reads = v.reads /\ w.selected = v.selected /\ w.kept = v.kept
    /\ w.confirmation = v.confirmation /\ w.confirming = v.confirming
    /\ w.recovering = v.recovering

\* What is left of the drafts when some are dropped.
DraftsLeft(v, S) == [e \in Entries |-> IF e \in S THEN Null ELSE v.draft[e]]

LEMMA DroppedAlone ==
    ASSUME NEW v, DOMAIN v = Fields, NEW S, NEW w, w = Dropped(v, S)
    PROVE  DraftsAlone(v, w) /\ w.draft = DraftsLeft(v, S)
<1> DEFINE draft == DraftsLeft(v, S)
           before == [e \in Entries |-> IF e \in S THEN {} ELSE v.before[e] \ S]
<1>1. w = [v EXCEPT !.draft = draft, !.before = before]
  BY DEF Dropped, DraftsLeft
<1> HIDE DEF draft, before
<1>2. DraftsAlone(v, w) /\ w.draft = draft
  BY <1>1 DEF DraftsAlone, Fields
<1> QED
  BY <1>2 DEF draft

LEMMA DraftsAloneStand ==
    ASSUME NEW v, IsView(v), ViewAgrees(v), NEW w, DraftsAlone(v, w),
           w.draft \in [Entries -> Values \cup {Null}]
    PROVE  Stands(v, w)
BY DEF DraftsAlone, Stands, IsView, ViewAgrees

LEMMA DraftsDropped ==
    ASSUME NEW v, IsView(v), ViewAgrees(v), NEW S, NEW w, w = Dropped(v, S)
    PROVE  /\ Stands(v, w) /\ DraftsAlone(v, w)
           /\ \A e \in Entries : w.draft[e] = IF e \in S THEN Null ELSE v.draft[e]
<1>1. DraftsAlone(v, w) /\ w.draft = DraftsLeft(v, S)
  BY DroppedAlone DEF IsView
<1>2. DraftsLeft(v, S) \in [Entries -> Values \cup {Null}]
  BY DEF DraftsLeft, IsView
<1> QED
  BY <1>1, <1>2, DraftsAloneStand DEF DraftsLeft

\* Typing takes away no draft, unless of a full window the oldest.
LEMMA EditsAlone ==
    ASSUME PageInv, NEW e \in Entries, NEW value \in Values, Edit(e, value)
    PROVE  /\ DraftsAlone(view, view')
           /\ view'.draft \in [Entries -> Values \cup {Null}] /\ view'.draft[e] = value
           /\ \A f \in Entries \ {e} :
                 \/ view'.draft[f] = view.draft[f]
                 \/ /\ view.draft[e] = Null /\ f \in Oldest(view)
                    /\ Cardinality(Drafted(view)) >= DraftWindow
<1> DEFINE full == Cardinality(Drafted(view)) >= DraftWindow
           dropped == Dropped(view, Oldest(view))
           room == IF full THEN dropped ELSE view
           base == DraftFor(view, e)
<1>1. IsView(view) /\ ViewAgrees(view) /\ view' = [base EXCEPT !.draft[e] = value]
  BY ViewTypes DEF Edit
<1>2. base = IF view.draft[e] # Null THEN view ELSE [room EXCEPT !.before[e] = Drafted(room)]
  BY DEF DraftFor
<1>3. /\ DraftsAlone(view, dropped) /\ dropped.draft \in [Entries -> Values \cup {Null}]
      /\ \A f \in Entries : dropped.draft[f] = view.draft[f] \/ f \in Oldest(view)
  BY <1>1, DraftsDropped DEF Stands, IsView
<1> HIDE DEF dropped, full
<1>4. DraftsAlone(view, view)
  BY <1>1 DEF DraftsAlone, IsView
<1>5. /\ DraftsAlone(view, room) /\ room.draft \in [Entries -> Values \cup {Null}]
      /\ \A f \in Entries : room.draft[f] = view.draft[f] \/ (full /\ f \in Oldest(view))
  BY <1>1, <1>3, <1>4 DEF IsView
<1> HIDE DEF room, base
<1>6. /\ DraftsAlone(view, base) /\ base.draft \in [Entries -> Values \cup {Null}]
      /\ \A f \in Entries :
            base.draft[f] = view.draft[f]
            \/ (view.draft[e] = Null /\ full /\ f \in Oldest(view))
  <2>1. CASE view.draft[e] # Null
    BY <1>1, <1>2, <1>4, <2>1 DEF IsView
  <2>2. CASE view.draft[e] = Null
    <3>1. base = [room EXCEPT !.before = [@ EXCEPT ![e] = Drafted(room)]]
      BY <1>2, <2>2
    <3>2. PICK before : base = [room EXCEPT !.before = before]
      BY <3>1
    <3>3. DraftsAlone(view, base) /\ base.draft = room.draft
      BY <1>5, <3>2 DEF DraftsAlone, Fields
    <3> QED
      BY <1>5, <2>2, <3>3
  <2> QED
    BY <2>1, <2>2
<1>7. PICK draft : draft = [base.draft EXCEPT ![e] = value]
  OBVIOUS
<1>8. view' = [base EXCEPT !.draft = draft]
  BY <1>1, <1>7
<1>9. DraftsAlone(view, view') /\ view'.draft = draft
  BY <1>6, <1>8 DEF DraftsAlone, Fields
<1>10. draft \in [Entries -> Values \cup {Null}] /\ draft[e] = value
       /\ \A f \in Entries \ {e} : draft[f] = base.draft[f]
  BY <1>6, <1>7
<1> QED
  BY <1>6, <1>9, <1>10 DEF full

LEMMA EditStep ==
    ASSUME PageInv, NEW e \in Entries, NEW value \in Values, Edit(e, value)
    PROVE  PageInv' /\ DraftsKept
<1>1. UNCHANGED <<row, attempt, visit, requests, saved>>
  BY DEF Edit
<1>2. Stands(view, view')
  BY EditsAlone, ViewTypes, DraftsAloneStand
<1>3. DraftsKept
  <2>1. view'.draft[e] # Null
    BY EditsAlone, NullAssumption
  <2>2. ASSUME NEW f \in Entries, view.draft[f] # Null, view'.draft[f] = Null
        PROVE  /\ view.before[f] = {} /\ Cardinality(Drafted(view)) >= DraftWindow
               /\ view.draft[e] = Null
    BY <2>1, <2>2, EditsAlone DEF Oldest
  <2> QED
    BY <2>1, <2>2 DEF DraftsKept
<1> QED
  BY <1>1, <1>2, <1>3, StillDecided, ViewStep

LEMMA RequestStep ==
    ASSUME PageInv, NEW kind \in {"review", "discard", "discard-import"}, NEW target,
           NEW revision, NEW value, Request(kind, target, revision, value),
           kind # "discard-import" => target \in Entries, kind = "review" => value \in Values
    PROVE  PageInv' /\ DraftsKept
<1> DEFINE new == [kind |-> kind, target |-> target, revision |-> revision, value |-> value,
                   visit |-> visit.number, outcome |-> Null, session |-> Null]
<1>1. requests' = requests \cup {new} /\ UNCHANGED <<row, attempt, view, visit, saved>>
  BY DEF Request
<1>2. /\ DOMAIN new = RequestFields /\ new.kind = kind /\ new.target = target
      /\ new.value = value /\ new.outcome = Null
  BY DEF RequestFields
<1> HIDE DEF new
<1>3. IsRequest(new)
  BY <1>2 DEF IsRequest
<1>4. Told(new, row', saved')
  BY <1>2, NullAssumption DEF RequestAgrees, Told
<1>5. Steady(view, view')
  BY <1>1, ViewTypes, SteadyItself
<1>6. \A r \in requests' : r \in requests \/ (IsRequest(r) /\ Told(r, row', saved'))
  BY <1>1, <1>3, <1>4
<1> QED
  BY <1>1, <1>5, <1>6, StillDecided, SteadyStep

LEMMA SaveReviewStep ==
    ASSUME PageInv, NEW e \in Entries, SaveReview(e) PROVE PageInv' /\ DraftsKept
<1>1. view.held[e] # Null /\ Request("review", e, view.held[e].revision, PresentedValue(view, e))
  BY DEF SaveReview
<1>2. PresentedValue(view, e) \in Values
  BY <1>1, ViewTypes DEF PresentedValue, IsView, HeldRecords
<1> QED
  BY <1>1, <1>2, RequestStep

LEMMA RemoveEntryStep ==
    ASSUME PageInv, NEW e \in Entries, RemoveEntry(e) PROVE PageInv' /\ DraftsKept
<1>1. Request("discard", e, view.held[e].revision, Null)
  BY DEF RemoveEntry
<1> QED
  BY <1>1, RequestStep

LEMMA DiscardImportStep == ASSUME PageInv, DiscardImport PROVE PageInv' /\ DraftsKept
<1>1. Request("discard-import", view.import, view.session.revision, Null)
  BY DEF DiscardImport
<1> QED
  BY <1>1, RequestStep

LEMMA ChangedRow ==
    ASSUME row \in [Entries -> Rows], NEW e \in Entries,
           NEW state \in {"absent", "pending", "confirmed", "discarded"}, NEW value \in Values
    PROVE  Changed(e, state, value) \in Rows /\ Changed(e, state, value).state = state
BY DEF Changed, Rows

LEMMA ServeStep ==
    ASSUME PageInv, NEW r \in requests, Serve(r) PROVE PageInv' /\ DraftsKept
<1> DEFINE whole == r.kind = "discard-import"
           named == IF whole THEN PendingIn(r.target) ELSE {r.target}
           i == IF whole THEN r.target ELSE ImportOf[r.target]
           commits == IF whole THEN SessionOf(i).revision = r.revision
                      ELSE Quoted(r.target, r.revision)
           rows == [e \in Entries |->
                    IF e \notin named THEN row[e]
                    ELSE IF r.kind = "review" THEN Changed(e, "pending", r.value)
                    ELSE Changed(e, "discarded", row[e].value)]
           written == saved \cup IF r.kind = "review" THEN {<<r.target, r.value>>} ELSE {}
           answer(outcome) == [r EXCEPT !.outcome = outcome,
                                 !.session = IF outcome = "committed" THEN SessionOf(i)' ELSE Null]
           answered(outcome) == requests' = (requests \ {r}) \cup {answer(outcome)}
<1>1. UNCHANGED <<attempt, view, visit>>
  BY DEF Serve
<1>2. \/ /\ commits /\ row' = rows /\ saved' = written
         /\ \E outcome \in {"committed", "unknown"} : answered(outcome)
      \/ /\ UNCHANGED <<row, saved>>
         /\ \E outcome \in {"conflict", "failed", "unknown"} : answered(outcome)
  BY DEF Serve
<1>3. IsRequest(r) /\ row \in [Entries -> Rows]
  BY DEF PageInv, PageTypes
<1>4. ASSUME NEW outcome
      PROVE  IsRequest(answer(outcome)) /\ answer(outcome).outcome = outcome
             /\ answer(outcome).kind = r.kind /\ answer(outcome).target = r.target
             /\ answer(outcome).value = r.value
  BY <1>3 DEF IsRequest, RequestFields
<1> HIDE DEF answer
<1>5. Steady(view, view')
  BY <1>1, ViewTypes, SteadyItself
<1>6. CASE UNCHANGED <<row, saved>>
           /\ \E outcome \in {"conflict", "failed", "unknown"} : answered(outcome)
  <2>1. PICK outcome \in {"conflict", "failed", "unknown"} : answered(outcome)
    BY <1>6
  <2>2. Told(answer(outcome), row', saved')
    BY <1>4 DEF RequestAgrees, Told
  <2>3. \A q \in requests' : q \in requests \/ (IsRequest(q) /\ Told(q, row', saved'))
    BY <1>4, <2>1, <2>2
  <2> QED
    BY <1>1, <1>5, <1>6, <2>3, StillDecided, SteadyStep
<1>7. CASE /\ commits /\ row' = rows /\ saved' = written
           /\ \E outcome \in {"committed", "unknown"} : answered(outcome)
  <2>1. PICK outcome \in {"committed", "unknown"} : answered(outcome)
    BY <1>7
  <2>2. \A e \in named : e \in Entries /\ row[e].state = "pending"
    BY <1>3, <1>7 DEF PendingIn, Quoted, IsRequest
  <2>3. /\ \A e \in Entries : rows[e] \in Rows
        /\ \A e \in Entries \ named : rows[e] = row[e]
        /\ ~whole /\ r.kind # "review" => rows[r.target].state = "discarded"
    <3>1. ASSUME NEW e \in Entries PROVE rows[e] \in Rows
      <4>1. row[e] \in Rows /\ row[e].value \in Values
        BY <1>3 DEF Rows
      <4>2. r.kind = "review" => r.value \in Values
        BY <1>3 DEF IsRequest
      <4> HIDE DEF named
      <4> QED
        BY <1>3, <4>1, <4>2, ChangedRow
    <3>2. ASSUME ~whole, r.kind # "review" PROVE rows[r.target].state = "discarded"
      <4>1. r.target \in Entries
        BY <1>3, <3>2 DEF IsRequest
      <4>2. row[r.target].value \in Values
        BY <1>3, <4>1 DEF Rows
      <4>3. rows[r.target] = Changed(r.target, "discarded", row[r.target].value)
        BY <3>2, <4>1
      <4> HIDE DEF rows
      <4> QED
        BY <1>3, <4>1, <4>2, <4>3, ChangedRow
    <3> HIDE DEF named, whole
    <3> QED
      BY <3>1, <3>2
  <2>4. row' \in [Entries -> Rows]
    <3> HIDE DEF named, whole
    <3>1. \A e \in Entries : rows[e] \in Rows
      BY <2>3
    <3>2. rows = [e \in Entries |-> rows[e]]
      OBVIOUS
    <3> HIDE DEF rows
    <3> QED
      BY <1>7, <3>1, <3>2
  <2> HIDE DEF named, rows
  <2>5. Decided
    <3>1. ASSUME NEW e \in Entries, row[e].state \in {"confirmed", "discarded"}
          PROVE  row'[e].state = row[e].state
      <4>1. e \notin named
        BY <2>2, <3>1
      <4> QED
        BY <1>7, <2>3, <4>1
    <3> QED
      BY <3>1 DEF Decided
  <2>6. Told(answer(outcome), row', saved')
    BY <1>3, <1>4, <1>7, <2>3 DEF RequestAgrees, Told, IsRequest
  <2>7. \A q \in requests' : q \in requests \/ (IsRequest(q) /\ Told(q, row', saved'))
    BY <1>4, <2>1, <2>6
  <2>8. saved \subseteq saved'
    BY <1>7
  <2> QED
    BY <1>1, <1>5, <2>4, <2>5, <2>7, <2>8, SteadyStep
<1> QED
  BY <1>2, <1>6, <1>7

LEMMA FinishStep ==
    ASSUME PageInv, NEW r \in requests, Finish(r) PROVE PageInv' /\ DraftsKept
<1> DEFINE i == IF r.kind = "discard-import" THEN r.target ELSE ImportOf[r.target]
           told == IF r.outcome = "committed" /\ visit.open THEN Notified(view, i) ELSE view
<1>1. /\ requests' = requests \ {r} /\ UNCHANGED <<row, attempt, visit, saved>>
      /\ view' = IF ~Live(r.visit) THEN told
                 ELSE IF r.kind = "review" THEN FinishReview(told, r)
                 ELSE IF r.kind = "discard" THEN FinishRemove(told, r)
                 ELSE FinishDiscard(told, r)
  BY DEF Finish
<1>2. IsRequest(r) /\ RequestAgrees(r) /\ r \in requests \ requests'
  BY <1>1 DEF PageInv, PageTypes
<1>3. Steady(view, told)
  BY ViewTypes, NotifiedSteady, SteadyItself
<1> HIDE DEF told
<1>4. IsView(told) /\ ViewAgrees(told) /\ told.draft = view.draft
  BY <1>3 DEF Steady, Stands
<1> DEFINE Lost(v) == \A e \in Entries : view.draft[e] # Null /\ v.draft[e] = Null =>
               \/ <<e, view.draft[e]>> \in saved
               \/ row[e].state \notin {"absent", "pending"}
               \/ r.kind = "discard-import" /\ r.target = ImportOf[e] /\ r.outcome = "committed"
           Good(v) == Stands(view, v) /\ Lost(v)
<1>5. ASSUME NEW v, Steady(told, v) PROVE Good(v)
  BY <1>3, <1>5 DEF Steady, Stands
<1>6. ASSUME NEW v, IsView(v), ViewAgrees(v), NEW w, Steady(v, w), Good(v) PROVE Good(w)
  BY <1>6 DEF Steady, Stands
<1>7. ASSUME NEW then PROVE Good(ReadSessions(told, then))
  BY <1>4, <1>5, ReadSessionsSteady
<1>8. ASSUME ~Live(r.visit) PROVE Good(view')
  BY <1>1, <1>4, <1>5, <1>8, SteadyItself
<1>9. ASSUME Live(r.visit), r.kind = "review" PROVE Good(view')
  <2> DEFINE cleared == IF told.draft[r.target] # r.value THEN told
                        ELSE Dropped(told, {r.target})
  <2>1. view' = IF told.held[r.target] = Null THEN told
                ELSE IF r.outcome = "committed" THEN Adopt(cleared, r.session)
                ELSE IF r.outcome = "failed" THEN told
                ELSE ReadSessions(told, "refresh")
    BY <1>1, <1>9 DEF FinishReview
  <2>3. /\ Stands(told, cleared)
        /\ \A e \in Entries : cleared.draft[e] = told.draft[e]
                               \/ (e = r.target /\ told.draft[e] = r.value)
    BY <1>4, DraftsDropped, SteadyItself DEF Steady
  <2> HIDE DEF cleared
  <2>5. IsView(cleared) /\ ViewAgrees(cleared) /\ Stands(view, cleared)
    BY <1>3, <2>3 DEF Steady, Stands
  <2>6. CASE r.outcome = "committed"
    <3>1. <<r.target, r.value>> \in saved
      BY <1>2, <1>9, <2>6 DEF RequestAgrees, Told
    <3>2. Lost(cleared)
      BY <1>4, <2>3, <3>1
    <3>3. Good(Adopt(cleared, r.session))
      BY <1>6, <2>5, <3>2, AdoptSteady
    <3> QED
      BY <1>4, <1>5, <2>1, <2>6, <3>3, SteadyItself
  <2>7. CASE r.outcome # "committed"
    BY <1>4, <1>5, <1>7, <2>1, <2>7, SteadyItself
  <2> QED
    BY <2>6, <2>7
<1>10. ASSUME Live(r.visit), r.kind = "discard" PROVE Good(view')
  <2> DEFINE cleared == Dropped(told, {r.target})
  <2>1. view' = IF r.outcome = "committed" THEN ReadSessions(cleared, "keep")
                ELSE ReadSessions(told, "refresh")
    BY <1>1, <1>10 DEF FinishRemove
  <2>3. /\ Stands(told, cleared)
        /\ \A e \in Entries : cleared.draft[e] = told.draft[e] \/ e = r.target
    BY <1>4, DraftsDropped
  <2> HIDE DEF cleared
  <2>5. IsView(cleared) /\ ViewAgrees(cleared) /\ Stands(view, cleared)
    BY <1>3, <2>3 DEF Steady, Stands
  <2>6. CASE r.outcome = "committed"
    <3>1. row[r.target].state = "discarded"
      BY <1>2, <1>10, <2>6 DEF RequestAgrees, Told
    <3>2. Lost(cleared)
      BY <1>4, <2>3, <3>1
    <3> QED
      BY <1>6, <2>1, <2>5, <2>6, <3>2, ReadSessionsSteady
  <2>7. CASE r.outcome # "committed"
    BY <1>7, <2>1, <2>7
  <2> QED
    BY <2>6, <2>7
<1>11. ASSUME Live(r.visit), r.kind = "discard-import" PROVE Good(view')
  <2> DEFINE dropped == Dropped(told, {e \in Entries : told.held[e] # Null})
             cleared == [dropped EXCEPT !.kept = Unread]
  <2>1. view' = IF r.outcome # "committed" THEN ReadSessions(told, "refresh")
                ELSE IF r.target # told.import THEN ReadSessions(told, "keep")
                ELSE ReadSessions(cleared, "keep")
    BY <1>1, <1>11 DEF FinishDiscard
  <2>2. /\ DraftsAlone(told, dropped) /\ dropped.draft \in [Entries -> Values \cup {Null}]
        /\ \A e \in Entries : dropped.draft[e] = told.draft[e] \/ ImportOf[e] = told.import
    BY <1>4, DraftsDropped DEF Stands, IsView, ViewAgrees
  <2> HIDE DEF dropped
  <2>3. /\ Stands(told, cleared)
        /\ \A e \in Entries : cleared.draft[e] = told.draft[e] \/ ImportOf[e] = told.import
    <3>1. /\ DOMAIN cleared = Fields /\ cleared.import = told.import /\ cleared.held = told.held
          /\ cleared.draft = dropped.draft /\ cleared.selected = told.selected
          /\ cleared.kept = Unread /\ cleared.confirmation = told.confirmation
          /\ cleared.confirming = told.confirming /\ cleared.recovering = told.recovering
      BY <2>2 DEF DraftsAlone, Fields
    <3> HIDE DEF cleared
    <3> QED
      BY <1>4, <2>2, <3>1, NothingHeld DEF Stands, IsView, ViewAgrees
  <2> HIDE DEF cleared
  <2>5. IsView(cleared) /\ ViewAgrees(cleared) /\ Stands(view, cleared)
    BY <1>3, <2>3 DEF Steady, Stands
  <2>6. CASE r.outcome = "committed" /\ r.target = told.import
    <3>1. Lost(cleared)
      BY <1>4, <1>11, <2>3, <2>6
    <3> QED
      BY <1>6, <2>1, <2>5, <2>6, <3>1, ReadSessionsSteady
  <2>7. CASE ~(r.outcome = "committed" /\ r.target = told.import)
    BY <1>7, <2>1, <2>7
  <2> QED
    BY <2>6, <2>7
<1>12. Good(view')
  BY <1>2, <1>8, <1>9, <1>10, <1>11 DEF IsRequest
<1>13. DraftsKept
  BY <1>2, <1>12 DEF DraftsKept
<1> HIDE DEF Lost
<1> QED
  BY <1>1, <1>12, <1>13, StillDecided, ViewStep

--------
(* Steps of a confirmation, and of the view's mounting.                    *)

\* What remains to be shown of a step that concerns confirmations.
LEMMA ConfirmingStep ==
    ASSUME PageInv, UNCHANGED <<requests, saved>>, Decided, row' \in [Entries -> Rows],
           DOMAIN visit' = {"open", "number"}, visit'.open \in BOOLEAN,
           attempt' \in [Attempts -> AttemptRecords \cup {Null}],
           \A o \in Attempts : attempt'[o] # Null => AttemptAgrees(attempt[o])',
           IsView(view'), ViewAgrees(view'),
           view'.confirmation # Null => attempt'[view'.confirmation] # Null,
           ~visit'.open => view'.confirmation = Null,
           OneOutstanding'
    PROVE  PageInv'
<1>1. PageTypes'
  BY DEF PageInv, PageTypes, IsView, Remaining
<1>2. ViewAgrees(view)'
  BY DEF ViewAgrees
<1>3. ASSUME NEW r \in requests' PROVE RequestAgrees(r)'
  BY <1>3 DEF PageInv, PageTypes, IsRequest, RequestAgrees, Told, Decided
<1> QED
  BY <1>1, <1>2, <1>3 DEF PageInv

\* What is confirmed stays confirmed, whatever is told of it.
LEMMA StillAgrees ==
    ASSUME PageInv, Decided, NEW o \in Attempts, attempt[o] # Null, attempt'[o] # Null,
           attempt'[o].entries = attempt[o].entries, attempt'[o].quoted = attempt[o].quoted,
           attempt'[o].at = attempt[o].at
    PROVE  AttemptAgrees(attempt[o])'
<1>1. AttemptAgrees(attempt[o]) /\ attempt[o] \in AttemptRecords
  BY DEF PageInv, PageTypes
<1>2. attempt[o].entries \subseteq Entries
  BY <1>1 DEF AttemptRecords
<1> QED
  BY <1>1, <1>2 DEF AttemptAgrees, Decided

LEMMA ReviewStarts == ASSUME ReviewInit PROVE PageInv
<1>1. PICK staged \in Staged : row = [e \in Entries |->
         [state |-> IF e \in staged THEN "pending" ELSE "absent",
          revision |-> IF e \in staged THEN 1 ELSE 0, value |-> First]]
  BY DEF ReviewInit
<1>2. row \in [Entries -> Rows]
  BY <1>1, EditorAssumption DEF Rows
<1>3. attempt = [o \in Attempts |-> Null] /\ visit = [open |-> TRUE, number |-> 1]
      /\ view = ReadSessions(NewView, "present") /\ requests = {}
  BY DEF ReviewInit
<1>4. /\ DOMAIN NewView = Fields /\ NewView.import = Null /\ NewView.held = Nothing
      /\ NewView.draft = Nothing /\ NewView.selected = {} /\ NewView.kept = Unread
      /\ NewView.confirmation = Null /\ NewView.confirming = Null /\ NewView.recovering = FALSE
  BY DEF NewView, Fields
<1>5. IsView(NewView) /\ ViewAgrees(NewView)
  BY <1>4, NothingHeld DEF IsView, ViewAgrees, Remaining, Nothing
<1>6. Steady(NewView, view)
  BY <1>3, <1>5, ReadSessionsSteady
<1>7. IsView(view) /\ ViewAgrees(view) /\ view.confirmation = Null
  BY <1>4, <1>6 DEF Steady, Stands
<1> QED
  BY <1>2, <1>3, <1>7 DEF PageInv, PageTypes, OneOutstanding, Retained

\* The view that is mounted again finds the confirmation that is retained.
LEMMA ReturnStep == ASSUME PageInv, Return PROVE PageInv' /\ DraftsKept
<1> DEFINE o == RetainedConfirmation
           fresh == Refresh(view)
           base == [fresh EXCEPT !.confirmation = o]
<1>1. /\ ~visit.open /\ visit' = [open |-> TRUE, number |-> visit.number + 1]
      /\ view' = ReadSessions(StartRecovery(base), "present")
      /\ UNCHANGED <<row, attempt, requests, saved>>
  BY DEF Return, Mount
<1>2. /\ o \in Attempts \cup {Null} /\ (o # Null => Retained(o))
      /\ (\E p \in Attempts : Retained(p)) => o # Null
  <2>1. CASE \E p \in Attempts : Retained(p)
    <3>1. o \in Attempts /\ Retained(o)
      BY <2>1 DEF RetainedConfirmation
    <3> QED
      BY <3>1, NullAssumption
  <2>2. CASE ~\E p \in Attempts : Retained(p)
    BY <2>2 DEF RetainedConfirmation
  <2> QED
    BY <2>1, <2>2
<1> HIDE DEF o
<1>3. Steady(view, fresh)
  BY ViewTypes, RefreshSteady
<1> HIDE DEF fresh
<1>4. IsView(fresh) /\ ViewAgrees(fresh) /\ DOMAIN fresh = Fields
      /\ fresh.confirmation = Null /\ fresh.draft = view.draft
  BY <1>1, <1>3 DEF Steady, Stands, IsView, PageInv
<1>5. /\ DOMAIN base = Fields /\ base.import = fresh.import /\ base.held = fresh.held
      /\ base.draft = fresh.draft /\ base.selected = fresh.selected /\ base.kept = fresh.kept
      /\ base.confirmation = o /\ base.confirming = fresh.confirming
      /\ base.recovering = fresh.recovering
  BY <1>4 DEF Fields
<1> HIDE DEF base
<1>6. IsView(base) /\ ViewAgrees(base)
  BY <1>2, <1>4, <1>5 DEF IsView, ViewAgrees
<1>7. Steady(base, StartRecovery(base))
  BY <1>6, RecoverySteady
<1>8. Steady(StartRecovery(base), view')
  BY <1>1, <1>7, ReadSessionsSteady DEF Steady, Stands
<1>9. Steady(base, view')
  BY <1>7, <1>8, SteadyOn
<1>10. IsView(view') /\ ViewAgrees(view') /\ view'.confirmation = o /\ view'.draft = view.draft
  BY <1>4, <1>5, <1>9 DEF Steady, Stands
<1>11. OneOutstanding'
  <2>1. ASSUME NEW p \in Attempts, Retained(p) PROVE o = p /\ \A q \in Attempts : Retained(q) => q = p
    BY <1>2, <2>1 DEF PageInv, OneOutstanding
  <2> QED
    BY <1>1, <1>10, <2>1 DEF OneOutstanding, Retained
<1>12. \A p \in Attempts : attempt'[p] # Null => AttemptAgrees(attempt[p])'
  BY <1>1, StillAgrees, StillDecided
<1>13. view'.confirmation # Null => attempt'[view'.confirmation] # Null
  BY <1>1, <1>2, <1>10 DEF Retained
<1>14. attempt' \in [Attempts -> AttemptRecords \cup {Null}]
  BY <1>1 DEF PageInv, PageTypes
<1>15. DOMAIN visit' = {"open", "number"} /\ visit'.open = TRUE
  BY <1>1
<1>16. PageInv'
  BY <1>1, <1>10, <1>11, <1>12, <1>13, <1>14, <1>15, StillDecided, ConfirmingStep
<1> QED
  BY <1>1, <1>10, <1>16 DEF DraftsKept

LEMMA LeaveStep == ASSUME PageInv, Leave PROVE PageInv' /\ DraftsKept
<1> DEFINE kept == [e \in Entries |->
                        IF e \notin view.selected THEN 0
                        ELSE IF view.held[e] # Null THEN view.held[e].revision
                        ELSE view.kept[e]]
<1>1. /\ visit.open /\ visit' = [visit EXCEPT !.open = FALSE]
      /\ view' = [NewView EXCEPT !.import = view.import, !.draft = view.draft,
                    !.before = view.before, !.selected = view.selected, !.kept = kept]
      /\ UNCHANGED <<row, attempt, requests, saved>>
  BY DEF Leave
<1>2. kept \in [Entries -> Nat]
  BY ViewTypes DEF IsView, HeldRecords
<1> HIDE DEF kept
<1>3. /\ DOMAIN view' = Fields /\ view'.import = view.import /\ view'.held = Nothing
      /\ view'.draft = view.draft /\ view'.selected = view.selected /\ view'.kept = kept
      /\ view'.confirmation = Null /\ view'.confirming = Null /\ view'.recovering = FALSE
  BY <1>1 DEF NewView, Fields
<1>4. IsView(view') /\ ViewAgrees(view')
  BY <1>2, <1>3, ViewTypes, NothingHeld DEF IsView, ViewAgrees, Remaining
<1>5. OneOutstanding'
  <2>1. visit'.open = FALSE
    BY <1>1 DEF PageInv, PageTypes
  <2>2. ASSUME NEW p \in Attempts, NEW q \in Attempts, Retained(p), Retained(q) PROVE q = p
    BY <2>2 DEF PageInv, OneOutstanding
  <2> QED
    BY <1>1, <2>1, <2>2 DEF OneOutstanding, Retained
<1>6. \A p \in Attempts : attempt'[p] # Null => AttemptAgrees(attempt[p])'
  BY <1>1, StillAgrees, StillDecided
<1>7. attempt' \in [Attempts -> AttemptRecords \cup {Null}]
      /\ DOMAIN visit' = {"open", "number"} /\ visit'.open \in BOOLEAN
  BY <1>1 DEF PageInv, PageTypes
<1>8. PageInv'
  BY <1>1, <1>3, <1>4, <1>5, <1>6, <1>7, StillDecided, ConfirmingStep
<1> QED
  BY <1>3, <1>8 DEF DraftsKept

\* A view of which a batch of the confirmation was sent.
LEMMA DispatchStep ==
    ASSUME PageInv, UNCHANGED <<row, visit, requests, saved>>, visit.open,
           NEW v, IsView(v), ViewAgrees(v), ~v.recovering, NEW i \in Imports, NEW rest,
           DOMAIN rest \subseteq Entries, \A e \in DOMAIN rest : rest[e] \in Nat,
           NEW A \in [Attempts -> AttemptRecords \cup {Null}],
           \A p \in Attempts : A[p] # Null =>
               attempt[p] # Null /\ A[p].told = "established" /\ A[p].entries = attempt[p].entries
               /\ A[p].quoted = attempt[p].quoted /\ A[p].at = attempt[p].at,
           Dispatch(v, i, rest, A)
    PROVE  PageInv' /\ view'.draft = v.draft
<1> DEFINE o == CHOOSE unused \in Attempts : A[unused] = Null
<1>1. PICK batch \in SUBSET DOMAIN rest :
         /\ \E unused \in Attempts : A[unused] = Null
         /\ attempt' = [A EXCEPT ![o] = [import |-> i, entries |-> batch, at |-> "sent",
                           quoted |-> [e \in batch |-> rest[e]], told |-> "pending"]]
         /\ view' = [v EXCEPT !.confirmation = o, !.confirming =
               [op |-> o, import |-> i, rest |-> [e \in DOMAIN rest \ batch |-> rest[e]]]]
  BY DEF Dispatch
<1>2. o \in Attempts /\ A[o] = Null
  BY <1>1
<1> HIDE DEF o
<1> DEFINE new == [import |-> i, entries |-> batch, at |-> "sent",
                   quoted |-> [e \in batch |-> rest[e]], told |-> "pending"]
           left == [e \in DOMAIN rest \ batch |-> rest[e]]
           sends == [op |-> o, import |-> i, rest |-> left]
<1>3. new \in AttemptRecords
  <2>1. batch \in SUBSET Entries /\ [e \in batch |-> rest[e]] \in [batch -> Nat]
    OBVIOUS
  <2>2. [e \in batch |-> rest[e]] \in UNION {[S -> Nat] : S \in SUBSET Entries}
    BY <2>1
  <2> QED
    BY <2>1, <2>2 DEF AttemptRecords
<1>4. new.told = "pending" /\ new.at = "sent" /\ new.entries = DOMAIN new.quoted
  OBVIOUS
<1>5. attempt' = [A EXCEPT ![o] = new]
  BY <1>1
<1> HIDE DEF new
<1>6. /\ attempt' \in [Attempts -> AttemptRecords \cup {Null}] /\ attempt'[o] = new /\ new # Null
      /\ \A p \in Attempts : p # o => attempt'[p] = A[p]
  BY <1>2, <1>3, <1>5, NullAssumption
<1>7. ASSUME NEW p \in Attempts, attempt'[p] # Null PROVE AttemptAgrees(attempt[p])'
  <2>1. CASE p = o
    BY <1>4, <1>6, <2>1 DEF AttemptAgrees
  <2>2. CASE p # o
    BY <1>6, <1>7, <2>2, StillAgrees, StillDecided
  <2> QED
    BY <2>1, <2>2
<1>8. Remaining(sends)
  <2>1. sends.import = i /\ sends.rest = left /\ DOMAIN left = DOMAIN rest \ batch
        /\ \A e \in DOMAIN left : left[e] = rest[e]
    OBVIOUS
  <2> HIDE DEF sends, left
  <2> QED
    BY <2>1 DEF Remaining
<1>9. view' = [v EXCEPT !.confirmation = o, !.confirming = sends]
  BY <1>1
<1> HIDE DEF sends
<1>10. /\ DOMAIN view' = Fields /\ view'.import = v.import /\ view'.held = v.held
       /\ view'.draft = v.draft /\ view'.selected = v.selected /\ view'.kept = v.kept
       /\ view'.confirmation = o /\ view'.confirming = sends /\ view'.recovering = v.recovering
  BY <1>9 DEF IsView, Fields
<1>11. IsView(view') /\ ViewAgrees(view')
  BY <1>2, <1>8, <1>10 DEF IsView, ViewAgrees
<1>12. OneOutstanding'
  <2>1. ASSUME NEW p \in Attempts, Retained(p)' PROVE p = o
    BY <1>6, <2>1 DEF Retained
  <2> QED
    BY <1>10, <2>1 DEF OneOutstanding
<1>13. visit'.open /\ DOMAIN visit' = {"open", "number"}
       /\ visit'.open \in BOOLEAN
  BY DEF PageInv, PageTypes
<1>14. PageInv'
  BY <1>2, <1>6, <1>7, <1>10, <1>11, <1>12, <1>13, StillDecided, ConfirmingStep
<1> QED
  BY <1>10, <1>14

LEMMA ConfirmSelectionStep == ASSUME PageInv, ConfirmSelection PROVE PageInv' /\ DraftsKept
<1> DEFINE rest == [e \in view.selected |-> ReviewedRevision(view, e)]
<1>1. /\ visit.open /\ ~view.recovering /\ view.confirmation = Null /\ view.import # Null
      /\ Dispatch(view, view.import, rest, attempt)
      /\ UNCHANGED <<row, visit, requests, saved>>
  BY DEF ConfirmSelection
<1>2. ASSUME NEW e \in view.selected PROVE rest[e] \in Nat
  <2>1. e \in Entries /\ view.held[e] \in HeldRecords \cup {Null} /\ view.kept[e] \in Nat
    BY <1>2, ViewTypes DEF IsView
  <2> QED
    BY <1>2, <2>1 DEF ReviewedRevision, HeldRecords
<1>3. DOMAIN rest = view.selected /\ view.selected \subseteq Entries /\ view.import \in Imports
  BY <1>1, ViewTypes DEF IsView
<1> HIDE DEF rest
<1>4. ASSUME NEW p \in Attempts, attempt[p] # Null PROVE attempt[p].told = "established"
  BY <1>1, <1>4, NullAssumption DEF PageInv, OneOutstanding, Retained
<1>5. attempt \in [Attempts -> AttemptRecords \cup {Null}]
  BY DEF PageInv, PageTypes
<1>6. PageInv' /\ view'.draft = view.draft
  BY <1>1, <1>2, <1>3, <1>4, <1>5, ViewTypes, DispatchStep
<1> QED
  BY <1>6 DEF DraftsKept

LEMMA ServeConfirmationStep ==
    ASSUME PageInv, NEW o \in Attempts, ServeConfirmation(o) PROVE PageInv' /\ DraftsKept
<1> DEFINE quoted == attempt[o].quoted
<1>1. /\ attempt[o] # Null /\ attempt[o].at = "sent" /\ UNCHANGED <<view, visit, requests, saved>>
      /\ \/ /\ \A e \in DOMAIN quoted : Quoted(e, quoted[e])
            /\ row' = [e \in Entries |-> IF e \in DOMAIN quoted
                             THEN Changed(e, "confirmed", row[e].value) ELSE row[e]]
            /\ attempt' = [attempt EXCEPT ![o].at = "applied"]
         \/ attempt' = [attempt EXCEPT ![o].at = "refused"] /\ UNCHANGED row
  BY DEF ServeConfirmation
<1>2. /\ attempt[o] \in AttemptRecords /\ AttemptAgrees(attempt[o])
      /\ attempt \in [Attempts -> AttemptRecords \cup {Null}] /\ row \in [Entries -> Rows]
  BY <1>1 DEF PageInv, PageTypes
<1>3. DOMAIN quoted = attempt[o].entries /\ attempt[o].entries \subseteq Entries
  BY <1>2 DEF AttemptAgrees, AttemptRecords
<1> HIDE DEF quoted
<1>4. row' \in [Entries -> Rows]
  <2>1. ASSUME NEW e \in Entries PROVE Changed(e, "confirmed", row[e].value) \in Rows
    <3>1. row[e].value \in Values
      BY <1>2 DEF Rows
    <3> QED
      BY <1>2, <3>1, ChangedRow
  <2> QED
    BY <1>1, <1>2, <2>1
<1>5. Decided
  BY <1>1 DEF Decided, Quoted
<1>6. PICK at \in {"applied", "refused"} :
         /\ attempt' = [attempt EXCEPT ![o].at = at]
         /\ at = "applied" => \A e \in DOMAIN quoted : row'[e].state = "confirmed"
  <2>1. ASSUME row' = [e \in Entries |-> IF e \in DOMAIN quoted
                           THEN Changed(e, "confirmed", row[e].value) ELSE row[e]]
        PROVE  \A e \in DOMAIN quoted : row'[e].state = "confirmed"
    <3>1. ASSUME NEW e \in DOMAIN quoted PROVE row'[e].state = "confirmed"
      <4>1. e \in Entries /\ row[e].value \in Values
        BY <1>2, <1>3, <3>1 DEF Rows
      <4>2. row'[e] = Changed(e, "confirmed", row[e].value)
        BY <2>1, <4>1
      <4> QED
        BY <1>2, <4>1, <4>2, ChangedRow
    <3> QED
      BY <3>1
  <2> QED
    BY <1>1, <2>1
<1> DEFINE new == [attempt[o] EXCEPT !.at = at]
<1>7. /\ new \in AttemptRecords /\ new.at = at /\ new.entries = attempt[o].entries
      /\ new.quoted = attempt[o].quoted /\ new.told = attempt[o].told
  BY <1>2 DEF AttemptRecords
<1>8. attempt' = [attempt EXCEPT ![o] = new]
  BY <1>2, <1>6
<1> HIDE DEF new
<1>9. /\ attempt' \in [Attempts -> AttemptRecords \cup {Null}] /\ attempt'[o] = new /\ new # Null
      /\ \A p \in Attempts : p # o => attempt'[p] = attempt[p]
  BY <1>2, <1>7, <1>8, NullAssumption
<1>10. ASSUME NEW p \in Attempts, attempt'[p] # Null PROVE AttemptAgrees(attempt[p])'
  <2>1. CASE p = o
    BY <1>2, <1>3, <1>6, <1>7, <1>9, <2>1 DEF AttemptAgrees, quoted
  <2>2. CASE p # o
    BY <1>5, <1>9, <1>10, <2>2, StillAgrees
  <2> QED
    BY <2>1, <2>2
<1>11. \A p \in Attempts : Retained(p)' <=> Retained(p)
  BY <1>1, <1>7, <1>9 DEF Retained
<1>12. OneOutstanding'
  BY <1>1, <1>11 DEF PageInv, OneOutstanding
<1>13. \A p \in Attempts : attempt[p] # Null => attempt'[p] # Null
  BY <1>9
<1>14. /\ view' = view /\ visit' = visit /\ IsView(view) /\ ViewAgrees(view)
       /\ DOMAIN visit = {"open", "number"} /\ visit.open \in BOOLEAN
       /\ view.confirmation # Null => view.confirmation \in Attempts /\ attempt[view.confirmation] # Null
       /\ ~visit.open => view.confirmation = Null
  BY <1>1 DEF PageInv, PageTypes, IsView
<1>15. view'.confirmation # Null => attempt'[view'.confirmation] # Null
  BY <1>13, <1>14
<1>16. PageInv'
  BY <1>1, <1>4, <1>5, <1>9, <1>10, <1>12, <1>14, <1>15, ConfirmingStep
<1> QED
  BY <1>1, <1>16 DEF DraftsKept

Says(o, outcome) == [attempt EXCEPT ![o].told = outcome]

\* What is told of a confirmation changes nothing it did.
LEMMA ToldStep ==
    ASSUME PageInv, NEW o \in Attempts, attempt[o] # Null,
           NEW outcome \in {"pending", "unknown", "established"},
           NEW A, A = Says(o, outcome)
    PROVE  /\ A \in [Attempts -> AttemptRecords \cup {Null}] /\ A[o].told = outcome
           /\ \A p \in Attempts : p # o => A[p] = attempt[p]
           /\ \A p \in Attempts : A[p] # Null =>
                attempt[p] # Null /\ A[p].entries = attempt[p].entries
                /\ A[p].quoted = attempt[p].quoted /\ A[p].at = attempt[p].at
           /\ \A p \in Attempts : attempt[p] # Null => A[p] # Null
<1>1. attempt[o] \in AttemptRecords /\ attempt \in [Attempts -> AttemptRecords \cup {Null}]
  BY DEF PageInv, PageTypes
<1> DEFINE new == [attempt[o] EXCEPT !.told = outcome]
<1>2. /\ new \in AttemptRecords /\ new.at = attempt[o].at /\ new.entries = attempt[o].entries
      /\ new.quoted = attempt[o].quoted /\ new.told = outcome
  BY <1>1 DEF AttemptRecords
<1>3. A = [attempt EXCEPT ![o] = new]
  BY <1>1 DEF Says
<1> HIDE DEF new
<1> QED
  BY <1>1, <1>2, <1>3, NullAssumption

\* A view that ended sending a confirmation, or recovering it.
LEMMA EndedView ==
    ASSUME NEW v, IsView(v), ViewAgrees(v), NEW w, DOMAIN w = Fields,
           w.import = v.import, w.held = v.held, w.draft = v.draft, w.selected = v.selected,
           w.kept = v.kept, w.recovering = FALSE,
           w.confirmation = Null \/ w.confirmation = v.confirmation,
           w.confirming = Null \/ w.confirming = v.confirming
    PROVE  IsView(w) /\ ViewAgrees(w)
BY DEF IsView, ViewAgrees, Remaining

LEMMA ForgetsNamed ==
    ASSUME NEW v, IsView(v), ViewAgrees(v), NEW o \in Attempts,
           attempt[o].entries \subseteq Entries, NEW w, w = Forget(v, o)
    PROVE  /\ IsView(w) /\ ViewAgrees(w) /\ w.confirmation = v.confirmation
           /\ w.confirming = v.confirming /\ w.recovering = v.recovering
           /\ \A e \in Entries : w.draft[e] = v.draft[e] \/ e \in attempt[o].entries
<1> DEFINE named == attempt[o].entries
           kept == [e \in Entries |-> IF e \in named THEN 0 ELSE v.kept[e]]
           selected == v.selected \ named
           known == Dropped(v, named)
<1>1. /\ DraftsAlone(v, known) /\ known.draft \in [Entries -> Values \cup {Null}]
      /\ \A e \in Entries : known.draft[e] = v.draft[e] \/ e \in named
  BY DraftsDropped DEF Stands, IsView
<1>2. /\ kept \in [Entries -> Nat] /\ selected \subseteq Entries /\ known.kept = v.kept
      /\ known.selected = v.selected
  BY <1>1 DEF IsView, DraftsAlone
<1>3. w = IF v.import # attempt[o].import THEN known
          ELSE [known EXCEPT !.selected = selected, !.kept = kept]
  BY <1>2 DEF Forget
<1> HIDE DEF kept, selected, named, known
<1>4. /\ DOMAIN w = Fields /\ w.import = v.import /\ w.held = v.held
      /\ w.draft = known.draft /\ w.confirmation = v.confirmation
      /\ w.confirming = v.confirming /\ w.recovering = v.recovering
      /\ \/ w.selected = v.selected /\ w.kept = v.kept
         \/ w.selected = selected /\ w.kept = kept
  BY <1>1, <1>3 DEF DraftsAlone, Fields
<1> QED
  BY <1>1, <1>2, <1>4 DEF IsView, ViewAgrees, named

\* A confirmation that was told established, or unknown, leaves at most itself.
LEMMA ToldOutstanding ==
    ASSUME PageInv, visit'.open = visit.open, NEW o \in Attempts, attempt[o] # Null,
           NEW outcome \in {"unknown", "established"},
           attempt' = Says(o, outcome), UNCHANGED row,
           Retained(o) \/ outcome = "established",
           \/ view'.confirmation = view.confirmation
           \/ (visit.open => view.confirmation = o) /\ outcome = "established"
    PROVE  OneOutstanding'
<1>1. /\ attempt'[o].told = outcome
      /\ \A p \in Attempts : p # o => attempt'[p] = attempt[p]
  BY ToldStep
<1>2. ASSUME NEW p \in Attempts, Retained(p)' PROVE Retained(p) /\ (p = o => outcome = "unknown")
  BY <1>1, <1>2, NullAssumption DEF Retained
<1>3. ASSUME NEW p \in Attempts, Retained(p)'
      PROVE  (\A q \in Attempts : Retained(q)' => q = p)
             /\ (visit'.open => view'.confirmation = p)
  <2>1. Retained(p) /\ (p = o => outcome = "unknown")
    BY <1>2, <1>3
  <2>2. (\A q \in Attempts : Retained(q) => q = p) /\ (visit.open => view.confirmation = p)
    BY <2>1 DEF PageInv, OneOutstanding
  <2> QED
    BY <1>2, <2>1, <2>2
<1> QED
  BY <1>3 DEF OneOutstanding

LEMMA FinishConfirmationStep ==
    ASSUME PageInv, NEW o \in Attempts, FinishConfirmation(o) PROVE PageInv' /\ DraftsKept
<1>1. attempt[o] # Null /\ attempt[o].told = "pending" /\ UNCHANGED <<row, visit, requests, saved>>
  BY DEF FinishConfirmation
<1>2. PICK outcome \in {"applied", "refused", "unknown"} :
         LET A == [attempt EXCEPT ![o].told =
                      IF outcome = "unknown" THEN "unknown" ELSE "established"]
             told == IF outcome = "applied" /\ visit.open
                     THEN Notified(view, attempt[o].import) ELSE view
             mine == visit.open /\ view.confirming # Null /\ view.confirming.op = o
             known == IF outcome = "unknown" THEN told ELSE [told EXCEPT !.confirmation = Null]
         IN  /\ outcome # "unknown" => attempt[o].at = outcome
             /\ IF ~mine THEN view' = told /\ attempt' = A
                ELSE IF outcome # "applied"
                THEN /\ view' = ReadSessions([known EXCEPT !.confirming = Null], "refresh")
                     /\ attempt' = A
                ELSE IF DOMAIN view.confirming.rest = {}
                THEN /\ view' = ReadSessions([Forget(known, o) EXCEPT !.confirming = Null], "keep")
                     /\ attempt' = A
                ELSE Dispatch(Forget(known, o), view.confirming.import, view.confirming.rest, A)
  BY DEF FinishConfirmation
<1> DEFINE said == IF outcome = "unknown" THEN "unknown" ELSE "established"
           A == Says(o, said)
           told == IF outcome = "applied" /\ visit.open
                   THEN Notified(view, attempt[o].import) ELSE view
           mine == visit.open /\ view.confirming # Null /\ view.confirming.op = o
           known == IF outcome = "unknown" THEN told ELSE [told EXCEPT !.confirmation = Null]
<1>3. /\ outcome # "unknown" => attempt[o].at = outcome
      /\ \/ ~mine /\ view' = told /\ attempt' = A
         \/ /\ mine /\ outcome # "applied" /\ attempt' = A
            /\ view' = ReadSessions([known EXCEPT !.confirming = Null], "refresh")
         \/ /\ mine /\ outcome = "applied" /\ attempt' = A
            /\ view' = ReadSessions([Forget(known, o) EXCEPT !.confirming = Null], "keep")
         \/ /\ mine /\ outcome = "applied"
            /\ Dispatch(Forget(known, o), view.confirming.import, view.confirming.rest, A)
  BY <1>2 DEF Says
<1>2a. said \in {"unknown", "established"} /\ (said = "unknown" <=> outcome = "unknown")
  OBVIOUS
<1> HIDE DEF said
<1>4. Retained(o) /\ (visit.open => view.confirmation = o)
      /\ \A p \in Attempts : Retained(p) => p = o
  BY <1>1 DEF Retained, PageInv, OneOutstanding
<1>5. Steady(view, told)
  BY ViewTypes, NotifiedSteady, SteadyItself
<1>6. /\ A \in [Attempts -> AttemptRecords \cup {Null}]
      /\ A[o].told = said
      /\ \A p \in Attempts : p # o => A[p] = attempt[p]
      /\ \A p \in Attempts : A[p] # Null =>
            attempt[p] # Null /\ A[p].entries = attempt[p].entries
            /\ A[p].quoted = attempt[p].quoted /\ A[p].at = attempt[p].at
      /\ \A p \in Attempts : attempt[p] # Null => A[p] # Null
  <2>1. /\ PageInv /\ o \in Attempts /\ attempt[o] # Null
        /\ said \in {"pending", "unknown", "established"}
        /\ A = Says(o, said)
    BY <1>1, <1>2a
  <2> HIDE DEF A
  <2> QED
    BY ONLY <2>1, ToldStep
<1>7. attempt[o] \in AttemptRecords /\ AttemptAgrees(attempt[o])
      /\ attempt[o].entries \subseteq Entries
  BY <1>1 DEF PageInv, PageTypes, AttemptRecords
<1> HIDE DEF told
<1>8. IsView(told) /\ ViewAgrees(told) /\ DOMAIN told = Fields /\ told.draft = view.draft
      /\ told.confirmation = view.confirmation /\ told.confirming = view.confirming
  BY <1>5 DEF Steady, Stands, IsView
<1>9. ASSUME attempt' = A, IsView(view'), ViewAgrees(view'),
             \/ view'.confirmation = view.confirmation
             \/ outcome # "unknown" /\ visit.open /\ view'.confirmation = Null
      PROVE  PageInv'
  <2>0. attempt' = Says(o, said)
    BY <1>9
  <2> HIDE DEF A
  <2>1. OneOutstanding'
    <3>1. /\ visit'.open = visit.open /\ UNCHANGED row /\ attempt[o] # Null
          /\ Retained(o) \/ said = "established"
          /\ \/ view'.confirmation = view.confirmation
             \/ (visit.open => view.confirmation = o) /\ said = "established"
      BY <1>1, <1>2a, <1>4, <1>9
    <3> QED
      BY <1>2a, <2>0, <3>1, ToldOutstanding
  <2>2. ASSUME NEW p \in Attempts, attempt'[p] # Null PROVE AttemptAgrees(attempt[p])'
    BY <1>1, <1>6, <1>9, <2>2, StillAgrees, StillDecided
  <2>3. DOMAIN visit' = {"open", "number"} /\ visit'.open \in BOOLEAN
        /\ (~visit'.open => view'.confirmation = Null)
        /\ (view'.confirmation # Null => attempt'[view'.confirmation] # Null)
    BY <1>1, <1>6, <1>9 DEF PageInv, PageTypes, IsView
  <2>4. Decided /\ row' \in [Entries -> Rows]
    BY <1>1, StillDecided
  <2> QED
    BY <1>1, <1>6, <1>9, <2>1, <2>2, <2>3, <2>4, ConfirmingStep
<1>10. CASE ~mine /\ view' = told /\ attempt' = A
  <2>1. PageInv'
    BY <1>8, <1>9, <1>10
  <2> QED
    BY <1>8, <1>10, <2>1 DEF DraftsKept
<1>11. mine => /\ ~told.recovering /\ DOMAIN known = Fields /\ known.import = told.import
               /\ known.held = told.held /\ known.draft = told.draft
               /\ known.selected = told.selected /\ known.kept = told.kept
               /\ known.confirming = told.confirming /\ known.recovering = FALSE
               /\ known.confirmation = IF outcome = "unknown" THEN told.confirmation ELSE Null
  <2>1. mine => told.recovering = FALSE
    BY <1>8 DEF ViewAgrees, IsView
  <2> QED
    BY <1>8, <2>1 DEF Fields
<1> HIDE DEF known
<1>12. mine => IsView(known) /\ ViewAgrees(known)
  BY <1>8, <1>11, EndedView
<1>13. CASE /\ mine /\ outcome # "applied" /\ attempt' = A
            /\ view' = ReadSessions([known EXCEPT !.confirming = Null], "refresh")
  <2> DEFINE ended == [known EXCEPT !.confirming = Null]
  <2>1. /\ DOMAIN ended = Fields /\ ended.import = told.import
        /\ ended.held = told.held /\ ended.draft = told.draft
        /\ ended.selected = told.selected /\ ended.kept = told.kept
        /\ ended.confirming = Null /\ ended.recovering = FALSE
        /\ ended.confirmation = IF outcome = "unknown" THEN told.confirmation ELSE Null
    BY <1>11, <1>13 DEF Fields
  <2> HIDE DEF ended
  <2>2. IsView(ended) /\ ViewAgrees(ended)
    BY <1>8, <2>1, EndedView
  <2>3. Steady(ended, view')
    BY <1>13, <2>2, ReadSessionsSteady DEF ended
  <2>4. PageInv'
    BY <1>8, <1>9, <1>13, <2>1, <2>3 DEF Steady, Stands
  <2> QED
    BY <1>8, <2>1, <2>3, <2>4 DEF Steady, DraftsKept
<1>14. ASSUME mine, outcome = "applied", NEW v, v = Forget(known, o)
       PROVE  /\ IsView(v) /\ ViewAgrees(v) /\ v.confirmation = Null /\ v.recovering = FALSE
              /\ \A e \in Entries : view.draft[e] # Null /\ v.draft[e] = Null =>
                    row[e].state \notin {"absent", "pending"}
  <2>1. /\ IsView(v) /\ ViewAgrees(v) /\ v.confirmation = known.confirmation
        /\ v.recovering = known.recovering
        /\ \A e \in Entries : v.draft[e] = known.draft[e] \/ e \in attempt[o].entries
    BY <1>7, <1>12, <1>14, ForgetsNamed
  <2>2. \A e \in attempt[o].entries : row[e].state = "confirmed"
    BY <1>3, <1>7, <1>14 DEF AttemptAgrees
  <2> QED
    BY <1>8, <1>11, <1>14, <2>1, <2>2
<1>15. CASE /\ mine /\ outcome = "applied" /\ attempt' = A
            /\ view' = ReadSessions([Forget(known, o) EXCEPT !.confirming = Null], "keep")
  <2> DEFINE v == Forget(known, o)
             ended == [v EXCEPT !.confirming = Null]
  <2>1. /\ IsView(v) /\ ViewAgrees(v) /\ v.confirmation = Null /\ v.recovering = FALSE
        /\ \A e \in Entries : view.draft[e] # Null /\ v.draft[e] = Null =>
              row[e].state \notin {"absent", "pending"}
    BY <1>14, <1>15
  <2> HIDE DEF v
  <2>2. /\ DOMAIN ended = Fields /\ ended.import = v.import
        /\ ended.held = v.held /\ ended.draft = v.draft
        /\ ended.selected = v.selected /\ ended.kept = v.kept
        /\ ended.confirming = Null /\ ended.recovering = FALSE
        /\ ended.confirmation = Null
    BY <2>1 DEF Fields, IsView
  <2> HIDE DEF ended
  <2>3. IsView(ended) /\ ViewAgrees(ended)
    BY <2>1, <2>2, EndedView
  <2>4. Steady(ended, view')
    BY <1>15, <2>3, ReadSessionsSteady DEF ended, v
  <2>5. PageInv'
    BY <1>9, <1>15, <2>2, <2>4 DEF Steady, Stands
  <2> QED
    BY <2>1, <2>2, <2>4, <2>5 DEF Steady, DraftsKept
<1>16. CASE /\ mine /\ outcome = "applied"
            /\ Dispatch(Forget(known, o), view.confirming.import, view.confirming.rest, A)
  <2> DEFINE v == Forget(known, o)
             i == view.confirming.import
             rest == view.confirming.rest
  <2>1. /\ IsView(v) /\ ViewAgrees(v) /\ ~v.recovering
        /\ \A e \in Entries : view.draft[e] # Null /\ v.draft[e] = Null =>
              row[e].state \notin {"absent", "pending"}
    BY <1>14, <1>16
  <2>2. i \in Imports /\ DOMAIN rest \subseteq Entries /\ \A e \in DOMAIN rest : rest[e] \in Nat
    BY <1>16, ViewTypes DEF IsView, Remaining
  <2>3. ASSUME NEW p \in Attempts, A[p] # Null
        PROVE  attempt[p] # Null /\ A[p].told = "established" /\ A[p].entries = attempt[p].entries
               /\ A[p].quoted = attempt[p].quoted /\ A[p].at = attempt[p].at
    <3> HIDE DEF A
    <3>1. attempt[p] # Null /\ A[p].entries = attempt[p].entries
          /\ A[p].quoted = attempt[p].quoted /\ A[p].at = attempt[p].at
      BY <1>6, <2>3
    <3>2. A[p].told = "established"
      BY <1>2a, <1>4, <1>6, <1>16, <3>1 DEF Retained
    <3> QED
      BY <3>1, <3>2
  <2>4. UNCHANGED <<row, visit, requests, saved>> /\ visit.open
    BY <1>1, <1>16
  <2>5. Dispatch(v, i, rest, A) /\ A \in [Attempts -> AttemptRecords \cup {Null}]
    BY <1>6, <1>16
  <2> HIDE DEF v, i, rest, A
  <2>6. PageInv' /\ view'.draft = v.draft
    BY <2>1, <2>2, <2>3, <2>4, <2>5, DispatchStep
  <2> QED
    BY <2>1, <2>6 DEF DraftsKept
<1> QED
  BY <1>3, <1>10, <1>13, <1>15, <1>16

LEMMA FinishRecoveryStep == ASSUME PageInv, FinishRecovery PROVE PageInv' /\ DraftsKept
<1> DEFINE o == view.confirmation
           ended == [view EXCEPT !.recovering = FALSE]
           known == [ended EXCEPT !.confirmation = Null]
           told == Notified(known, attempt[o].import)
<1>1. /\ view.recovering /\ attempt[o].told # "pending"
      /\ UNCHANGED <<row, visit, requests, saved>>
      /\ \/ attempt[o].told = "unknown" /\ view' = ended /\ UNCHANGED attempt
         \/ /\ attempt' = Says(o, "established")
            /\ view' = IF attempt[o].at = "applied"
                       THEN ReadSessions(Forget(told, o), "keep") ELSE known
  BY DEF FinishRecovery, Says
<1>2. o \in Attempts /\ attempt[o] # Null /\ visit.open
  <2>1. o # Null
    BY <1>1, ViewTypes DEF ViewAgrees
  <2> QED
    BY <2>1, ViewTypes DEF PageInv, PageTypes, IsView
<1>3. AttemptAgrees(attempt[o]) /\ attempt[o].entries \subseteq Entries
  BY <1>2 DEF PageInv, PageTypes, AttemptRecords
<1>4. Decided /\ row' \in [Entries -> Rows] /\ DOMAIN visit' = {"open", "number"}
      /\ visit'.open = TRUE
  BY <1>1, <1>2, StillDecided DEF PageInv, PageTypes
<1>5. /\ DOMAIN ended = Fields /\ ended.import = view.import /\ ended.held = view.held
      /\ ended.draft = view.draft /\ ended.selected = view.selected /\ ended.kept = view.kept
      /\ ended.confirming = view.confirming /\ ended.recovering = FALSE
      /\ ended.confirmation = o
  BY ViewTypes DEF Fields
<1>6. /\ DOMAIN known = Fields /\ known.import = view.import /\ known.held = view.held
      /\ known.draft = view.draft /\ known.selected = view.selected /\ known.kept = view.kept
      /\ known.confirming = view.confirming /\ known.recovering = FALSE
      /\ known.confirmation = Null
  BY ViewTypes DEF Fields
<1> HIDE DEF ended, known
<1>7. IsView(ended) /\ ViewAgrees(ended) /\ IsView(known) /\ ViewAgrees(known)
  BY <1>5, <1>6, ViewTypes, EndedView
<1>8. CASE view' = ended /\ UNCHANGED attempt
  <2>1. OneOutstanding'
    BY <1>1, <1>5, <1>8 DEF PageInv, OneOutstanding, Retained
  <2>2. \A p \in Attempts : attempt'[p] # Null => AttemptAgrees(attempt[p])'
    BY <1>4, <1>8, StillAgrees
  <2>3. attempt' \in [Attempts -> AttemptRecords \cup {Null}]
        /\ IsView(view') /\ ViewAgrees(view')
        /\ (view'.confirmation # Null => attempt'[view'.confirmation] # Null)
    BY <1>2, <1>5, <1>7, <1>8 DEF PageInv, PageTypes
  <2>4. PageInv'
    BY <1>1, <1>4, <2>1, <2>2, <2>3, ConfirmingStep
  <2> QED
    BY <1>5, <1>8, <2>4 DEF DraftsKept
<1>9. ASSUME attempt' = Says(o, "established"), IsView(view'), ViewAgrees(view'),
             view'.confirmation = Null
      PROVE  PageInv'
  <2> HIDE DEF o
  <2>1. OneOutstanding'
    <3>1. visit'.open = visit.open /\ UNCHANGED row /\ (visit.open => view.confirmation = o)
      BY <1>1 DEF o
    <3> QED
      BY <1>2, <1>9, <3>1, ToldOutstanding
  <2>2. /\ attempt' \in [Attempts -> AttemptRecords \cup {Null}]
        /\ \A p \in Attempts : attempt'[p] # Null =>
              attempt[p] # Null /\ attempt'[p].entries = attempt[p].entries
              /\ attempt'[p].quoted = attempt[p].quoted /\ attempt'[p].at = attempt[p].at
    BY <1>2, <1>9, ToldStep
  <2>3. \A p \in Attempts : attempt'[p] # Null => AttemptAgrees(attempt[p])'
    BY <1>4, <2>2, StillAgrees
  <2> QED
    BY <1>1, <1>4, <1>9, <2>1, <2>2, <2>3, ConfirmingStep
<1>10. CASE attempt' = Says(o, "established") /\ attempt[o].at # "applied" /\ view' = known
  <2>1. PageInv'
    BY <1>6, <1>7, <1>9, <1>10
  <2> QED
    BY <1>6, <1>10, <2>1 DEF DraftsKept
<1>11. CASE /\ attempt' = Says(o, "established") /\ attempt[o].at = "applied"
            /\ view' = ReadSessions(Forget(told, o), "keep")
  <2> DEFINE v == Forget(told, o)
  <2>1. Steady(known, told)
    BY <1>7, NotifiedSteady
  <2> HIDE DEF told
  <2>2. /\ IsView(told) /\ ViewAgrees(told) /\ told.confirmation = Null
        /\ told.draft = view.draft
    BY <1>6, <2>1 DEF Steady, Stands
  <2>3. /\ IsView(v) /\ ViewAgrees(v) /\ v.confirmation = Null
        /\ \A e \in Entries : v.draft[e] = view.draft[e] \/ e \in attempt[o].entries
    <3> HIDE DEF o
    <3> QED
      BY <1>2, <1>3, <2>2, ForgetsNamed
  <2>4. \A e \in attempt[o].entries : row[e].state = "confirmed"
    BY <1>3, <1>11 DEF AttemptAgrees
  <2> HIDE DEF v
  <2>5. Steady(v, view')
    BY <1>11, <2>3, ReadSessionsSteady DEF v
  <2>6. PageInv'
    BY <1>9, <1>11, <2>3, <2>5 DEF Steady, Stands
  <2> QED
    BY <2>3, <2>4, <2>5, <2>6 DEF Steady, DraftsKept
<1> QED
  BY <1>1, <1>8, <1>10, <1>11

LEMMA ElsewhereStep ==
    ASSUME PageInv, NEW e \in Entries, Elsewhere(e) PROVE PageInv' /\ DraftsKept
<1>1. PICK state \in {"pending", "discarded"}, value \in Values :
         /\ row[e].state = "pending" \/ (row[e].state = "absent" /\ state = "pending")
         /\ row' = [row EXCEPT ![e] = Changed(e, state, value)]
  BY DEF Elsewhere
<1>2. UNCHANGED <<attempt, view, visit, requests, saved>> /\ row \in [Entries -> Rows]
  BY DEF Elsewhere, PageInv, PageTypes
<1>3. Changed(e, state, value) \in Rows
  BY <1>2, ChangedRow
<1>4. row' \in [Entries -> Rows] /\ Decided
  BY <1>1, <1>2, <1>3 DEF Decided
<1>5. Steady(view, view')
  BY <1>2, ViewTypes, SteadyItself
<1> QED
  BY <1>2, <1>4, <1>5, SteadyStep

LEMMA StagedHereStep ==
    ASSUME PageInv, NEW e \in Entries, StagedHere(e) PROVE PageInv' /\ DraftsKept
<1> DEFINE told == Notified(view, ImportOf[e])
<1>1. /\ row[e].state = "absent" /\ UNCHANGED <<attempt, visit, requests, saved>>
      /\ \E value \in Values : row' = [row EXCEPT ![e] = Changed(e, "pending", value)]
      /\ \/ view' = ReadSessions(told, ImportOf[e])
         \/ view' = Adopt(told, SessionOf(ImportOf[e])')
  BY DEF StagedHere
<1>2. PICK value \in Values : row' = [row EXCEPT ![e] = Changed(e, "pending", value)]
  BY <1>1
<1>3. row \in [Entries -> Rows]
  BY DEF PageInv, PageTypes
<1>4. Changed(e, "pending", value) \in Rows
  BY <1>3, ChangedRow
<1>5. row' \in [Entries -> Rows] /\ Decided
  BY <1>1, <1>2, <1>3, <1>4 DEF Decided
<1>6. Steady(view, told)
  BY ViewTypes, NotifiedSteady
<1> HIDE DEF told
<1>7. IsView(told) /\ ViewAgrees(told)
  BY <1>6 DEF Steady, Stands
<1>8. Steady(told, view')
  BY <1>1, <1>7, ReadSessionsSteady, AdoptSteady
<1>9. Steady(view, view')
  BY <1>6, <1>8, SteadyOn
<1> QED
  BY <1>1, <1>5, <1>9, SteadyStep

LEMMA PageStep == ASSUME PageInv, [ReviewNext]_reviewVars PROVE PageInv' /\ DraftsKept
<1>1. CASE Visiting
  BY <1>1, ReturnStep, LeaveStep, ServeSessionsStep, SettleSessionsStep, ReadEntriesStep
     DEF Visiting
<1>2. CASE Presenting
  BY <1>2, ChooseImportStep, DiscardImportStep, ReconcileStep, StagedHereStep DEF Presenting
<1>3. CASE Reviewing(Entries)
  BY <1>3, EditStep, SaveReviewStep, ElsewhereStep DEF Reviewing
<1>4. CASE Deciding
  BY <1>4, RemoveEntryStep, ServeStep, FinishStep DEF Deciding
<1>5. CASE Confirming
  BY <1>5, SetSelectedStep, ConfirmSelectionStep, RecoverStep, FinishRecoveryStep,
     ServeConfirmationStep, FinishConfirmationStep DEF Confirming
<1>6. CASE UNCHANGED reviewVars
  <2>1. /\ UNCHANGED <<row, attempt, view, visit, requests, saved>>
    BY <1>6 DEF reviewVars
  <2> QED
    BY <2>1, ViewTypes, SteadyItself, StillDecided, SteadyStep
<1> QED
  BY <1>1, <1>2, <1>3, <1>4, <1>5, <1>6 DEF ReviewNext

--------
(* Whether the view moves on.                                              *)

Listings == [Imports -> {"unlisted", "pending", "decided"}]
Thens == {"present", "keep", "refresh"} \cup Imports
ReadRecords == [then : Thens, newest : BOOLEAN, found : {Null} \cup Listings]

\* What is selected and what is confirmed belong to one import each.
Tidy(v) ==
    /\ \A e \in v.selected : ImportOf[e] = v.import
    /\ v.confirming # Null =>
          \A e \in DOMAIN v.confirming.rest : ImportOf[e] = v.confirming.import
    /\ v.reads \in Seq(ReadRecords) /\ v.listed \in Listings /\ v.listing \in BOOLEAN

\* The view is to read again what it presents, or presents nothing.
Asked(v) == \E n \in DOMAIN v.reads : v.reads[n].then = "refresh"
Due(v) == v.import = Null \/ v.listing = TRUE \/ Asked(v)

Onward(v, w) == Tidy(w) /\ (Due(w) \/ (~Due(v) /\ w.import = v.import))

\* What may have been decided in an import is yet to be told.
Concerns(r, i) == i = IF r.kind = "discard-import" THEN r.target ELSE ImportOf[r.target]
Awaited(i) ==
    \/ \E r \in requests : /\ r.kind # "review" /\ Concerns(r, i)
                           /\ r.outcome \in {"committed", "unknown"}
    \/ \E o \in Attempts : Retained(o) /\ attempt[o].import = i /\ attempt[o].at = "applied"
Alive(i) == PendingIn(i) # {} \/ Awaited(i)

MovesInv ==
    /\ PageInv /\ Tidy(view)
    /\ \A o \in Attempts : attempt[o] # Null =>
          \A e \in attempt[o].entries : ImportOf[e] = attempt[o].import
    /\ visit.open /\ ~behind /\ ~Due(view) => Alive(view.import)

LEMMA SameOnward ==
    ASSUME NEW v, Tidy(v), NEW w, w.import = v.import, w.selected = v.selected,
           w.confirming = v.confirming, w.reads = v.reads, w.listing = v.listing,
           w.listed \in Listings
    PROVE  Onward(v, w)
BY DEF Onward, Tidy, Due, Asked

LEMMA OnwardOn ==
    ASSUME NEW v, NEW w, NEW x, Onward(v, w), Onward(w, x)
    PROVE  Onward(v, x)
BY DEF Onward

LEMMA PresentOnward ==
    ASSUME NEW v, DOMAIN v = Fields, Tidy(v), NEW i \in Imports \cup {Null}, NEW w, w = Present(v, i)
    PROVE  Onward(v, w) /\ (i # v.import \/ i = Null => Due(w))
<1>1. CASE i = v.import /\ i # Null
  BY <1>1 DEF Present, Onward
<1>2. CASE ~(i = v.import /\ i # Null)
  <2>1. w = [v EXCEPT !.import = i, !.held = Nothing, !.session = Null, !.selected = {},
                      !.kept = Unread, !.listing = i # Null]
    BY <1>2 DEF Present
  <2>2. /\ w.import = i /\ w.selected = {} /\ w.confirming = v.confirming
        /\ w.reads = v.reads /\ w.listed = v.listed /\ w.listing = (i # Null)
    BY <2>1 DEF Fields
  <2> QED
    BY <2>2 DEF Onward, Tidy, Due
<1> QED
  BY <1>1, <1>2

LEMMA RefreshOnward ==
    ASSUME NEW v, DOMAIN v = Fields, Tidy(v), NEW w, w = Refresh(v)
    PROVE  Onward(v, w) /\ Due(w)
<1>1. /\ w.import = v.import /\ w.selected = v.selected /\ w.confirming = v.confirming
      /\ w.reads = v.reads /\ w.listed = v.listed /\ w.listing = (v.import # Null)
  BY DEF Refresh, Fields
<1> QED
  BY <1>1 DEF Onward, Tidy, Due

LEMMA NotifiedOnward ==
    ASSUME NEW v, DOMAIN v = Fields, Tidy(v), NEW i, NEW w, w = Notified(v, i)
    PROVE  Onward(v, w) /\ (v.import = i => Due(w))
BY RefreshOnward DEF Notified, Onward

LEMMA ReadSessionsOnward ==
    ASSUME NEW v, DOMAIN v = Fields, Tidy(v), NEW then \in Thens, NEW w, w = ReadSessions(v, then)
    PROVE  Onward(v, w) /\ (then = "refresh" => Due(w))
<1> DEFINE older == [n \in DOMAIN v.reads |-> [v.reads[n] EXCEPT !.newest = FALSE]]
           new == [then |-> then, newest |-> TRUE, found |-> Null]
<1>1. w = [v EXCEPT !.reads = Append(older, new)]
  BY DEF ReadSessions
<1>2. v.reads \in Seq(ReadRecords)
  BY DEF Tidy
<1>3. ASSUME NEW n \in DOMAIN v.reads
      PROVE  older[n] \in ReadRecords /\ older[n].then = v.reads[n].then
  <2>1. v.reads[n] \in ReadRecords
    BY <1>2, <1>3
  <2> QED
    BY <2>1 DEF ReadRecords
<1>4. DOMAIN v.reads = 1 .. Len(v.reads) /\ Len(v.reads) \in Nat /\ DOMAIN older = DOMAIN v.reads
  BY <1>2
<1>5. older \in Seq(ReadRecords) /\ Len(older) = Len(v.reads)
  <2>1. older \in [1 .. Len(v.reads) -> ReadRecords]
    BY <1>3, <1>4
  <2> HIDE DEF older
  <2> QED
    BY <1>4, <2>1, IsASeq
<1>6. new \in ReadRecords /\ new.then = then
  BY DEF ReadRecords
<1> HIDE DEF older, new
<1>7. /\ Append(older, new) \in Seq(ReadRecords)
      /\ DOMAIN Append(older, new) = 1 .. Len(v.reads) + 1
      /\ \A n \in 1 .. Len(v.reads) : Append(older, new)[n] = older[n]
      /\ Append(older, new)[Len(v.reads) + 1] = new
  BY <1>4, <1>5, <1>6, AppendProperties
<1>8. /\ w.import = v.import /\ w.selected = v.selected /\ w.confirming = v.confirming
      /\ w.reads = Append(older, new) /\ w.listing = v.listing /\ w.listed = v.listed
  BY <1>1 DEF Fields
<1>9. (Asked(v) \/ then = "refresh") => Asked(w)
  <2>1. ASSUME NEW n \in DOMAIN v.reads, v.reads[n].then = "refresh" PROVE Asked(w)
    <3>1. n \in DOMAIN w.reads /\ w.reads[n].then = "refresh"
      BY <1>3, <1>4, <1>7, <1>8, <2>1
    <3> QED
      BY <3>1 DEF Asked
  <2>2. ASSUME then = "refresh" PROVE Asked(w)
    <3>1. Len(v.reads) + 1 \in DOMAIN w.reads /\ w.reads[Len(v.reads) + 1].then = "refresh"
      BY <1>4, <1>6, <1>7, <1>8, <2>2
    <3> QED
      BY <3>1 DEF Asked
  <2> QED
    BY <2>1, <2>2 DEF Asked
<1> QED
  BY <1>7, <1>8, <1>9 DEF Onward, Tidy, Due

LEMMA RecoveryOnward ==
    ASSUME NEW v, DOMAIN v = Fields, Tidy(v), NEW w, w = StartRecovery(v)
    PROVE  Onward(v, w)
<1>1. /\ w.import = v.import /\ w.selected = v.selected /\ w.confirming = v.confirming
      /\ w.reads = v.reads /\ w.listing = v.listing /\ w.listed = v.listed
  BY DEF StartRecovery, Fields
<1> QED
  BY <1>1, SameOnward DEF Tidy

\* A view that adopts a session without pending entries leaves its import.
LEMMA AdoptOnward ==
    ASSUME NEW v, IsView(v), ViewAgrees(v), Tidy(v), v.import \in Imports \cup {Null},
           NEW s, NEW w, w = Adopt(v, s)
    PROVE  Onward(v, w) /\ (s.import = v.import /\ ~(s.pending > 0) => Due(w))
<1> DEFINE mark == IF s.pending > 0 THEN "pending" ELSE "decided"
           listed == [v.listed EXCEPT ![s.import] = mark]
           known == IF v.listed[s.import] = "unlisted" THEN v ELSE [v EXCEPT !.listed = listed]
           base == [known EXCEPT !.session = s]
           to == DefaultOf(WithPending(known))
           moved == Present(base, to)
<1>1. w = IF s.import # v.import THEN known
          ELSE IF s.pending > 0 THEN base
          ELSE IF v.confirmation # Null /\ attempt[v.confirmation].import = s.import
          THEN StartRecovery(moved) ELSE moved
  BY DEF Adopt
<1>2. mark \in {"pending", "decided"} /\ (~(s.pending > 0) => mark = "decided")
  OBVIOUS
<1> HIDE DEF mark
<1>3. /\ listed \in Listings
      /\ s.import \in Imports => listed[s.import] = mark
  BY <1>2 DEF Tidy, Listings
<1> HIDE DEF listed
<1>4. /\ Steady(v, known) /\ known.import = v.import /\ known.selected = v.selected
      /\ known.reads = v.reads /\ known.listing = v.listing /\ known.listed \in Listings
      /\ s.import \in Imports /\ ~(s.pending > 0) => known.listed[s.import] # "pending"
  <2>1. CASE v.listed[s.import] = "unlisted"
    BY <2>1, SteadyItself DEF Tidy
  <2>2. CASE v.listed[s.import] # "unlisted"
    <3>1. DOMAIN v = Fields
      BY DEF IsView
    <3>2. /\ known.listed = listed /\ known.import = v.import /\ known.selected = v.selected
          /\ known.reads = v.reads /\ known.listing = v.listing
      BY <2>2, <3>1 DEF Fields
    <3>3. Steady(v, known)
      BY <2>2, <3>1, OtherFields DEF Fields
    <3> HIDE DEF known
    <3> QED
      BY <1>2, <1>3, <3>2, <3>3
  <2> QED
    BY <2>1, <2>2
<1> HIDE DEF known
<1>5. Onward(v, known)
  BY <1>4, SameOnward DEF Steady, Stands
<1>6. /\ IsView(known) /\ ViewAgrees(known) /\ DOMAIN known = Fields
  BY <1>4 DEF Steady, Stands, IsView
<1>7. Steady(known, base) /\ base.import = v.import /\ Onward(v, base)
  <2>1. Steady(known, base)
    BY <1>6, OtherFields DEF Fields
  <2>2. /\ base.import = known.import /\ base.selected = known.selected
        /\ base.confirming = known.confirming /\ base.reads = known.reads
        /\ base.listing = known.listing /\ base.listed = known.listed
    BY <1>6 DEF Fields
  <2> HIDE DEF base
  <2>3. Onward(known, base)
    BY <1>4, <1>5, <2>2, SameOnward DEF Onward
  <2> QED
    BY <1>4, <1>5, <2>1, <2>2, <2>3, OnwardOn
<1> HIDE DEF base
<1>8. IsView(base) /\ ViewAgrees(base) /\ Tidy(base)
  BY <1>7 DEF Steady, Stands, Onward
<1>9. to \in WithPending(known) \cup {Null}
  BY DefaultIsImport DEF WithPending
<1>10. /\ to \in Imports \cup {Null}
       /\ s.import = v.import /\ ~(s.pending > 0) => to # base.import \/ to = Null
  BY <1>4, <1>7, <1>9 DEF WithPending
<1> HIDE DEF to
<1>11. /\ Onward(base, moved) /\ (s.import = v.import /\ ~(s.pending > 0) => Due(moved))
       /\ IsView(moved) /\ Tidy(moved)
  BY <1>8, <1>10, PresentOnward, PresentSteady DEF Steady, Stands, Onward, IsView
<1> HIDE DEF moved
<1>12. Onward(moved, StartRecovery(moved))
  BY <1>11, RecoveryOnward DEF IsView
<1>13. Onward(v, moved) /\ Onward(v, StartRecovery(moved))
  BY <1>7, <1>11, <1>12, OnwardOn
<1> QED
  BY <1>1, <1>5, <1>7, <1>11, <1>12, <1>13 DEF Onward

LEMMA AfterReadOnward ==
    ASSUME NEW v, IsView(v), Tidy(v), NEW then, NEW w, w = AfterRead(v, then)
    PROVE  Onward(v, w) /\ (then = "refresh" => Due(w))
<1> DEFINE to == DefaultOf(Listed(v))
<1>1. to \in Listed(v) \cup {Null} /\ Listed(v) \subseteq Imports /\ v.import \in Imports \cup {Null}
  BY DefaultIsImport DEF Listed, IsView
<1>2. \/ w = v \/ w = Refresh(v) \/ \E i \in Imports \cup {Null} : w = Present(v, i)
  BY <1>1 DEF AfterRead
<1>3. then = "refresh" =>
         \/ w = Refresh(v)
         \/ \E i \in Imports \cup {Null} : w = Present(v, i) /\ (i # v.import \/ i = Null)
  <2> SUFFICES ASSUME then = "refresh"
               PROVE  \/ w = Refresh(v)
                      \/ \E i \in Imports \cup {Null} :
                            w = Present(v, i) /\ (i # v.import \/ i = Null)
    OBVIOUS
  <2>1. CASE then \in Imports
    BY <2>1 DEF AfterRead
  <2>2. CASE then \notin Imports
    <3>1. w = IF v.import = Null THEN Present(v, to)
              ELSE IF v.import \notin Listed(v) /\ v.session # Null /\ v.session.pending = 0
              THEN Present(v, to) ELSE Refresh(v)
      BY <2>2 DEF AfterRead
    <3> HIDE DEF to
    <3> QED
      BY <1>1, <3>1
  <2> QED
    BY <2>1, <2>2
<1> QED
  BY <1>2, <1>3, RefreshOnward, PresentOnward DEF Onward, IsView


\* What was begun stays within the import it names.
AttemptsTidy(A) == \A o \in Attempts : A[o] # Null =>
    \A e \in A[o].entries : ImportOf[e] = A[o].import

LEMMA DueMoves ==
    ASSUME MovesInv, PageInv', Tidy(view'), AttemptsTidy(attempt'),
           visit'.open /\ ~behind' => Due(view')
    PROVE  MovesInv'
BY DEF MovesInv, Tidy, AttemptsTidy, Due, Asked

\* A step after which the presented import has pending entries, or is awaited, as before.
LEMMA Moves ==
    ASSUME MovesInv, PageInv', UNCHANGED visit, behind => behind', AttemptsTidy(attempt'),
           Onward(view, view'),
           visit.open /\ ~behind' /\ ~Due(view') =>
               \A i : i = view.import /\ Alive(i) => Alive(i)'
    PROVE  MovesInv'
<1>1. CASE visit'.open /\ ~behind' => Due(view')
  BY <1>1, DueMoves DEF Onward
<1>2. CASE visit.open /\ ~behind' /\ ~Due(view')
  <2>1. view'.import = view.import /\ Alive(view.import)
    BY <1>2 DEF Onward, MovesInv
  <2>2. Alive(view.import)'
    BY <1>2, <2>1 DEF Alive, PendingIn, Awaited, Concerns, Retained
  <2> QED
    BY <2>2 DEF MovesInv, Tidy, Onward, AttemptsTidy, Due, Asked
<1> QED
  BY <1>1, <1>2

LEMMA ViewMoves ==
    ASSUME MovesInv, PageInv', UNCHANGED <<row, attempt, visit, requests>>, behind => behind',
           Onward(view, view')
    PROVE  MovesInv'
<1>1. \A i : Alive(i) => Alive(i)'
  BY DEF Alive, PendingIn, Awaited, Concerns, Retained
<1> QED
  BY <1>1, Moves DEF MovesInv, AttemptsTidy

LEMMA MovesTypes ==
    MovesInv => /\ PageInv /\ Tidy(view) /\ IsView(view) /\ ViewAgrees(view)
                /\ DOMAIN view = Fields /\ AttemptsTidy(attempt)
BY ViewTypes DEF MovesInv, AttemptsTidy

LEMMA ServeSessionsMoves == ASSUME MovesInv, NEW n, ServeSessions(n) PROVE MovesInv'
<1> DEFINE reads == [view.reads EXCEPT ![n].found = ListedSessions]
<1>1. /\ view' = [view EXCEPT !.reads = reads] /\ n \in DOMAIN view.reads
      /\ UNCHANGED <<row, attempt, visit, requests, behind>>
  BY DEF ServeSessions
<1>2. view.reads \in Seq(ReadRecords) /\ ListedSessions \in Listings
  BY MovesTypes DEF Tidy, Listings, ListedSessions
<1>3. reads \in Seq(ReadRecords) /\ \A m \in DOMAIN reads : reads[m].then = view.reads[m].then
  <2> DEFINE new == [view.reads[n] EXCEPT !.found = ListedSessions]
  <2>1. view.reads[n] \in ReadRecords
    BY <1>1, <1>2
  <2>2. new \in ReadRecords /\ new.then = view.reads[n].then
    BY <1>2, <2>1 DEF ReadRecords
  <2>3. reads = [view.reads EXCEPT ![n] = new]
    BY <1>1
  <2> HIDE DEF new
  <2> QED
    BY <1>1, <1>2, <2>2, <2>3, ExceptSeq
<1>4. DOMAIN reads = DOMAIN view.reads
  OBVIOUS
<1> HIDE DEF reads
<1>5. /\ view'.import = view.import /\ view'.selected = view.selected /\ view'.reads = reads
      /\ view'.confirming = view.confirming /\ view'.listing = view.listing
      /\ view'.listed = view.listed
  BY <1>1, MovesTypes DEF Fields
<1>6. Onward(view, view')
  BY <1>3, <1>4, <1>5, MovesTypes DEF Onward, Tidy, Due, Asked
<1> QED
  BY <1>1, <1>6, MovesTypes, ServeSessionsStep, ViewMoves

LEMMA SettleSessionsMoves == ASSUME MovesInv, NEW n, SettleSessions(n) PROVE MovesInv'
<1> DEFINE read == view.reads[n]
           reads == RemoveAt(view.reads, n)
           rest == [view EXCEPT !.reads = reads]
           newer == [rest EXCEPT !.listed = read.found]
<1>1. /\ \/ view' = AfterRead(newer, read.then) /\ read.found # Null
         \/ view' = AfterRead(rest, read.then)
      /\ UNCHANGED <<row, attempt, visit, requests>> /\ n \in DOMAIN view.reads
      /\ behind => behind'
  BY DEF SettleSessions
<1>2. /\ view.reads \in Seq(ReadRecords) /\ read \in ReadRecords
      /\ DOMAIN view.reads = 1 .. Len(view.reads) /\ Len(view.reads) \in Nat
  BY <1>1, MovesTypes DEF Tidy
<1>3. /\ reads \in Seq(ReadRecords)
      /\ \A m \in DOMAIN view.reads : m # n =>
            \E k \in DOMAIN reads : reads[k] = view.reads[m]
  <2> DEFINE l == Len(view.reads)
             before == SubSeq(view.reads, 1, n - 1)
             after == SubSeq(view.reads, n + 1, l)
  <2>1. reads = before \o after
    BY DEF RemoveAt
  <2>2. /\ before \in Seq(ReadRecords) /\ Len(before) = n - 1
        /\ \A k \in 1 .. n - 1 : before[k] = view.reads[k]
    BY <1>1, <1>2, SubSeqProperties
  <2>3. /\ after \in Seq(ReadRecords) /\ Len(after) = l - n
        /\ \A k \in 1 .. l - n : after[k] = view.reads[n + k]
    BY <1>1, <1>2, SubSeqProperties
  <2>6. l \in Nat /\ n \in 1 .. l /\ DOMAIN view.reads = 1 .. l
    BY <1>1, <1>2
  <2> HIDE DEF before, after, l, reads
  <2>4. /\ reads \in Seq(ReadRecords) /\ Len(reads) = l - 1
        /\ \A k \in 1 .. l - 1 :
              reads[k] = IF k <= n - 1 THEN before[k] ELSE after[k - (n - 1)]
    <3>1. /\ reads \in Seq(ReadRecords) /\ Len(reads) = Len(before) + Len(after)
          /\ \A k \in 1 .. Len(before) + Len(after) :
                reads[k] = IF k <= Len(before) THEN before[k] ELSE after[k - Len(before)]
      BY ONLY <2>1, <2>2, <2>3, ConcatProperties
    <3>2. Len(before) + Len(after) = l - 1
      BY <2>2, <2>3, <2>6
    <3> QED
      BY <2>2, <3>1, <3>2
  <2>5. ASSUME NEW m \in DOMAIN view.reads, m # n
        PROVE  \E k \in DOMAIN reads : reads[k] = view.reads[m]
    <3>1. CASE m < n
      BY <2>2, <2>4, <2>5, <2>6, <3>1
    <3>2. CASE m > n
      <4>1. /\ m - 1 \in 1 .. l - 1 /\ m - n \in 1 .. l - n /\ ~(m - 1 <= n - 1)
            /\ m - 1 - (n - 1) = m - n /\ n + (m - n) = m
        BY <2>5, <2>6, <3>2
      <4>2. reads[m - 1] = after[m - n] /\ after[m - n] = view.reads[m]
        BY <2>3, <2>4, <4>1
      <4> QED
        BY <2>4, <4>1, <4>2
    <3> QED
      BY <2>5, <2>6, <3>1, <3>2
  <2> QED
    BY <2>4, <2>5
<1> HIDE DEF reads, read
<1>4. /\ DOMAIN rest = Fields /\ rest.import = view.import /\ rest.selected = view.selected
      /\ rest.reads = reads /\ rest.confirming = view.confirming /\ rest.listing = view.listing
      /\ rest.listed = view.listed
  BY MovesTypes DEF Fields
<1>5. IsView(rest) /\ Tidy(rest)
  <2>1. Steady(view, rest)
    BY MovesTypes, OtherFields DEF Fields
  <2> QED
    BY <1>3, <1>4, <2>1, MovesTypes DEF Steady, Stands, Tidy
<1>6. read.then = "refresh" \/ Onward(view, rest)
  <2>1. Asked(view) => read.then = "refresh" \/ Asked(rest)
    BY <1>2, <1>3, <1>4 DEF Asked, read
  <2> QED
    BY <1>4, <1>5, <2>1 DEF Onward, Due
<1> HIDE DEF rest
<1>7. ASSUME read.found # Null
      PROVE  IsView(newer) /\ Tidy(newer) /\ Onward(rest, newer)
  <2>1. read.found \in Listings
    BY <1>2, <1>7 DEF ReadRecords
  <2>2. /\ DOMAIN newer = Fields /\ newer.import = rest.import /\ newer.selected = rest.selected
        /\ newer.reads = rest.reads /\ newer.confirming = rest.confirming
        /\ newer.listing = rest.listing /\ newer.listed = read.found
    BY <1>4 DEF Fields
  <2>3. newer.held = rest.held /\ newer.draft = rest.draft /\ newer.kept = rest.kept
        /\ newer.confirmation = rest.confirmation /\ newer.recovering = rest.recovering
    BY <1>4 DEF Fields
  <2> HIDE DEF newer
  <2> QED
    BY <1>5, <2>1, <2>2, <2>3, SameOnward DEF IsView, Onward
<1> HIDE DEF newer
<1>8. \/ Onward(rest, view')
  BY <1>1, <1>5, <1>7, AfterReadOnward, OnwardOn
<1>9. read.then = "refresh" => Due(view')
  BY <1>1, <1>5, <1>7, AfterReadOnward
<1>10. Onward(view, view')
  BY <1>6, <1>8, <1>9, OnwardOn DEF Onward
<1> QED
  BY <1>1, <1>10, MovesTypes, SettleSessionsStep, ViewMoves

\* The records that arrived show what the presented import has pending.
LEMMA ReadEntriesMoves == ASSUME MovesInv, ReadEntries PROVE MovesInv'
<1> DEFINE s == SessionOf(view.import)
           records == RecordsOf(view.import)
           kept == [e \in Entries |->
                        IF e \notin view.selected THEN 0
                        ELSE IF view.kept[e] = 0 /\ records[e] # Null THEN records[e].revision
                        ELSE view.kept[e]]
           read == [view EXCEPT !.listing = FALSE, !.held = records, !.kept = kept]
<1>1. /\ view' = Adopt(read, s)
      /\ UNCHANGED <<row, attempt, visit, requests, behind>>
  BY DEF ReadEntries, Observe
<1>2. s.import = view.import /\ (PendingIn(view.import) = {} => ~(s.pending > 0))
  BY FS_EmptySet DEF SessionOf
<1>3. /\ records \in [Entries -> HeldRecords \cup {Null}]
      /\ \A e \in Entries : records[e] # Null => ImportOf[e] = view.import
  BY MovesTypes, RecordsHeld DEF PageInv, PageTypes
<1>4. kept \in [Entries -> Nat]
  <2>1. ASSUME NEW e \in Entries PROVE kept[e] \in Nat
    <3>1. view.kept[e] \in Nat /\ (records[e] # Null => records[e].revision \in Nat)
      BY <1>3, MovesTypes DEF IsView, HeldRecords
    <3> QED
      BY <3>1
  <2> QED
    BY <2>1
<1> HIDE DEF records, kept, s
<1>5. /\ DOMAIN read = Fields /\ read.import = view.import /\ read.held = records
      /\ read.kept = kept /\ read.draft = view.draft /\ read.selected = view.selected
      /\ read.confirmation = view.confirmation /\ read.confirming = view.confirming
      /\ read.recovering = view.recovering /\ read.reads = view.reads
      /\ read.listed = view.listed /\ read.listing = FALSE
  BY MovesTypes DEF Fields
<1> HIDE DEF read
<1>6. IsView(read) /\ ViewAgrees(read) /\ Tidy(read)
  BY <1>3, <1>4, <1>5, MovesTypes DEF IsView, ViewAgrees, Tidy
<1>7. Onward(read, view') /\ (PendingIn(view.import) = {} => Due(view'))
  BY <1>1, <1>2, <1>5, <1>6, AdoptOnward DEF IsView
<1>8. Due(view') \/ (view'.import = view.import /\ PendingIn(view.import) # {})
  BY <1>5, <1>7 DEF Onward
<1>9. AttemptsTidy(attempt') /\ Tidy(view') /\ PageInv'
  BY <1>1, <1>7, MovesTypes, ReadEntriesStep DEF Onward
<1>10. CASE Due(view')
  BY <1>9, <1>10, DueMoves
<1>11. CASE view'.import = view.import /\ PendingIn(view.import) # {}
  BY <1>1, <1>9, <1>11 DEF MovesInv, Alive, PendingIn, Tidy, AttemptsTidy, Due, Asked
<1> QED
  BY <1>8, <1>10, <1>11

LEMMA ChooseImportMoves == ASSUME MovesInv, NEW i \in Imports, ChooseImport(i) PROVE MovesInv'
<1>1. view' = Present(view, i) /\ UNCHANGED <<row, attempt, visit, requests, behind>>
  BY DEF ChooseImport
<1> QED
  BY <1>1, MovesTypes, PresentOnward, ChooseImportStep, ViewMoves

LEMMA ReconcileMoves == ASSUME MovesInv, Reconcile PROVE MovesInv'
<1>1. /\ view' = ReadSessions(view, "refresh")
      /\ UNCHANGED <<row, attempt, visit, requests, behind>>
  BY DEF Reconcile
<1> QED
  BY <1>1, MovesTypes, ReadSessionsOnward, ReconcileStep, ViewMoves DEF Thens

LEMMA RecoverMoves == ASSUME MovesInv, RecoverConfirmation PROVE MovesInv'
<1>1. /\ view' = StartRecovery(view)
      /\ UNCHANGED <<row, attempt, visit, requests, behind>>
  BY DEF RecoverConfirmation
<1> QED
  BY <1>1, MovesTypes, RecoveryOnward, RecoverStep, ViewMoves

LEMMA SetSelectedMoves == ASSUME MovesInv, NEW e \in Entries, SetSelected(e) PROVE MovesInv'
<1>1. /\ view.held[e] # Null /\ UNCHANGED <<row, attempt, visit, requests, behind>>
      /\ view' = IF e \in view.selected
                 THEN [view EXCEPT !.selected = @ \ {e}, !.kept[e] = 0]
                 ELSE [view EXCEPT !.selected = @ \cup {e}, !.kept[e] = view.held[e].revision]
  BY DEF SetSelected
<1>2. /\ view'.import = view.import /\ view'.reads = view.reads
      /\ view'.confirming = view.confirming /\ view'.listing = view.listing
      /\ view'.listed = view.listed /\ view'.selected \subseteq view.selected \cup {e}
  BY <1>1, MovesTypes DEF Fields
<1>3. Onward(view, view')
  BY <1>1, <1>2, MovesTypes DEF Onward, Tidy, Due, Asked, ViewAgrees
<1> QED
  BY <1>1, <1>3, MovesTypes, SetSelectedStep, ViewMoves

LEMMA EditMoves ==
    ASSUME MovesInv, NEW e \in Entries, NEW value \in Values, Edit(e, value) PROVE MovesInv'
<1>1. UNCHANGED <<row, attempt, visit, requests, behind>>
  BY DEF Edit
<1>2. DraftsAlone(view, view')
  BY MovesTypes, EditsAlone
<1> QED
  BY <1>1, <1>2, MovesTypes, EditStep, SameOnward, ViewMoves DEF Tidy, DraftsAlone

LEMMA UnseenOnward == Tidy(view) /\ view' = view => Onward(view, view')
BY DEF Onward, Tidy, Due, Asked

LEMMA RequestMoves ==
    ASSUME MovesInv, PageInv', requests \subseteq requests',
           UNCHANGED <<row, attempt, view, visit, behind>>
    PROVE  MovesInv'
<1>1. \A i : Alive(i) => Alive(i)'
  BY DEF Alive, PendingIn, Awaited, Concerns, Retained
<1> QED
  BY <1>1, MovesTypes, UnseenOnward, Moves

LEMMA DecidingMoves ==
    ASSUME MovesInv,
           DiscardImport \/ \E e \in Entries : SaveReview(e) \/ RemoveEntry(e)
    PROVE  MovesInv'
<1>1. requests \subseteq requests' /\ UNCHANGED <<row, attempt, view, visit, behind>>
  BY DEF DiscardImport, SaveReview, RemoveEntry, Request
<1> QED
  BY <1>1, MovesTypes, RequestMoves, DiscardImportStep, SaveReviewStep, RemoveEntryStep

\* What is decided of an import is awaited until it is told of.
LEMMA ServeMoves == ASSUME MovesInv, NEW r \in requests, Serve(r) PROVE MovesInv'
<1> DEFINE whole == r.kind = "discard-import"
           named == IF whole THEN PendingIn(r.target) ELSE {r.target}
           j == IF whole THEN r.target ELSE ImportOf[r.target]
           answer(outcome) == [r EXCEPT !.outcome = outcome,
                                 !.session = IF outcome = "committed" THEN SessionOf(j)' ELSE Null]
           answered(outcome) == requests' = (requests \ {r}) \cup {answer(outcome)}
<1>1. /\ UNCHANGED <<attempt, view, visit, behind>> /\ r.outcome = Null
      /\ \/ /\ ~whole => row[r.target].state = "pending"
            /\ row' = [e \in Entries |->
                    IF e \notin named THEN row[e]
                    ELSE IF r.kind = "review" THEN Changed(e, "pending", r.value)
                    ELSE Changed(e, "discarded", row[e].value)]
            /\ \E outcome \in {"committed", "unknown"} : answered(outcome)
         \/ UNCHANGED row /\ \E outcome : answered(outcome)
  BY DEF Serve, Quoted
<1>2. IsRequest(r)
  BY MovesTypes DEF PageInv, PageTypes
<1>3. ASSUME NEW outcome
      PROVE  /\ answer(outcome).outcome = outcome /\ answer(outcome).kind = r.kind
             /\ answer(outcome).target = r.target
  BY <1>2 DEF IsRequest, RequestFields
<1> HIDE DEF answer
<1>4. PICK outcome : answered(outcome)
  BY <1>1
<1>5. \A i : Awaited(i) => Awaited(i)'
  BY <1>1, <1>4, NullAssumption DEF Awaited, Concerns, Retained
<1>6. ASSUME NEW i, PendingIn(i) # {} PROVE Alive(i)'
  <2>1. CASE UNCHANGED row
    BY <1>6, <2>1 DEF Alive, PendingIn
  <2>2. CASE /\ ~whole => row[r.target].state = "pending"
             /\ row' = [e \in Entries |->
                  IF e \notin named THEN row[e]
                  ELSE IF r.kind = "review" THEN Changed(e, "pending", r.value)
                  ELSE Changed(e, "discarded", row[e].value)]
             /\ \E answer1 \in {"committed", "unknown"} : answered(answer1)
    <3>1. CASE r.kind = "review" \/ j # i
      <4>1. PICK e \in Entries : ImportOf[e] = i /\ row[e].state = "pending"
        BY <1>6 DEF PendingIn
      <4>2. row'[e].state = "pending"
        BY <1>2, <2>2, <3>1, <4>1 DEF PendingIn, Changed, IsRequest
      <4> QED
        BY <4>1, <4>2 DEF Alive, PendingIn
    <3>2. CASE r.kind # "review" /\ j = i
      BY <1>3, <2>2, <3>2 DEF Alive, Awaited, Concerns
    <3> QED
      BY <3>1, <3>2
  <2> QED
    BY <1>1, <2>1, <2>2
<1>7. \A i : Alive(i) => Alive(i)'
  BY <1>5, <1>6 DEF Alive
<1> QED
  BY <1>1, <1>7, MovesTypes, UnseenOnward, ServeStep, Moves

\* A discard that is answered has the import read again that it names.
LEMMA FinishMoves == ASSUME MovesInv, NEW r \in requests, Finish(r) PROVE MovesInv'
<1> DEFINE j == IF r.kind = "discard-import" THEN r.target ELSE ImportOf[r.target]
           told == IF r.outcome = "committed" /\ visit.open THEN Notified(view, j) ELSE view
           Bare(v, w) == w.import = v.import /\ w.selected = v.selected /\ w.reads = v.reads
               /\ w.confirming = v.confirming /\ w.listing = v.listing /\ w.listed = v.listed
               /\ DOMAIN w = Fields
<1>1. /\ requests' = requests \ {r} /\ UNCHANGED <<row, attempt, visit>>
      /\ view' = IF ~Live(r.visit) THEN told
                 ELSE IF r.kind = "review" THEN FinishReview(told, r)
                 ELSE IF r.kind = "discard" THEN FinishRemove(told, r)
                 ELSE FinishDiscard(told, r)
      /\ behind' = (behind \/ (~Live(r.visit) /\ r.outcome = "unknown"))
  BY DEF Finish
<1>2. IsRequest(r) /\ IsView(told) /\ ViewAgrees(told)
  BY MovesTypes, NotifiedSteady DEF PageInv, PageTypes, Steady, Stands
<1>3. Onward(view, told) /\ (r.outcome = "committed" /\ visit.open /\ j = view.import => Due(told))
  BY MovesTypes, NotifiedOnward DEF Onward
<1> HIDE DEF told
<1>4. DOMAIN told = Fields /\ Tidy(told)
  BY <1>2, <1>3 DEF IsView, Onward
<1>5. ASSUME NEW v, Bare(told, v) PROVE Onward(told, v)
  BY <1>4, <1>5, SameOnward DEF Tidy
<1>6. ASSUME NEW v, Onward(told, v), DOMAIN v = Fields, NEW then \in {"keep", "refresh"}
      PROVE  Onward(told, ReadSessions(v, then))
             /\ (then = "refresh" => Due(ReadSessions(v, then)))
  BY <1>6, ReadSessionsOnward, OnwardOn DEF Onward, Thens
<1>7. Onward(told, told)
  BY <1>4 DEF Onward
<1>8. ASSUME Live(r.visit), r.kind = "review" PROVE Onward(told, view')
  <2> DEFINE cleared == IF told.draft[r.target] # r.value THEN told
                        ELSE Dropped(told, {r.target})
  <2>1. \/ view' = told \/ view' = Adopt(cleared, r.session)
        \/ view' = ReadSessions(told, "refresh")
    BY <1>1, <1>8 DEF FinishReview
  <2>2. Stands(told, cleared) /\ (cleared = told \/ DraftsAlone(told, cleared))
    BY <1>2, DraftsDropped, SteadyItself DEF Steady
  <2> HIDE DEF cleared
  <2>3. Onward(told, cleared)
    BY <1>5, <1>7, <2>2 DEF DraftsAlone
  <2>5. Onward(cleared, Adopt(cleared, r.session))
    BY <2>2, <2>3, AdoptOnward DEF Onward, Stands, IsView
  <2> QED
    BY <1>4, <1>6, <1>7, <2>1, <2>3, <2>5, OnwardOn
<1>9. ASSUME Live(r.visit), r.kind # "review"
      PROVE  Onward(told, view') /\ (r.outcome # "committed" => Due(view'))
  <2> DEFINE removed == Dropped(told, {r.target})
             all == Dropped(told, {e \in Entries : told.held[e] # Null})
             discarded == [all EXCEPT !.kept = Unread]
  <2>1. \/ view' = ReadSessions(told, "refresh")
        \/ r.outcome = "committed" /\ \E v \in {told, removed, discarded} :
              view' = ReadSessions(v, "keep")
    BY <1>1, <1>2, <1>9 DEF FinishRemove, FinishDiscard, IsRequest
  <2>2. Bare(told, removed) /\ Bare(told, discarded)
    <3>1. DraftsAlone(told, removed) /\ DraftsAlone(told, all)
      BY <1>4, DroppedAlone
    <3> HIDE DEF removed, all
    <3> QED
      BY <3>1 DEF DraftsAlone, Fields
  <2> HIDE DEF removed, discarded
  <2>3. /\ Onward(told, removed) /\ DOMAIN removed = Fields
        /\ Onward(told, discarded) /\ DOMAIN discarded = Fields
    BY <1>5, <2>2
  <2> HIDE DEF Bare
  <2> QED
    BY <1>4, <1>6, <1>7, <2>1, <2>3
<1>10. Onward(told, view') /\ Onward(view, view')
  BY <1>1, <1>3, <1>7, <1>8, <1>9, OnwardOn
<1>11. ASSUME visit.open, ~behind', ~Due(view'), NEW i, i = view.import, Alive(i)
       PROVE  Alive(i)'
  <2>1. ~Due(told)
    BY <1>10, <1>11 DEF Onward
  <2>2. r.kind = "review" \/ j # i \/ r.outcome \notin {"committed", "unknown"}
    BY <1>1, <1>3, <1>9, <1>11, <2>1 DEF Live
  <2>3. ~(r.kind # "review" /\ Concerns(r, i) /\ r.outcome \in {"committed", "unknown"})
    BY <2>2 DEF Concerns
  <2>4. PendingIn(i)' = PendingIn(i) /\ (Awaited(i) => Awaited(i)')
    BY <1>1, <2>3 DEF PendingIn, Awaited, Concerns, Retained
  <2> QED
    BY <1>11, <2>4 DEF Alive
<1> QED
  BY <1>1, <1>10, <1>11, MovesTypes, FinishStep, Moves

LEMMA ElsewhereMoves == ASSUME MovesInv, NEW e \in Entries, Elsewhere(e) PROVE MovesInv'
<1>1. behind' = TRUE /\ UNCHANGED <<attempt, view, visit>>
  BY DEF Elsewhere
<1> QED
  BY <1>1, MovesTypes, UnseenOnward, ElsewhereStep, DueMoves DEF Onward

LEMMA StagedHereMoves == ASSUME MovesInv, NEW e \in Entries, StagedHere(e) PROVE MovesInv'
<1> DEFINE told == Notified(view, ImportOf[e])
           s == SessionOf(ImportOf[e])'
<1>1. /\ UNCHANGED <<attempt, visit, requests, behind>> /\ row[e].state = "absent"
      /\ \E value \in Values : row' = [row EXCEPT ![e] = Changed(e, "pending", value)]
      /\ view' = ReadSessions(told, ImportOf[e]) \/ view' = Adopt(told, s)
  BY DEF StagedHere
<1>2. Onward(view, told) /\ IsView(told) /\ ViewAgrees(told)
  BY MovesTypes, NotifiedSteady, NotifiedOnward DEF Steady, Stands
<1> HIDE DEF told, s
<1>3. ImportOf[e] \in Thens
  BY EditorAssumption DEF Thens
<1>4. Onward(told, view')
  BY <1>1, <1>2, <1>3, ReadSessionsOnward, AdoptOnward DEF Onward, IsView
<1>5. ASSUME NEW i, PendingIn(i) # {} PROVE PendingIn(i)' # {}
  <2>1. PICK f \in Entries : ImportOf[f] = i /\ row[f].state = "pending"
    BY <1>5 DEF PendingIn
  <2>2. row'[f].state = "pending"
    BY <1>1, <2>1, MovesTypes DEF PageInv, PageTypes
  <2> QED
    BY <2>1, <2>2 DEF PendingIn
<1>6. \A i : Alive(i) => Alive(i)'
  BY <1>1, <1>5 DEF Alive, Awaited, Concerns, Retained
<1> QED
  BY <1>1, <1>2, <1>4, <1>6, MovesTypes, StagedHereStep, OnwardOn, Moves

LEMMA ReturnMoves == ASSUME MovesInv, Return PROVE MovesInv'
<1> DEFINE fresh == Refresh(view)
           base == [fresh EXCEPT !.confirmation = RetainedConfirmation]
           back == StartRecovery(base)
<1>1. view' = ReadSessions(back, "present") /\ UNCHANGED attempt
  BY DEF Return, Mount
<1>2. Onward(view, fresh) /\ Due(fresh) /\ IsView(fresh)
  BY MovesTypes, RefreshOnward, RefreshSteady DEF Steady, Stands
<1> HIDE DEF fresh
<1>3. /\ base.import = fresh.import /\ base.selected = fresh.selected /\ base.reads = fresh.reads
      /\ base.confirming = fresh.confirming /\ base.listing = fresh.listing
      /\ base.listed = fresh.listed /\ DOMAIN base = Fields
  BY <1>2 DEF IsView, Fields
<1> HIDE DEF base
<1>4. Onward(fresh, base)
  BY <1>2, <1>3, SameOnward DEF Onward, Tidy
<1>5. Onward(base, back) /\ DOMAIN back = Fields
  BY <1>3, <1>4, RecoveryOnward DEF Onward, StartRecovery
<1> HIDE DEF back
<1>6. Onward(back, view')
  BY <1>1, <1>5, ReadSessionsOnward DEF Onward, Thens
<1>7. Tidy(view') /\ Due(view')
  BY <1>2, <1>4, <1>5, <1>6 DEF Onward
<1> QED
  BY <1>1, <1>7, MovesTypes, ReturnStep, DueMoves

LEMMA LeaveMoves == ASSUME MovesInv, Leave PROVE MovesInv'
<1> DEFINE kept == [e \in Entries |->
                        IF e \notin view.selected THEN 0
                        ELSE IF view.held[e] # Null THEN view.held[e].revision
                        ELSE view.kept[e]]
<1>1. /\ visit' = [visit EXCEPT !.open = FALSE] /\ UNCHANGED attempt
      /\ view' = [NewView EXCEPT !.import = view.import, !.draft = view.draft,
                    !.before = view.before, !.selected = view.selected, !.kept = kept]
  BY DEF Leave
<1> HIDE DEF kept
<1>2. /\ view'.import = view.import /\ view'.selected = view.selected /\ view'.reads = <<>>
      /\ view'.confirming = Null /\ view'.listing = FALSE
      /\ view'.listed = [i \in Imports |-> "unlisted"]
  BY <1>1 DEF NewView
<1>3. view'.reads \in Seq(ReadRecords) /\ view'.listed \in Listings
  BY <1>2 DEF Listings
<1>4. Tidy(view')
  BY <1>2, <1>3, MovesTypes DEF Tidy
<1>5. visit'.open = FALSE
  BY <1>1, MovesTypes DEF PageInv, PageTypes
<1> QED
  BY <1>1, <1>4, <1>5, MovesTypes, LeaveStep, DueMoves

\* A batch of one import is sent, and what is left of the same.
LEMMA DispatchMoves ==
    ASSUME NEW v, DOMAIN v = Fields, Tidy(v), NEW i, NEW rest, NEW A,
           A \in [Attempts -> AttemptRecords \cup {Null}], AttemptsTidy(A),
           \A e \in DOMAIN rest : ImportOf[e] = i, Dispatch(v, i, rest, A)
    PROVE  /\ Onward(v, view') /\ AttemptsTidy(attempt')
           /\ \A o \in Attempts : A[o] # Null => attempt'[o] = A[o]
<1> DEFINE o == CHOOSE unused \in Attempts : A[unused] = Null
<1>1. PICK batch \in SUBSET DOMAIN rest :
         /\ \E unused \in Attempts : A[unused] = Null
         /\ attempt' = [A EXCEPT ![o] = [import |-> i, entries |-> batch, at |-> "sent",
                           quoted |-> [e \in batch |-> rest[e]], told |-> "pending"]]
         /\ view' = [v EXCEPT !.confirmation = o, !.confirming =
               [op |-> o, import |-> i, rest |-> [e \in DOMAIN rest \ batch |-> rest[e]]]]
  BY DEF Dispatch
<1>2. o \in Attempts /\ A[o] = Null
  BY <1>1
<1> HIDE DEF o
<1>3. AttemptsTidy(attempt') /\ \A p \in Attempts : A[p] # Null => attempt'[p] = A[p]
  BY <1>1, <1>2 DEF AttemptsTidy
<1> DEFINE left == [e \in DOMAIN rest \ batch |-> rest[e]]
<1>4. DOMAIN left \subseteq DOMAIN rest
  OBVIOUS
<1> HIDE DEF left
<1>5. /\ view'.import = v.import /\ view'.selected = v.selected /\ view'.reads = v.reads
      /\ view'.listing = v.listing /\ view'.listed = v.listed
      /\ view'.confirming = [op |-> o, import |-> i, rest |-> left]
  BY <1>1 DEF Fields, left
<1>6. view'.confirming.rest = left /\ view'.confirming.import = i
  BY <1>5
<1>7. Tidy(view')
  BY <1>4, <1>5, <1>6 DEF Tidy
<1> QED
  BY <1>3, <1>5, <1>7 DEF Onward, Due, Asked

LEMMA ConfirmSelectionMoves == ASSUME MovesInv, ConfirmSelection PROVE MovesInv'
<1> DEFINE rest == [e \in view.selected |-> ReviewedRevision(view, e)]
<1>1. /\ Dispatch(view, view.import, rest, attempt) /\ UNCHANGED <<row, visit, requests, behind>>
  BY DEF ConfirmSelection
<1>2. attempt \in [Attempts -> AttemptRecords \cup {Null}]
  BY MovesTypes DEF PageInv, PageTypes
<1>3. \A e \in DOMAIN rest : ImportOf[e] = view.import
  BY MovesTypes DEF Tidy
<1> HIDE DEF rest
<1>4. /\ Onward(view, view') /\ AttemptsTidy(attempt')
      /\ \A o \in Attempts : attempt[o] # Null => attempt'[o] = attempt[o]
  BY <1>1, <1>2, <1>3, MovesTypes, DispatchMoves
<1>5. \A i : Alive(i) => Alive(i)'
  BY <1>1, <1>4 DEF Alive, PendingIn, Awaited, Concerns, Retained
<1> QED
  BY <1>1, <1>4, <1>5, MovesTypes, ConfirmSelectionStep, Moves

\* What a confirmation decided is awaited until its outcome is told.
LEMMA ServeConfirmationMoves ==
    ASSUME MovesInv, NEW o \in Attempts, ServeConfirmation(o) PROVE MovesInv'
<1> DEFINE quoted == attempt[o].quoted
<1>1. /\ attempt[o] # Null /\ attempt[o].at = "sent" /\ UNCHANGED <<view, visit, requests>>
      /\ behind' = (behind \/ attempt[o].told # "pending")
      /\ \/ /\ row' = [e \in Entries |-> IF e \in DOMAIN quoted
                             THEN Changed(e, "confirmed", row[e].value) ELSE row[e]]
            /\ attempt' = [attempt EXCEPT ![o].at = "applied"]
         \/ attempt' = [attempt EXCEPT ![o].at = "refused"] /\ UNCHANGED row
  BY DEF ServeConfirmation
<1>2. /\ attempt[o] \in AttemptRecords /\ DOMAIN quoted = attempt[o].entries
      /\ attempt \in [Attempts -> AttemptRecords \cup {Null}]
  BY <1>1, MovesTypes DEF PageInv, PageTypes, AttemptAgrees
<1> HIDE DEF quoted
<1>3. PICK at \in {"applied", "refused"} :
         attempt' = [attempt EXCEPT ![o] = [attempt[o] EXCEPT !.at = at]]
         /\ (at = "refused" => UNCHANGED row)
  BY <1>1, <1>2
<1> DEFINE new == [attempt[o] EXCEPT !.at = at]
<1>4. /\ new \in AttemptRecords /\ new.at = at /\ new.entries = attempt[o].entries
      /\ new.import = attempt[o].import /\ new.told = attempt[o].told
  BY <1>2 DEF AttemptRecords
<1> HIDE DEF new
<1>5. /\ attempt'[o] = new /\ \A p \in Attempts : p # o => attempt'[p] = attempt[p]
  BY <1>2, <1>3 DEF new
<1>6. AttemptsTidy(attempt')
  BY <1>1, <1>4, <1>5, MovesTypes DEF AttemptsTidy
<1>7. \A i : Awaited(i) => Awaited(i)'
  BY <1>1, <1>4, <1>5 DEF Awaited, Concerns, Retained
<1>8. ASSUME NEW i, ~behind', PendingIn(i) # {} PROVE Alive(i)'
  <2>1. CASE UNCHANGED row
    BY <1>8, <2>1 DEF Alive, PendingIn
  <2>2. CASE attempt[o].import = i /\ ~UNCHANGED row
    <3>1. at = "applied" /\ attempt[o].told = "pending"
      BY <1>1, <1>3, <1>8, <2>2
    <3>2. (Retained(o) /\ attempt[o].import = i /\ attempt[o].at = "applied")'
      BY <1>4, <1>5, <2>2, <3>1, NullAssumption DEF Retained
    <3> QED
      BY <3>2 DEF Alive, Awaited
  <2>3. CASE attempt[o].import # i /\ ~UNCHANGED row
    <3>1. PICK e \in Entries : ImportOf[e] = i /\ row[e].state = "pending"
      BY <1>8 DEF PendingIn
    <3>2. e \notin DOMAIN quoted
      BY <1>1, <1>2, <2>3, <3>1, MovesTypes DEF AttemptsTidy
    <3>3. row'[e] = row[e]
      BY <1>1, <2>3, <3>2
    <3> QED
      BY <3>1, <3>3 DEF Alive, PendingIn
  <2> QED
    BY <2>1, <2>2, <2>3
<1>9. ~behind' => \A i : Alive(i) => Alive(i)'
  BY <1>7, <1>8 DEF Alive
<1> QED
  BY <1>1, <1>6, <1>9, MovesTypes, UnseenOnward, ServeConfirmationStep, Moves

LEMMA ForgetOnward ==
    ASSUME NEW v, DOMAIN v = Fields, Tidy(v), NEW o, NEW w, w = Forget(v, o)
    PROVE  /\ Onward(v, w) /\ DOMAIN w = Fields /\ w.confirming = v.confirming
<1>0. PICK known : known = Dropped(v, attempt[o].entries)
  OBVIOUS
<1>1. /\ w.import = v.import /\ w.selected \subseteq v.selected /\ w.reads = v.reads
      /\ w.confirming = v.confirming /\ w.listing = v.listing /\ w.listed = v.listed
      /\ DOMAIN w = Fields
  <2>1. DraftsAlone(v, known)
    BY <1>0, DroppedAlone
  <2>2. \E S, kept : w \in {known, [known EXCEPT !.selected = @ \ S, !.kept = kept]}
    BY <1>0 DEF Forget
  <2> QED
    BY <2>1, <2>2 DEF DraftsAlone, Fields
<1> QED
  BY <1>1 DEF Onward, Tidy, Due, Asked

\* The view of which a confirmation ended.
LEMMA EndedOnward ==
    ASSUME NEW v, DOMAIN v = Fields, Tidy(v), NEW w, DOMAIN w = Fields, w.import = v.import,
           w.selected = v.selected, w.reads = v.reads, w.listing = v.listing,
           w.listed = v.listed, w.confirming \in {Null, v.confirming}
    PROVE  Onward(v, w)
BY DEF Onward, Tidy, Due, Asked

\* An outcome that is told leaves what is pending and what else is awaited.
LEMMA ToldMoves ==
    ASSUME MovesInv, UNCHANGED <<row, requests>>, NEW o \in Attempts, attempt[o] # Null,
           NEW said \in {"unknown", "established"}, NEW A, A = Says(o, said)
    PROVE  /\ A \in [Attempts -> AttemptRecords \cup {Null}] /\ AttemptsTidy(A)
           /\ (\A p \in Attempts : A[p] # Null => attempt'[p] = A[p]) =>
                \A i : Alive(i) => \/ Alive(i)'
                                   \/ /\ said = "established" /\ i = attempt[o].import
                                      /\ attempt[o].at = "applied"
<1>1. attempt[o] \in AttemptRecords /\ attempt \in [Attempts -> AttemptRecords \cup {Null}]
  BY MovesTypes DEF PageInv, PageTypes
<1> DEFINE new == [attempt[o] EXCEPT !.told = said]
<1>2. /\ new \in AttemptRecords /\ new.at = attempt[o].at /\ new.entries = attempt[o].entries
      /\ new.import = attempt[o].import /\ new.told = said
  BY <1>1 DEF AttemptRecords
<1>3. A = [attempt EXCEPT ![o] = new]
  BY <1>1 DEF Says
<1> HIDE DEF new
<1>4. A \in [Attempts -> AttemptRecords \cup {Null}] /\ A[o] = new /\ new # Null
      /\ \A p \in Attempts : p # o => A[p] = attempt[p]
  BY <1>1, <1>2, <1>3, NullAssumption
<1>5. AttemptsTidy(A)
  BY <1>2, <1>4, MovesTypes DEF AttemptsTidy
<1>6. ASSUME \A p \in Attempts : A[p] # Null => attempt'[p] = A[p], NEW i, Alive(i)
      PROVE  \/ Alive(i)'
             \/ said = "established" /\ i = attempt[o].import /\ attempt[o].at = "applied"
  <2>1. CASE PendingIn(i) # {}
    BY <2>1 DEF Alive, PendingIn
  <2>2. CASE \E r \in requests : /\ r.kind # "review" /\ Concerns(r, i)
                                 /\ r.outcome \in {"committed", "unknown"}
    BY <2>2 DEF Alive, Awaited, Concerns
  <2>3. ASSUME NEW p \in Attempts, Retained(p), attempt[p].import = i,
               attempt[p].at = "applied", said # "established" \/ p # o
        PROVE  Alive(i)'
    <3>1. A[p] # Null /\ A[p].told # "established" /\ A[p].import = i /\ A[p].at = "applied"
      BY <1>2, <1>4, <2>3 DEF Retained
    <3>2. (Retained(p) /\ attempt[p].import = i /\ attempt[p].at = "applied")'
      BY <1>6, <3>1 DEF Retained
    <3> QED
      BY <3>2 DEF Alive, Awaited
  <2> QED
    BY <1>6, <2>1, <2>2, <2>3 DEF Alive, Awaited
<1> QED
  BY <1>4, <1>5, <1>6

LEMMA FinishConfirmationMoves ==
    ASSUME MovesInv, NEW o \in Attempts, FinishConfirmation(o) PROVE MovesInv'
<1>1. attempt[o] # Null /\ UNCHANGED <<row, visit, requests, behind>>
  BY DEF FinishConfirmation
<1>2. PICK outcome \in {"applied", "refused", "unknown"} :
         LET A == [attempt EXCEPT ![o].told =
                      IF outcome = "unknown" THEN "unknown" ELSE "established"]
             told == IF outcome = "applied" /\ visit.open
                     THEN Notified(view, attempt[o].import) ELSE view
             mine == visit.open /\ view.confirming # Null /\ view.confirming.op = o
             known == IF outcome = "unknown" THEN told ELSE [told EXCEPT !.confirmation = Null]
         IN  /\ outcome # "unknown" => attempt[o].at = outcome
             /\ IF ~mine THEN view' = told /\ attempt' = A
                ELSE IF outcome # "applied"
                THEN /\ view' = ReadSessions([known EXCEPT !.confirming = Null], "refresh")
                     /\ attempt' = A
                ELSE IF DOMAIN view.confirming.rest = {}
                THEN /\ view' = ReadSessions([Forget(known, o) EXCEPT !.confirming = Null], "keep")
                     /\ attempt' = A
                ELSE Dispatch(Forget(known, o), view.confirming.import, view.confirming.rest, A)
  BY DEF FinishConfirmation
<1> DEFINE said == IF outcome = "unknown" THEN "unknown" ELSE "established"
           A == Says(o, said)
           told == IF outcome = "applied" /\ visit.open
                   THEN Notified(view, attempt[o].import) ELSE view
           known == IF outcome = "unknown" THEN told ELSE [told EXCEPT !.confirmation = Null]
           ended == [known EXCEPT !.confirming = Null]
           forgot == Forget(known, o)
           over == [forgot EXCEPT !.confirming = Null]
<1>3. /\ outcome # "unknown" => attempt[o].at = outcome
      /\ \/ view' = told /\ attempt' = A
         \/ view' = ReadSessions(ended, "refresh") /\ attempt' = A
         \/ view' = ReadSessions(over, "keep") /\ attempt' = A
         \/ /\ view.confirming # Null
            /\ Dispatch(forgot, view.confirming.import, view.confirming.rest, A)
  BY <1>2 DEF Says
<1>4. said \in {"unknown", "established"} /\ (said = "established" => attempt[o].at = outcome)
  BY <1>3
<1> HIDE DEF said
<1>5. /\ A \in [Attempts -> AttemptRecords \cup {Null}] /\ AttemptsTidy(A)
      /\ (\A p \in Attempts : A[p] # Null => attempt'[p] = A[p]) =>
           \A i : Alive(i) => \/ Alive(i)'
                              \/ /\ said = "established" /\ i = attempt[o].import
                                 /\ attempt[o].at = "applied"
  BY <1>1, <1>4, ToldMoves
<1> HIDE DEF A
<1>6. Onward(view, told) /\ told.confirming = view.confirming /\ DOMAIN told = Fields
      /\ (outcome = "applied" /\ visit.open /\ attempt[o].import = view.import => Due(told))
  BY MovesTypes, NotifiedOnward, NotifiedSteady DEF Onward, Steady, Stands, IsView
<1> HIDE DEF told
<1>7. Onward(told, known) /\ known.confirming = view.confirming /\ DOMAIN known = Fields
  BY <1>6, EndedOnward DEF Onward, Fields
<1> HIDE DEF known
<1>8. /\ Onward(told, forgot) /\ DOMAIN forgot = Fields /\ forgot.confirming = view.confirming
  BY <1>7, ForgetOnward, OnwardOn DEF Onward
<1> HIDE DEF forgot
<1>9. /\ Onward(told, ended) /\ DOMAIN ended = Fields
      /\ Onward(told, over) /\ DOMAIN over = Fields
  <2>1. Onward(known, ended) /\ DOMAIN ended = Fields
    BY <1>7, EndedOnward DEF Onward, Fields
  <2>2. Onward(forgot, over) /\ DOMAIN over = Fields
    BY <1>8, EndedOnward DEF Onward, Fields
  <2> QED
    BY <1>7, <1>8, <2>1, <2>2, OnwardOn
<1> HIDE DEF ended, over
<1>10. /\ Onward(told, view') /\ AttemptsTidy(attempt')
       /\ \A p \in Attempts : A[p] # Null => attempt'[p] = A[p]
  <2>1. CASE view' = told /\ attempt' = A
    BY <1>5, <1>6, <2>1 DEF Onward
  <2>2. CASE view' = ReadSessions(ended, "refresh") /\ attempt' = A
    BY <1>5, <1>9, <2>2, ReadSessionsOnward, OnwardOn DEF Onward, Thens
  <2>3. CASE view' = ReadSessions(over, "keep") /\ attempt' = A
    BY <1>5, <1>9, <2>3, ReadSessionsOnward, OnwardOn DEF Onward, Thens
  <2>4. CASE /\ view.confirming # Null
             /\ Dispatch(forgot, view.confirming.import, view.confirming.rest, A)
    <3>1. \A e \in DOMAIN view.confirming.rest : ImportOf[e] = view.confirming.import
      BY <2>4, MovesTypes DEF Tidy
    <3>2. /\ Onward(forgot, view') /\ AttemptsTidy(attempt')
          /\ \A p \in Attempts : A[p] # Null => attempt'[p] = A[p]
      BY <1>5, <1>8, <2>4, <3>1, DispatchMoves DEF Onward
    <3> QED
      BY <1>8, <3>2, OnwardOn
  <2> QED
    BY <1>3, <2>1, <2>2, <2>3, <2>4
<1>11. ASSUME visit.open, ~Due(view'), NEW i, i = view.import, Alive(i) PROVE Alive(i)'
  <2>1. ~Due(told)
    BY <1>10, <1>11 DEF Onward
  <2> QED
    BY <1>4, <1>5, <1>6, <1>10, <1>11, <2>1
<1>12. Onward(view, view')
  BY <1>6, <1>10, OnwardOn
<1> QED
  BY <1>1, <1>10, <1>11, <1>12, MovesTypes, FinishConfirmationStep, Moves

LEMMA FinishRecoveryMoves == ASSUME MovesInv, FinishRecovery PROVE MovesInv'
<1> DEFINE o == view.confirmation
           ended == [view EXCEPT !.recovering = FALSE]
           known == [ended EXCEPT !.confirmation = Null]
           told == Notified(known, attempt[o].import)
           forgot == Forget(told, o)
<1>1. /\ view.recovering /\ UNCHANGED <<row, visit, requests, behind>>
      /\ \/ view' = ended /\ UNCHANGED attempt
         \/ /\ attempt' = Says(o, "established")
            /\ view' = IF attempt[o].at = "applied" THEN ReadSessions(forgot, "keep") ELSE known
  BY DEF FinishRecovery, Says
<1>2. o \in Attempts /\ attempt[o] # Null
  BY <1>1, MovesTypes DEF ViewAgrees, IsView, PageInv
<1>3. Onward(view, ended) /\ DOMAIN ended = Fields /\ ended.import = view.import
  BY MovesTypes, EndedOnward DEF Fields
<1> HIDE DEF ended
<1>4. Onward(view, known) /\ DOMAIN known = Fields /\ known.import = view.import
  <2>1. Onward(ended, known) /\ DOMAIN known = Fields /\ known.import = view.import
    BY <1>3, EndedOnward DEF Fields, Onward
  <2> QED
    BY <1>3, <2>1, OnwardOn
<1> HIDE DEF known
<1>5. Onward(known, told) /\ DOMAIN told = Fields
      /\ (view.import = attempt[o].import => Due(told))
  BY <1>4, NotifiedOnward DEF Onward, Notified, Refresh
<1> HIDE DEF told
<1>6. Onward(told, forgot) /\ DOMAIN forgot = Fields
  BY <1>5, ForgetOnward DEF Onward
<1> HIDE DEF forgot
<1>7. Onward(told, ReadSessions(forgot, "keep"))
  BY <1>6, ReadSessionsOnward, OnwardOn DEF Onward, Thens
<1>8. CASE view' = ended /\ UNCHANGED attempt
  BY <1>1, <1>3, <1>8, MovesTypes, FinishRecoveryStep, ViewMoves
<1>9. CASE /\ attempt' = Says(o, "established")
           /\ view' = IF attempt[o].at = "applied" THEN ReadSessions(forgot, "keep") ELSE known
  <2> HIDE DEF o
  <2>1. /\ AttemptsTidy(attempt')
        /\ \A i : Alive(i) =>
              Alive(i)' \/ (i = attempt[o].import /\ attempt[o].at = "applied")
    BY <1>1, <1>2, <1>9, ToldMoves
  <2>2. Onward(view, view')
    BY <1>4, <1>5, <1>7, <1>9, OnwardOn
  <2>3. attempt[o].at = "applied" /\ view.import = attempt[o].import => Due(view')
    BY <1>5, <1>7, <1>9 DEF Onward
  <2>4. ASSUME ~Due(view'), NEW i, i = view.import, Alive(i) PROVE Alive(i)'
    BY <2>1, <2>3, <2>4
  <2> QED
    BY <1>1, <2>1, <2>2, <2>4, MovesTypes, FinishRecoveryStep, Moves
<1> QED
  BY <1>1, <1>8, <1>9

LEMMA MovesStart == ASSUME ReviewInit PROVE MovesInv
<1>1. attempt = [o \in Attempts |-> Null] /\ view = ReadSessions(NewView, "present")
  BY DEF ReviewInit
<1>2. /\ DOMAIN NewView = Fields /\ NewView.import = Null /\ NewView.selected = {}
      /\ NewView.confirming = Null /\ NewView.reads = <<>> /\ NewView.listing = FALSE
      /\ NewView.listed = [i \in Imports |-> "unlisted"]
  BY DEF NewView, Fields
<1> HIDE DEF NewView
<1>3. NewView.reads \in Seq(ReadRecords) /\ NewView.listed \in Listings
  BY <1>2 DEF Listings
<1>4. Tidy(NewView)
  BY <1>2, <1>3 DEF Tidy
<1>5. Onward(NewView, view)
  BY <1>1, <1>2, <1>4, ReadSessionsOnward DEF Thens
<1>6. Due(view) /\ Tidy(view)
  BY <1>2, <1>5 DEF Onward, Due
<1> QED
  BY <1>1, <1>6, ReviewStarts DEF MovesInv

LEMMA MovesStep == ASSUME MovesInv, [ReviewNext]_reviewVars PROVE MovesInv'
<1>1. CASE Visiting
  BY <1>1, ReturnMoves, LeaveMoves, ServeSessionsMoves, SettleSessionsMoves,
     ReadEntriesMoves DEF Visiting
<1>2. CASE Presenting
  BY <1>2, ChooseImportMoves, DecidingMoves, ReconcileMoves, StagedHereMoves DEF Presenting
<1>3. CASE Reviewing(Entries)
  BY <1>3, EditMoves, DecidingMoves, ElsewhereMoves DEF Reviewing
<1>4. CASE Deciding
  BY <1>4, DecidingMoves, ServeMoves, FinishMoves DEF Deciding
<1>5. CASE Confirming
  BY <1>5, SetSelectedMoves, ConfirmSelectionMoves, RecoverMoves, FinishRecoveryMoves,
     ServeConfirmationMoves, FinishConfirmationMoves DEF Confirming
<1>6. CASE UNCHANGED reviewVars
  BY <1>6, MovesTypes, PageStep, RequestMoves DEF reviewVars
<1> QED
  BY <1>1, <1>2, <1>3, <1>4, <1>5, <1>6 DEF ReviewNext

--------
(* The theorems.                                                           *)

\* The view, the reviews in flight and the confirmations UserCards tracks agree
\* in every state of the Import page (imports.ts, import-edits.ts).
THEOREM PageInductive == ReviewSpec => []PageInv
<1>1. ReviewInit => PageInv
  BY ReviewStarts
<1>2. PageInv /\ [ReviewNext]_reviewVars => PageInv'
  BY PageStep
<1> QED
  BY <1>1, <1>2, PTL DEF ReviewSpec

\* At most one confirmation has an outcome that is not established, and the
\* mounted view is the one that recovers it (imports.ts confirmSelection,
\* recoverPendingConfirmation).
THEOREM ConfirmsOneAtATime == ReviewSpec => []OneOutstanding
<1>1. PageInv => OneOutstanding
  BY DEF PageInv
<1> QED
  BY <1>1, PageInductive, PTL

\* Unsaved input leaves an editor only with what it says committed, the entry
\* decided, the whole import discarded, or as the oldest of a full window when
\* another entry is edited (imports.ts finishReview, forgetConfirmed,
\* forgetPresentedEntries, draftFor).
THEOREM KeepsDrafts == ReviewSpec => DraftsSurvive
<1>1. PageInv /\ [ReviewNext]_reviewVars => [DraftsKept]_reviewVars
  BY PageStep
<1> QED
  BY <1>1, PageInductive, PTL DEF ReviewSpec, DraftsSurvive, DraftsKept

\* What the presented import has left to decide, or what is yet to be told of
\* it, agrees with what the view is to read again (imports.ts adoptSession,
\* reconcile, bindings/pending.ts load).
THEOREM MovesInductive == ReviewSpec => []MovesInv
<1>1. ReviewInit => MovesInv
  BY MovesStart
<1>2. MovesInv /\ [ReviewNext]_reviewVars => MovesInv'
  BY MovesStep
<1> QED
  BY <1>1, <1>2, PTL DEF ReviewSpec

\* A view at rest presents no import whose entries are all decided (imports.ts
\* adoptSession, reconcile).
THEOREM LeavesDecidedImports == ReviewSpec => []LeavesWhatIsDecided
<1>1. MovesInv => LeavesWhatIsDecided
  <2> SUFFICES ASSUME MovesInv, Rests, view.import # Null PROVE PendingIn(view.import) # {}
    BY DEF LeavesWhatIsDecided
  <2>1. visit.open /\ ~behind /\ ~Due(view)
    BY DEF Rests, Due, Asked
  <2>2. ~Awaited(view.import)
    BY DEF Rests, Awaited
  <2> QED
    BY <2>1, <2>2 DEF MovesInv, Alive
<1> QED
  BY <1>1, MovesInductive, PTL
=============================================================================
