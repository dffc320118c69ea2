-------------------------- MODULE ImportStore_proofs --------------------------
(***************************************************************************)
(* Proofs about ImportStore and ImportReads, for every value of their      *)
(* constants.  The first part is about what is stored: its types, what the *)
(* rows of a session add up to, the capture queue.  The second is about    *)
(* what the outcomes say: that an entry is confirmed by one request, at    *)
(* the revision and with the content its caller reviewed, and is owned     *)
(* once.                                                                   *)
(*                                                                         *)
(* The second argument follows one confirmation.  What it read of an entry *)
(* still describes the entry as long as the revision it quotes is the      *)
(* entry's (ReadsAgree), and from the moment it locked the session nobody  *)
(* else moves that entry (LocksHeld).  So the commit closes what was       *)
(* reviewed, and the recorded outcomes partition the confirmed entries     *)
(* (OutcomesAgree) and number the acquisitions of one content without a    *)
(* gap (BindingsAgree).                                                    *)
(*                                                                         *)
(* A part is about staging: only it adds rows, rows are kept, the attempts *)
(* of a source are counted by the records kept for it, and no two entries  *)
(* of a session have one position.  The last is about a consumer's pages:  *)
(* they begin the list of the revision they carry.                         *)
(***************************************************************************)
EXTENDS ImportReads, FiniteSetTheorems, SequenceTheorems, WellFoundedInduction, TLAPS

\* A request in flight reads, is checked, commits or ends; what it reads are
\* entries.
LEMMA ConfirmSteps ==
    ASSUME Confirm
    PROVE  \E w \in Workers :
              \/ CommitIdentical(w) \/ CommitTag(w) \/ CommitOwnership(w)
              \/ LockConfirmation(w) \/ AnswerUnchanged(w) \/ RollBack(w)
              \/ \E o \in Ops, s \in Sessions, d \in Destinations, E \in SUBSET EntryIds :
                    ReadReviewed(w, o, s, d, E)
<1>1. \A s \in Sessions : SUBSET EntriesOf(s) \subseteq SUBSET EntryIds
  BY DEF EntriesOf
<1>2. PICK w \in Workers :
          \/ CommitIdentical(w) \/ CommitTag(w) \/ CommitOwnership(w)
          \/ LockConfirmation(w) \/ AnswerUnchanged(w) \/ RollBack(w)
          \/ \E o \in Ops, s \in Sessions, d \in Destinations :
                \E E \in SUBSET EntriesOf(s) : ReadReviewed(w, o, s, d, E)
  BY DEF Confirm
<1> QED
  BY <1>1, <1>2

--------
(* The newest of a bounded set of numbers exists.                          *)

\* Max of a non-empty bounded set of naturals is one of them, and the largest
\* (the next position of an entry, the newest recorded position).
LEMMA BoundedMax ==
    ASSUME NEW S \in SUBSET Nat, S # {}, NEW n \in Nat, \A x \in S : x <= n
    PROVE  /\ Max(S) \in S
           /\ \A x \in S : x <= Max(S)
<1> DEFINE Bounds == {m \in Nat : \A x \in S : x <= m}
<1>1. n \in Bounds
  OBVIOUS
<1>2. PICK least \in Bounds : \A m \in Bounds : least <= m
  <2> DEFINE Less == {ss \in Nat \X Nat : ss[1] < ss[2]}
  <2>1. IsWellFoundedOn(Less, Nat)
    BY NatLessThanWellFounded DEF OpToRel
  <2>2. Bounds \subseteq Nat /\ Bounds # {}
    BY <1>1
  <2> HIDE DEF Bounds, Less
  <2>3. \E x \in Bounds : \A m \in Bounds : ~ (<<m, x>> \in Less)
    BY <2>1, <2>2, WFMin
  <2>4. ASSUME NEW x \in Bounds, NEW m \in Bounds, <<m, x>> \notin Less
        PROVE  x <= m
    BY <2>2, <2>4 DEF Less
  <2> QED
    BY <2>3, <2>4
<1>3. least \in S
  <2> SUFFICES ASSUME least \notin S PROVE FALSE
    OBVIOUS
  <2>1. PICK x \in S : TRUE
    OBVIOUS
  <2>2. least # 0 /\ least - 1 \in Nat
    BY <2>1
  <2>3. least - 1 \in Bounds
    BY <2>2
  <2> QED
    BY <2>3, <1>2
<1>4. \E x \in S : \A y \in S : x >= y
  BY <1>2, <1>3
<1> QED
  BY <1>4 DEF Max

--------
(* The inductive invariant: the tables are well typed and agree, and the   *)
(* positions of a session are bounded, so the next one exists.             *)

PositionsBounded ==
    \E n \in Nat : \A e \in EntryIds : entry[e] # None => entry[e].position <= n

StoreInv == TypeOK /\ RecordsAgree /\ PositionsBounded

\* A typed row is one of its table's rows exactly when it exists.
LEMMA Rows ==
    ASSUME TypeOK
    PROVE  /\ \A s \in Sessions : session[s] # None => session[s] \in SessionRows
           /\ \A e \in EntryIds : entry[e] # None => entry[e] \in EntryRows
           /\ \A w \in Workers : request[w] # None => request[w] \in Requests
           /\ \A o \in Ops : receipt[o] # None => receipt[o] \in Outcomes
BY DEF TypeOK

\* A request being served has the shape it read and its session exists.
LEMMA RequestFacts ==
    ASSUME StoreInv, NEW w \in Workers, request[w] # None
    PROVE  LET r == request[w]
           IN  /\ r \in Requests /\ RequestAgrees(r) /\ r.input \in Inputs
               /\ r.input.session \in Sessions /\ session[r.input.session] # None
               /\ r.input.destination \in Destinations
               /\ Named(r.input) \subseteq EntryIds
               /\ \A e \in Named(r.input) : r.reviewed[e] \in Contents
<1>1. request[w] \in Requests
  BY Rows DEF StoreInv
<1>2. request[w].input \in Inputs
  BY <1>1 DEF Requests
<1>3. RequestAgrees(request[w])
  BY DEF StoreInv, RecordsAgree
<1>4. \A e \in Named(request[w].input) : request[w].reviewed[e] \in Contents
  BY <1>1, <1>3 DEF RequestAgrees, Requests, Named
<1> QED
  BY <1>1, <1>2, <1>3, <1>4 DEF RequestAgrees, Inputs, Named

RequestsAgree == \A w \in Workers : request[w] # None => RequestAgrees(request[w])

\* Requests still served agree with tables that lose no row.
LEMMA RequestsKept ==
    ASSUME StoreInv,
           \A t \in Sessions : session[t] # None => session'[t] # None,
           \A e \in EntryIds : entry[e] # None => entry'[e] # None,
           \A o \in Ops : receipt[o] # None => receipt'[o] # None,
           \A v \in Workers : request'[v] # None => request'[v] = request[v]
    PROVE  RequestsAgree'
<1> SUFFICES ASSUME NEW v \in Workers, request[v] # None, request'[v] = request[v]
             PROVE  RequestAgrees(request[v])'
  BY DEF RequestsAgree
<1>1. /\ RequestAgrees(request[v]) /\ request[v].input.session \in Sessions
      /\ Named(request[v].input) \subseteq EntryIds
      /\ request[v].identical \in Ops \cup {None}
  BY RequestFacts DEF Requests
<1> QED
  BY <1>1, NoneAssumption DEF RequestAgrees, Unresolved, Requests

\* The next position of a session is a position, whatever it holds.
LEMMA NextPositionType ==
    ASSUME StoreInv, NEW s \in Sessions
    PROVE  NextPosition(s) \in Nat \ {0}
<1> DEFINE S == {0} \cup {entry[e].position : e \in EntriesOf(s)}
<1>1. PICK n \in Nat : \A e \in EntryIds : entry[e] # None => entry[e].position <= n
  BY DEF StoreInv, PositionsBounded
<1>2. S \subseteq Nat
  BY Rows DEF StoreInv, EntriesOf, EntryRows
<1>3. \A x \in S : x <= n
  BY <1>1 DEF EntriesOf
<1>4. Max(S) \in S
  <2> HIDE DEF S
  <2>1. S # {}
    BY DEF S
  <2> QED
    BY <1>2, <1>3, <2>1, BoundedMax
<1> QED
  BY <1>2, <1>4 DEF NextPosition

THEOREM InitStoreInv == Init => StoreInv
<1> SUFFICES ASSUME Init PROVE StoreInv
  OBVIOUS
<1> USE DEF Init, InitState
<1>1. TypeOK
  BY BoundAssumption DEF TypeOK
<1>2. RecordsAgree
  BY DEF RecordsAgree
<1>3. PositionsBounded
  BY DEF PositionsBounded
<1> QED
  BY <1>1, <1>2, <1>3 DEF StoreInv

--------
(* Review.                                                                 *)

\* A session and an account revision published with an edit stay typed.
LEMMA PublishReviewTypes ==
    ASSUME StoreInv, NEW s \in Sessions, session[s] # None, PublishReview(s)
    PROVE  /\ session' \in [Sessions -> SessionRows \cup {None}]
           /\ \A t \in Sessions : session[t] # None => session'[t] # None
           /\ revision' \in 0 .. MaxChanges /\ revision' = revision + 1
           /\ UNCHANGED <<staged, lock, request, receipt, acquisition, binding, association>>
<1>1. session[s] \in SessionRows
  BY Rows DEF StoreInv
<1>2. [session[s] EXCEPT !.revision = @ + 1] \in SessionRows
  BY <1>1 DEF SessionRows
<1>3. session' = [session EXCEPT ![s] = [session[s] EXCEPT !.revision = @ + 1]]
  BY DEF PublishReview, BumpSession
<1>4. session \in [Sessions -> SessionRows \cup {None}] /\ revision \in 0 .. MaxChanges
  BY DEF StoreInv, TypeOK
<1>5. None \notin SessionRows
  BY NoneAssumption
<1> QED
  BY <1>2, <1>3, <1>4, <1>5, BoundAssumption
     DEF PublishReview, AdvanceRevision, confirmationVars

\* What review does to the entries: it changes pending ones, in place, and
\* they stay pending or are discarded.
Edits ==
    \A e \in EntryIds :
        \/ entry'[e] = entry[e]
        \/ /\ entry[e] # None /\ entry[e].state = "pending"
           /\ entry'[e] # None /\ entry'[e].state \in {"pending", "discarded"}
           /\ entry'[e].session = entry[e].session
           /\ entry'[e].position = entry[e].position

\* An edit preserves the invariant when it publishes its session.
LEMMA EditInv ==
    ASSUME StoreInv, NEW s \in Sessions, session[s] # None, PublishReview(s),
           entry' \in [EntryIds -> EntryRows \cup {None}], Edits
    PROVE  StoreInv'
<1>0. /\ \A e \in EntryIds : entry[e] # None => entry'[e] # None
      /\ \A e \in EntryIds : entry'[e] # None =>
               /\ entry[e] # None
               /\ entry'[e].session = entry[e].session
               /\ entry'[e].position = entry[e].position
  BY DEF Edits
<1> USE PublishReviewTypes
<1>1. TypeOK'
  BY DEF StoreInv, TypeOK
<1>2. RecordsAgree'
  <2>1. \A e \in EntryIds : entry'[e] # None =>
            staged'[e] # None /\ session'[entry'[e].session] # None
    BY <1>0, Rows DEF StoreInv, RecordsAgree, EntryRows
  <2>2. RequestsAgree'
    BY <1>0, RequestsKept
  <2>3. \A o \in Ops : receipt[o] # None => receipt[o].position <= revision'
    BY Rows DEF StoreInv, TypeOK, RecordsAgree, Outcomes
  <2> QED
    BY <2>1, <2>2, <2>3 DEF StoreInv, RecordsAgree, RequestsAgree
<1>3. PositionsBounded'
  BY <1>0 DEF StoreInv, PositionsBounded
<1> QED
  BY <1>1, <1>2, <1>3 DEF StoreInv

\* A decided row is a row.
LEMMA ClosedType ==
    ASSUME NEW row \in EntryRows, NEW state \in EntryStates
    PROVE  /\ Closed(row, state) \in EntryRows
           /\ Closed(row, state).session = row.session
           /\ Closed(row, state).position = row.position
           /\ Closed(row, state).state = state
<1>1. ASSUME NEW n \in Nat \ {0}
      PROVE  LET next == [row EXCEPT !.state = state, !.revision = n]
             IN  /\ next \in EntryRows
                 /\ next.session = row.session /\ next.position = row.position
                 /\ next.state = state
  BY DEF EntryRows
<1>2. row.revision + 1 \in Nat \ {0}
  BY DEF EntryRows
<1> QED
  BY <1>1, <1>2 DEF Closed

\* A corrected row is a row.
LEMMA CorrectedType ==
    ASSUME NEW row \in EntryRows, NEW content \in Contents
    PROVE  /\ Corrected(row, content) \in EntryRows
           /\ Corrected(row, content).session = row.session
           /\ Corrected(row, content).position = row.position
           /\ Corrected(row, content).state = row.state
<1>1. ASSUME NEW n \in Nat \ {0}
      PROVE  LET next == [row EXCEPT !.content = content, !.revision = n]
             IN  /\ next \in EntryRows
                 /\ next.session = row.session /\ next.position = row.position
                 /\ next.state = row.state
  BY DEF EntryRows
<1>2. row.revision + 1 \in Nat \ {0}
  BY DEF EntryRows
<1> QED
  BY <1>1, <1>2 DEF Corrected

LEMMA ReviewSteps ==
    ASSUME StoreInv, Review
    PROVE  \E s \in Sessions :
              /\ session[s] # None /\ PublishReview(s)
              /\ entry' \in [EntryIds -> EntryRows \cup {None}] /\ Edits
<1>0. /\ entry \in [EntryIds -> EntryRows \cup {None}]
      /\ \A e \in EntryIds : entry[e] # None =>
            /\ entry[e] \in EntryRows
            /\ entry[e].session \in Sessions
            /\ session[entry[e].session] # None
      /\ None \notin EntryRows
      /\ "discarded" \in EntryStates
  BY Rows, NoneAssumption DEF StoreInv, TypeOK, RecordsAgree, EntryRows, EntryStates
\* One entry is replaced by a row that keeps its place.
<1>1. ASSUME NEW e \in EntryIds, NEW row \in EntryRows, entry' = [entry EXCEPT ![e] = row],
             entry[e] # None, entry[e].state = "pending", PublishReview(entry[e].session),
             row.state \in {"pending", "discarded"},
             row.session = entry[e].session, row.position = entry[e].position
      PROVE  \E s \in Sessions :
                /\ session[s] # None /\ PublishReview(s)
                /\ entry' \in [EntryIds -> EntryRows \cup {None}] /\ Edits
  BY <1>0, <1>1 DEF Edits
<1>2. ASSUME NEW e \in EntryIds, NEW expected \in 1 .. MaxChanges,
             NEW content \in Reviews, CorrectEntry(e, expected, content)
      PROVE  \E s \in Sessions :
                /\ session[s] # None /\ PublishReview(s)
                /\ entry' \in [EntryIds -> EntryRows \cup {None}] /\ Edits
  <2> DEFINE row == Corrected(entry[e], content)
  <2>1. /\ entry' = [entry EXCEPT ![e] = row]
        /\ entry[e] # None /\ entry[e].state = "pending" /\ PublishReview(entry[e].session)
    BY <1>2 DEF CorrectEntry, Reviewable
  <2>2. /\ row \in EntryRows /\ row.state = "pending"
        /\ row.session = entry[e].session /\ row.position = entry[e].position
    BY <1>0, <2>1, CorrectedType, ReviewAssumption
  <2> HIDE DEF row
  <2> QED
    BY <1>1, <2>1, <2>2
<1>3. ASSUME NEW e \in EntryIds, NEW candidates \in SUBSET Candidates,
             AttachCandidates(e, candidates)
      PROVE  \E s \in Sessions :
                /\ session[s] # None /\ PublishReview(s)
                /\ entry' \in [EntryIds -> EntryRows \cup {None}] /\ Edits
  <2> DEFINE row == [entry[e] EXCEPT !.candidates = @ \cup candidates]
  <2>1. /\ entry' = [entry EXCEPT ![e] = row]
        /\ entry[e] # None /\ entry[e].state = "pending" /\ PublishReview(entry[e].session)
    BY <1>3 DEF AttachCandidates
  <2>2. /\ row \in EntryRows /\ row.state = "pending"
        /\ row.session = entry[e].session /\ row.position = entry[e].position
    BY <1>0, <1>3, <2>1 DEF EntryRows
  <2> HIDE DEF row
  <2> QED
    BY <1>1, <2>1, <2>2
<1>4. ASSUME NEW e \in EntryIds, NEW expected \in 1 .. MaxChanges,
             DiscardEntry(e, expected)
      PROVE  \E s \in Sessions :
                /\ session[s] # None /\ PublishReview(s)
                /\ entry' \in [EntryIds -> EntryRows \cup {None}] /\ Edits
  <2> DEFINE row == Closed(entry[e], "discarded")
  <2>1. /\ entry' = [entry EXCEPT ![e] = row]
        /\ entry[e] # None /\ entry[e].state = "pending" /\ PublishReview(entry[e].session)
    BY <1>4 DEF DiscardEntry, Reviewable
  <2>2. /\ row \in EntryRows /\ row.state = "discarded"
        /\ row.session = entry[e].session /\ row.position = entry[e].position
    BY <1>0, <2>1, ClosedType
  <2> HIDE DEF row
  <2> QED
    BY <1>1, <2>1, <2>2
<1>5. ASSUME NEW s \in Sessions, NEW expected \in 1 .. MaxChanges + 1,
             DiscardSession(s, expected)
      PROVE  session[s] # None /\ PublishReview(s)
             /\ entry' \in [EntryIds -> EntryRows \cup {None}] /\ Edits
  <2>1. \A e \in PendingOf(s) :
            e \in EntryIds /\ entry[e] # None /\ entry[e].state = "pending"
    BY DEF PendingOf, EntriesOf
  <2>2. entry' = [e \in EntryIds |->
            IF e \in PendingOf(s) THEN Closed(entry[e], "discarded") ELSE entry[e]]
        /\ session[s] # None /\ PublishReview(s)
    BY <1>5 DEF DiscardSession
  <2>3. \A e \in PendingOf(s) :
            LET row == Closed(entry[e], "discarded")
            IN  /\ row \in EntryRows /\ row # None /\ row.state = "discarded"
                /\ row.session = entry[e].session /\ row.position = entry[e].position
    BY <1>0, <2>1, ClosedType
  <2> QED
    BY <1>0, <2>1, <2>2, <2>3 DEF Edits
<1> QED
  BY <1>2, <1>3, <1>4, <1>5 DEF Review

LEMMA ReviewInv == ASSUME StoreInv, Review PROVE StoreInv' /\ Edits /\ UNCHANGED receipt
<1>1. UNCHANGED receipt
  BY ReviewSteps DEF PublishReview, confirmationVars
<1> QED
  BY <1>1, ReviewSteps, EditInv

--------
(* Staging.                                                                *)

\* What staging does to the entries: some that did not exist are pending, and
\* their inputs admitted; no other input is decided but a suppressed capture.
Admits ==
    \A e \in EntryIds :
        \/ /\ entry'[e] = entry[e]
           /\ \/ staged'[e] = staged[e]
              \/ /\ staged[e] = None /\ e \in InputIds
                 /\ staged'[e] # None /\ staged'[e].outcome = "suppressed"
        \/ /\ entry[e] = None /\ entry'[e] # None /\ entry'[e].state = "pending"
           /\ staged[e] = None \/ e \notin InputIds
           /\ staged'[e] # None /\ staged'[e].outcome = "admitted"

SourceOf(s) == Sources \cup {CaptureSource(s)}

\* A claimed session exists, typed, and no other session changes.
LEMMA ClaimedType ==
    ASSUME StoreInv, NEW s \in Sessions, NEW source \in SourceOf(s)
    PROVE  /\ Claimed(s, source) \in [Sessions -> SessionRows \cup {None}]
           /\ Claimed(s, source)[s] \in SessionRows
           /\ \A t \in Sessions : t # s => Claimed(s, source)[t] = session[t]
<1>1. NewSession(source) \in SessionRows
  BY DEF NewSession, SessionRows, SourceOf
<1>2. session \in [Sessions -> SessionRows \cup {None}]
  BY DEF StoreInv, TypeOK
<1> QED
  BY <1>1, <1>2 DEF Claimed

\* A call that only prepares its session preserves the invariant.
LEMMA OnlyClaimInv ==
    ASSUME StoreInv, NEW s \in Sessions, NEW source \in SourceOf(s),
           OnlyClaim(s, source), UNCHANGED confirmationVars
    PROVE  StoreInv'
<1>1. /\ session' \in [Sessions -> SessionRows \cup {None}]
      /\ \A t \in Sessions : session[t] # None => session'[t] # None
  BY ClaimedType, NoneAssumption DEF OnlyClaim
<1>2. UNCHANGED <<entry, staged, revision, lock, request, receipt,
                  acquisition, binding, association>>
  BY DEF OnlyClaim, confirmationVars
<1>3. TypeOK'
  BY <1>1, <1>2 DEF StoreInv, TypeOK
<1>4. RecordsAgree'
  <2>1. \A e \in EntryIds : entry[e] # None => entry[e].session \in Sessions
    BY Rows DEF StoreInv, EntryRows
  <2>2. RequestsAgree'
    BY <1>1, <1>2, RequestsKept
  <2> QED
    BY <1>1, <1>2, <2>1, <2>2 DEF StoreInv, RecordsAgree, RequestsAgree
<1>5. PositionsBounded'
  BY <1>2 DEF StoreInv, PositionsBounded
<1> QED
  BY <1>3, <1>4, <1>5 DEF StoreInv

\* Admitting rows at fresh identities preserves the invariant, when the
\* session they join is claimed and their positions are bounded.
LEMMA AdmitInv ==
    ASSUME StoreInv, NEW s \in Sessions, NEW last \in Nat, NEW added,
           added \subseteq EntryIds,
           session' \in [Sessions -> SessionRows \cup {None}],
           session'[s] # None,
           \A t \in Sessions : session[t] # None => session'[t] # None,
           entry' \in [EntryIds -> EntryRows \cup {None}],
           staged' \in [EntryIds -> StageRows \cup {None}],
           \A e \in EntryIds \ added : entry'[e] = entry[e] /\ staged'[e] = staged[e],
           \A e \in added : /\ entry'[e] # None /\ staged'[e] # None
                            /\ entry'[e].session = s /\ entry'[e].position <= last,
           AdvanceRevision, UNCHANGED confirmationVars
    PROVE  StoreInv'
<1>1. UNCHANGED <<lock, request, receipt, acquisition, binding, association>>
      /\ revision' \in 0 .. MaxChanges /\ revision' = revision + 1 /\ revision \in Nat
  BY BoundAssumption DEF StoreInv, TypeOK, AdvanceRevision, confirmationVars
<1>2. TypeOK'
  BY <1>1 DEF StoreInv, TypeOK
<1>3. RecordsAgree'
  <2>1. \A e \in EntryIds : entry'[e] # None =>
            staged'[e] # None /\ session'[entry'[e].session] # None
    BY Rows DEF StoreInv, RecordsAgree, EntryRows
  <2>2. \A e \in EntryIds : entry[e] # None => entry'[e] # None
    OBVIOUS
  <2>3. RequestsAgree'
    BY <1>1, <2>2, RequestsKept
  <2>4. \A o \in Ops : receipt[o] # None => receipt[o].position <= revision'
    BY <1>1, Rows DEF StoreInv, TypeOK, RecordsAgree, Outcomes
  <2> QED
    BY <1>1, <2>1, <2>3, <2>4 DEF StoreInv, RecordsAgree, RequestsAgree
<1>4. PositionsBounded'
  <2>1. PICK n \in Nat : \A e \in EntryIds : entry[e] # None => entry[e].position <= n
    BY DEF StoreInv, PositionsBounded
  <2>2. \A e \in EntryIds : entry'[e] # None => entry'[e].position \in Nat
    BY DEF EntryRows
  <2>3. \A e \in EntryIds : entry'[e] # None => entry'[e].position <= n + last
    BY <2>1, <2>2
  <2> QED
    BY <2>3 DEF PositionsBounded
<1> QED
  BY <1>2, <1>3, <1>4 DEF StoreInv

\* A fresh entry at a position is a typed row.
LEMMA NewEntryType ==
    ASSUME NEW s \in Sessions, NEW position \in Nat \ {0}, NEW key \in Keys \cup {None},
           NEW content \in Contents, NEW candidates \in SUBSET Candidates
    PROVE  LET row == NewEntry(s, position, key, content, candidates)
           IN  /\ row \in EntryRows
               /\ row.session = s /\ row.position = position /\ row.state = "pending"
BY DEF NewEntry, EntryRows, EntryStates

Lines == [id : EntryIds, key : Keys \cup {None}, content : Contents,
          candidates : SUBSET Candidates]

LEMMA InsertInv ==
    ASSUME StoreInv, NEW s \in Sessions, NEW source \in SourceOf(s),
           NEW lines, NEW n \in Nat, DOMAIN lines = 1 .. n,
           NEW fresh \in SUBSET (1 .. n), \A i \in fresh : lines[i] \in Lines,
           \A i \in fresh : staged[lines[i].id] = None \/ lines[i].id \notin InputIds,
           InsertStagedEntries(s, source, lines, fresh), UNCHANGED confirmationVars
    PROVE  StoreInv' /\ Admits
<1> DEFINE added == {lines[i].id : i \in fresh}
           Before(i) == Cardinality({j \in fresh : j < i})
           Row(e) == CHOOSE i \in fresh : lines[i].id = e
           last == NextPosition(s) + Cardinality(fresh)
           EntryAt(e) == NewEntry(s, NextPosition(s) + Before(Row(e)), lines[Row(e)].key,
                                  lines[Row(e)].content, lines[Row(e)].candidates)
           StageAt(e) == [session |-> s, outcome |-> "admitted",
                          fingerprint |-> LineFingerprint(lines[Row(e)])]
<1>1. added \subseteq EntryIds
  BY DEF Lines
<1>2. \A e \in added : Row(e) \in fresh
  OBVIOUS
<1>3. IsFiniteSet(fresh) /\ Cardinality(fresh) \in Nat
  <2>1. IsFiniteSet(1 .. n)
    BY FS_Interval
  <2> QED
    BY <2>1, FS_Subset, FS_CardinalityType
<1>4. \A i \in fresh : Before(i) \in Nat /\ Before(i) <= Cardinality(fresh)
  BY <1>3, FS_Subset, FS_CardinalityType
<1>5. NextPosition(s) \in Nat \ {0}
  BY NextPositionType
<1>6. last \in Nat
  BY <1>3, <1>5
<1>7. ASSUME NEW e \in added
      PROVE  /\ EntryAt(e) \in EntryRows /\ EntryAt(e).session = s
             /\ EntryAt(e).state = "pending"
             /\ EntryAt(e).position <= last
             /\ StageAt(e) \in StageRows /\ StageAt(e).outcome = "admitted"
  <2>1. PICK i \in fresh : i = Row(e)
    BY <1>2
  <2>2. lines[i] \in Lines /\ NextPosition(s) + Before(i) \in Nat \ {0}
    BY <1>4, <1>5
  <2>3. /\ lines[i].key \in Keys \cup {None} /\ lines[i].content \in Contents
        /\ lines[i].candidates \in SUBSET Candidates
    BY <2>2 DEF Lines
  <2>4. NextPosition(s) + Before(i) <= last
    BY <1>3, <1>4, <1>5
  <2>5. LineFingerprint(lines[i]) \in
            [kind : {"line", "capture"}, content : Contents, candidates : SUBSET Candidates]
    BY <2>3 DEF LineFingerprint
  <2> HIDE DEF Before, Row, last
  <2> QED
    BY <2>1, <2>2, <2>3, <2>4, <2>5, NewEntryType DEF StageRows
<1>8. /\ entry' = [e \in EntryIds |-> IF e \in added THEN EntryAt(e) ELSE entry[e]]
      /\ staged' = [e \in EntryIds |-> IF e \in added THEN StageAt(e) ELSE staged[e]]
      /\ session' = [Claimed(s, source) EXCEPT ![s].revision = @ + 1]
      /\ AdvanceRevision
      /\ \A e \in added : entry[e] = None /\ (staged[e] = None \/ e \notin InputIds)
  BY DEF InsertStagedEntries
<1>9. /\ session' \in [Sessions -> SessionRows \cup {None}] /\ session'[s] # None
      /\ \A t \in Sessions : session[t] # None => session'[t] # None
  <2>1. /\ Claimed(s, source) \in [Sessions -> SessionRows \cup {None}]
        /\ Claimed(s, source)[s] \in SessionRows
        /\ \A t \in Sessions : t # s => Claimed(s, source)[t] = session[t]
    BY ClaimedType
  <2>2. [Claimed(s, source)[s] EXCEPT !.revision = @ + 1] \in SessionRows
    BY <2>1 DEF SessionRows
  <2>3. session' = [Claimed(s, source) EXCEPT
                      ![s] = [Claimed(s, source)[s] EXCEPT !.revision = @ + 1]]
    BY <1>8
  <2>4. None \notin SessionRows
    BY NoneAssumption
  <2> QED
    BY <2>1, <2>2, <2>3, <2>4
<1>10. None \notin EntryRows \cup StageRows
  BY NoneAssumption
<1>11. /\ entry \in [EntryIds -> EntryRows \cup {None}]
       /\ staged \in [EntryIds -> StageRows \cup {None}]
  BY DEF StoreInv, TypeOK
<1> HIDE DEF added, EntryAt, StageAt, last
<1>12. /\ entry' \in [EntryIds -> EntryRows \cup {None}]
       /\ staged' \in [EntryIds -> StageRows \cup {None}]
       /\ \A e \in EntryIds \ added : entry'[e] = entry[e] /\ staged'[e] = staged[e]
       /\ \A e \in added : /\ entry'[e] # None /\ staged'[e] # None
                           /\ entry'[e].session = s /\ entry'[e].position <= last
                           /\ entry'[e].state = "pending"
                           /\ staged'[e].outcome = "admitted"
  BY <1>1, <1>7, <1>8, <1>10, <1>11
<1>13. Admits
  BY <1>8, <1>12 DEF Admits
<1> QED
  BY <1>1, <1>6, <1>8, <1>9, <1>12, <1>13, AdmitInv

LEMMA StageEntriesInv ==
    ASSUME StoreInv, NEW s \in Sessions, NEW source \in SourceOf(s),
           NEW batch \in LineBatches, StageEntries(s, source, batch)
    PROVE  StoreInv' /\ Admits /\ UNCHANGED receipt
<1>1. CASE OnlyClaim(s, source)
  BY <1>1, OnlyClaimInv DEF StageEntries, OnlyClaim, Admits, confirmationVars
<1>2. CASE InsertStagedEntries(s, source, batch, Fresh(batch))
  <2>1. batch \in Seq([id : InputIds, key : {None}, content : Contents,
                       candidates : SUBSET Candidates])
    BY StagingAssumption
  <2>2. DOMAIN batch = 1 .. Len(batch) /\ Len(batch) \in Nat
    BY <2>1
  <2>3. Fresh(batch) \in SUBSET (1 .. Len(batch))
    BY <2>2 DEF Fresh
  <2>4. ASSUME NEW i \in 1 .. Len(batch) PROVE batch[i] \in Lines
    <3>1. batch[i] \in [id : InputIds, key : {None}, content : Contents,
                        candidates : SUBSET Candidates]
      BY <2>1, ElementOfSeq
    <3> QED
      BY <3>1 DEF Lines, EntryIds
  <2>5. \A i \in Fresh(batch) : staged[batch[i].id] = None
    BY DEF Fresh
  <2> QED
    BY <1>2, <2>2, <2>3, <2>4, <2>5, InsertInv DEF StageEntries, confirmationVars
<1> QED
  BY <1>1, <1>2 DEF StageEntries

\* A session that accepted an identity is a session.
LEMMA AcceptingType ==
    ASSUME NEW row \in SessionRows, NEW card \in Cards \cup {None}
    PROVE  Accepting(row, card) \in SessionRows
<1>1. ASSUME NEW n \in Nat \ {0}
      PROVE  [row EXCEPT !.lastAccepted = card, !.revision = n] \in SessionRows
  BY DEF SessionRows
<1>2. row.revision + 1 \in Nat \ {0}
  BY DEF SessionRows
<1> QED
  BY <1>1, <1>2 DEF Accepting

LEMMA StageCaptureInv ==
    ASSUME StoreInv, NEW s \in Sessions, NEW id \in InputIds, NEW reading \in Readings,
           StageCapture(s, id, reading)
    PROVE  StoreInv' /\ Admits /\ UNCHANGED receipt
<1> DEFINE source == CaptureSource(s)
<1>1. source \in SourceOf(s)
  BY DEF SourceOf
<1>2. reading \in [content : Contents, candidates : SUBSET Candidates] /\ id \in EntryIds
  BY StagingAssumption DEF EntryIds
<1>3. \A outcome \in {"admitted", "suppressed"} : StageRow(s, outcome, reading) \in StageRows
  BY <1>2 DEF StageRow, CaptureFingerprint, StageRows
<1>4. StageRow(s, "admitted", reading) # None /\ StageRow(s, "suppressed", reading) # None
  BY <1>3, NoneAssumption
<1>5. CASE CaptureUnchanged(s, id, reading)
  BY <1>1, <1>5, OnlyClaimInv DEF CaptureUnchanged, OnlyClaim, Admits, confirmationVars
<1>6. CASE CaptureSuppressed(s, id, reading)
  <2>1. staged' \in [EntryIds -> StageRows \cup {None}]
        /\ \A e \in EntryIds : staged[e] # None => staged'[e] # None
    BY <1>2, <1>3, <1>4, <1>6 DEF CaptureSuppressed, StoreInv, TypeOK
  <2>2. UNCHANGED <<session, entry, revision, lock, request, receipt,
                    acquisition, binding, association>>
    BY <1>6 DEF CaptureSuppressed, confirmationVars
  <2>3. TypeOK'
    BY <2>1, <2>2 DEF StoreInv, TypeOK
  <2>4. RecordsAgree'
    <3>1. RequestsAgree'
      BY <2>2, RequestsKept
    <3> QED
      BY <2>1, <2>2, <3>1 DEF StoreInv, RecordsAgree, RequestsAgree
  <2>5. PositionsBounded'
    BY <2>2 DEF StoreInv, PositionsBounded
  <2>6. Admits
    <3>1. /\ staged[id] = None /\ staged' = [staged EXCEPT ![id] = StageRow(s, "suppressed", reading)]
          /\ StageRow(s, "suppressed", reading).outcome = "suppressed"
      BY <1>6 DEF CaptureSuppressed, Undecided, StageRow
    <3> QED
      BY <1>2, <1>4, <2>2, <3>1 DEF Admits, StoreInv, TypeOK
  <2> QED
    BY <2>2, <2>3, <2>4, <2>5, <2>6 DEF StoreInv
<1>7. CASE CaptureAdmitted(s, id, reading)
  <2> DEFINE row == NewEntry(s, NextPosition(s), None, reading.content, reading.candidates)
             stage == StageRow(s, "admitted", reading)
             added == {id}
  <2>1. NextPosition(s) \in Nat \ {0}
    BY NextPositionType
  <2>2. /\ row \in EntryRows /\ row.session = s /\ row.position = NextPosition(s)
        /\ row.state = "pending" /\ row # None
    BY <1>2, <2>1, NewEntryType, NoneAssumption
  <2>3. /\ entry' = [entry EXCEPT ![id] = row]
        /\ staged' = [staged EXCEPT ![id] = stage]
        /\ session' = AcceptIdentity(s, reading)
        /\ AdvanceRevision /\ UNCHANGED confirmationVars
    BY <1>7 DEF CaptureAdmitted
  <2>4. /\ session' \in [Sessions -> SessionRows \cup {None}] /\ session'[s] # None
        /\ \A t \in Sessions : session[t] # None => session'[t] # None
    <3> DEFINE before == Claimed(s, source)
    <3>1. /\ before \in [Sessions -> SessionRows \cup {None}]
          /\ before[s] \in SessionRows
          /\ \A t \in Sessions : t # s => before[t] = session[t]
      BY <1>1, ClaimedType
    <3> DEFINE next == Accepting(before[s], reading.content.card)
    <3>2. reading.content.card \in Cards \cup {None}
      BY <1>2 DEF Contents
    <3>3. next \in SessionRows /\ None \notin SessionRows
      BY <3>1, <3>2, AcceptingType, NoneAssumption
    <3>4. session' = [before EXCEPT ![s] = next]
      BY <2>3 DEF AcceptIdentity
    <3> HIDE DEF before, next
    <3> QED
      BY <3>1, <3>3, <3>4
  <2> HIDE DEF row, stage
  <2>5. /\ entry' \in [EntryIds -> EntryRows \cup {None}]
        /\ staged' \in [EntryIds -> StageRows \cup {None}]
        /\ \A e \in EntryIds \ added : entry'[e] = entry[e] /\ staged'[e] = staged[e]
        /\ \A e \in added : /\ entry'[e] # None /\ staged'[e] # None
                           /\ entry'[e].session = s
                           /\ entry'[e].position <= NextPosition(s)
                           /\ entry'[e].state = "pending"
                           /\ staged'[e].outcome = "admitted"
    BY <1>2, <1>3, <1>4, <2>1, <2>2, <2>3 DEF StoreInv, TypeOK, stage, StageRow
  <2>6. added \subseteq EntryIds
    BY <1>2
  <2>7. NextPosition(s) \in Nat
    BY <2>1
  <2>8. entry[id] = None /\ staged[id] = None
    BY <1>2, <1>7 DEF CaptureAdmitted, Undecided, StoreInv, RecordsAgree
  <2>9. Admits
    BY <2>5, <2>8 DEF Admits
  <2> HIDE DEF added
  <2> DEFINE last == NextPosition(s)
  <2>10. \A e \in added : /\ entry'[e] # None /\ staged'[e] # None
                          /\ entry'[e].session = s /\ entry'[e].position <= last
    BY <2>5
  <2>11. last \in Nat
    BY <2>7
  <2> HIDE DEF last
  <2>12. StoreInv'
    BY <2>3, <2>4, <2>5, <2>6, <2>10, <2>11, AdmitInv
  <2> QED
    BY <2>3, <2>9, <2>12 DEF confirmationVars
<1> QED
  BY <1>5, <1>6, <1>7 DEF StageCapture

LEMMA StageSourceLinesInv ==
    ASSUME StoreInv, NEW s \in Sessions, NEW source \in Sources,
           NEW rows \in SourceBatches, StageSourceLines(s, source, rows)
    PROVE  StoreInv' /\ Admits /\ UNCHANGED receipt
<1>1. source \in SourceOf(s)
  BY DEF SourceOf
<1>2. CASE OnlyClaim(s, source)
  BY <1>1, <1>2, OnlyClaimInv DEF StageSourceLines, OnlyClaim, Admits, confirmationVars
<1>3. CASE InsertStagedEntries(s, source, Reconciled(s, rows), StagingRows(s, rows))
  <2>1. rows \in Seq([key : Keys, quantity : 1 .. MaxQuantity])
    BY StagingAssumption
  <2>2. DOMAIN rows = 1 .. Len(rows) /\ Len(rows) \in Nat
        /\ \A i \in DOMAIN rows : rows[i].key \in Keys
    <3>1. DOMAIN rows = 1 .. Len(rows) /\ Len(rows) \in Nat
      BY <2>1
    <3>2. ASSUME NEW i \in DOMAIN rows PROVE rows[i].key \in Keys
      <4>1. rows[i] \in [key : Keys, quantity : 1 .. MaxQuantity]
        BY <2>1, <3>1, ElementOfSeq
      <4> QED
        BY <4>1
    <3> QED
      BY <3>1, <3>2
  <2>3. DOMAIN Reconciled(s, rows) = 1 .. Len(rows)
    BY <2>2 DEF Reconciled
  <2>4. StagingRows(s, rows) \in SUBSET (1 .. Len(rows))
    BY <2>2 DEF StagingRows
  <2>5. ASSUME NEW i \in StagingRows(s, rows)
        PROVE  Reconciled(s, rows)[i] \in Lines /\ Reconciled(s, rows)[i].id \notin InputIds
    <3>1. i \in DOMAIN rows /\ rows[i].key \in Keys
      BY <2>2, <2>4
    <3>2. Attempt(s, rows, i) \in 1 .. MaxAttempts /\ Uncovered(s, rows, i) \in 1 .. MaxQuantity
      BY DEF StageSourceLines
    <3>3. /\ <<s, rows[i].key, Attempt(s, rows, i)>> \in EntryIds
          /\ <<s, rows[i].key, Attempt(s, rows, i)>> \notin InputIds
      BY <3>1, <3>2, IdentityAssumption DEF EntryIds
    <3>4. Published[rows[i].key] \in [printing : Printings \cup {None}, finish : Finishes \cup {None}]
      BY <3>1, CatalogAssumption
    <3>5. SourceEntry(s, rows, i).content \in Contents
      BY <3>2, <3>4 DEF SourceEntry, Contents
    <3>6. SourceEntry(s, rows, i) \in Lines /\ SourceEntry(s, rows, i).id \notin InputIds
      BY <3>1, <3>3, <3>5 DEF SourceEntry, Lines
    <3> QED
      BY <3>1, <3>6 DEF Reconciled
  <2> QED
    BY <1>1, <1>3, <2>2, <2>3, <2>4, <2>5, InsertInv DEF StageSourceLines, confirmationVars
<1> QED
  BY <1>2, <1>3 DEF StageSourceLines

LEMMA StageInv == ASSUME StoreInv, Stage PROVE StoreInv' /\ Admits /\ UNCHANGED receipt
<1>1. \A s \in Sessions : Sources \cup {CaptureSource(s)} = SourceOf(s)
  BY DEF SourceOf
<1> QED
  BY <1>1, StageEntriesInv, StageCaptureInv, StageSourceLinesInv DEF Stage

--------
(* Confirmation.                                                           *)

\* Identities are finitely many, so what a session holds can be counted.
LEMMA EntryIdsFinite == IsFiniteSet(EntryIds) /\ Cardinality(EntryIds) \in Nat
<1> DEFINE Pairs == Sessions \X Keys
           Nested == Pairs \X (1 .. MaxAttempts)
           Lined == Sessions \X Keys \X (1 .. MaxAttempts)
<1>1. IsFiniteSet(1 .. MaxAttempts)
  BY BoundAssumption, FS_Interval
<1>2. IsFiniteSet(Pairs)
  BY IdentityAssumption, FS_Product
<1>3. IsFiniteSet(Nested)
  BY <1>1, <1>2, FS_Product
<1>4. IsFiniteSet(Lined)
  <2> DEFINE f == [x \in Nested |-> <<x[1][1], x[1][2], x[2]>>]
  <2>1. \A y \in Lined : f[<< <<y[1], y[2]>>, y[3]>>] = y
                         /\ << <<y[1], y[2]>>, y[3]>> \in Nested
    OBVIOUS
  <2>2. f \in Surjection(Nested, Lined)
    BY <2>1 DEF Surjection
  <2> QED
    BY <1>3, <2>2, FS_Surjection
<1>5. IsFiniteSet(EntryIds)
  BY <1>4, IdentityAssumption, FS_Union DEF EntryIds
<1> QED
  BY <1>5, FS_CardinalityType

LEMMA ReviewedType ==
    ASSUME NEW content \in Contents
    PROVE  Reviewed(content) \in Contents
BY CatalogAssumption DEF Reviewed, Contents

\* A reviewed entry that a confirmation may apply has a target.
LEMMA TargetType ==
    ASSUME NEW content \in Contents, NEW d \in Destinations, ~Unresolved(d, content)
    PROVE  TargetOf(content) \in Targets
BY DEF Unresolved, TargetOf, Targets, Contents

LEMMA ReadReviewedInv ==
    ASSUME StoreInv, NEW w \in Workers, NEW o \in Ops, NEW s \in Sessions,
           NEW d \in Destinations, NEW E \in SUBSET EntryIds,
           ReadReviewed(w, o, s, d, E)
    PROVE  StoreInv'
<1>1. PICK quoted \in [E -> 1 .. MaxChanges] :
        request' = [request EXCEPT ![w] =
              [phase |-> "read", op |-> o, identical |-> None,
               input |-> [session |-> s, destination |-> d,
                          quoted |-> [e \in EntryIds |-> IF e \in E THEN quoted[e] ELSE 0]],
               state |-> [e \in EntryIds |-> IF e \in E THEN entry[e].state ELSE None],
               reviewed |-> [e \in EntryIds |->
                               IF e \in E THEN Reviewed(entry[e].content) ELSE None]]]
  BY DEF ReadReviewed
<1> DEFINE input == [session |-> s, destination |-> d,
                     quoted |-> [e \in EntryIds |-> IF e \in E THEN quoted[e] ELSE 0]]
           state == [e \in EntryIds |-> IF e \in E THEN entry[e].state ELSE None]
           reviewed == [e \in EntryIds |->
                           IF e \in E THEN Reviewed(entry[e].content) ELSE None]
           r == [phase |-> "read", op |-> o, identical |-> None,
                 input |-> input, state |-> state, reviewed |-> reviewed]
<1>2. \A e \in E : entry[e] # None /\ entry[e] \in EntryRows /\ entry[e].session = s
  BY Rows DEF StoreInv, ReadReviewed, EntriesOf
<1>3. session[s] # None
  <2>1. E # {}
    <3>1. Cardinality({}) = 0
      BY FS_EmptySet
    <3>2. Cardinality(E) # 0
      BY ConfirmAssumption DEF ReadReviewed
    <3> QED
      BY <3>1, <3>2
  <2> QED
    BY <1>2, <2>1 DEF StoreInv, RecordsAgree
<1>4. input \in Inputs /\ Named(input) = E
  BY BoundAssumption DEF Inputs, Named
<1>5. \A e \in E : /\ entry[e].state \in EntryStates /\ Reviewed(entry[e].content) \in Contents
                   /\ entry[e].state # None /\ Reviewed(entry[e].content) # None
  BY <1>2, ReviewedType, NoneAssumption DEF EntryRows
<1>6. /\ state \in [EntryIds -> EntryStates \cup {None}]
      /\ reviewed \in [EntryIds -> Contents \cup {None}]
      /\ \A e \in E : state[e] # None /\ reviewed[e] # None
  BY <1>5
<1>7. UNCHANGED <<session, entry, staged, revision, lock, receipt,
                  acquisition, binding, association>>
  BY DEF ReadReviewed
<1>8. request' = [request EXCEPT ![w] = r]
  BY <1>1
<1> HIDE DEF input, state, reviewed
<1>9. /\ r \in Requests /\ r.phase = "read" /\ r.identical = None
      /\ session[r.input.session] # None
      /\ \A e \in Named(r.input) :
            entry[e] # None /\ r.state[e] # None /\ r.reviewed[e] # None
  BY <1>2, <1>3, <1>4, <1>6 DEF Requests, input
<1>10. PICK next \in Requests :
          /\ request' = [request EXCEPT ![w] = next]
          /\ next.phase = "read" /\ next.identical = None
          /\ session[next.input.session] # None
          /\ \A e \in Named(next.input) :
                entry[e] # None /\ next.state[e] # None /\ next.reviewed[e] # None
  BY <1>8, <1>9
<1>11. request' \in [Workers -> Requests \cup {None}]
       /\ \A v \in Workers : request'[v] = IF v = w THEN next ELSE request[v]
  BY <1>10 DEF StoreInv, TypeOK
<1>12. TypeOK'
  BY <1>7, <1>11 DEF StoreInv, TypeOK
<1>13. RecordsAgree'
  <2>1. RequestAgrees(next)'
    BY <1>7, <1>10 DEF RequestAgrees
  <2>2. \A v \in Workers : request[v] # None => RequestAgrees(request[v])
    BY DEF StoreInv, RecordsAgree
  <2>3. (\A v \in Workers : request[v] # None => RequestAgrees(request[v]))'
    BY <1>7, <1>11, <2>1, <2>2 DEF RequestAgrees, Unresolved
  <2> QED
    BY <1>7, <2>3 DEF StoreInv, RecordsAgree
<1>14. PositionsBounded'
  BY <1>7 DEF StoreInv, PositionsBounded
<1> QED
  BY <1>12, <1>13, <1>14 DEF StoreInv

LEMMA LockConfirmationInv ==
    ASSUME StoreInv, NEW w \in Workers, LockConfirmation(w)
    PROVE  StoreInv'
<1> DEFINE r == request[w]
           s == r.input.session
           A == Named(r.input)
<1>1. /\ r # None /\ r.phase = "read" /\ r \in Requests /\ RequestAgrees(r)
      /\ r.input \in Inputs /\ s \in Sessions /\ session[s] # None
  BY RequestFacts DEF LockConfirmation
<1>2. \E next \in Requests :
          /\ request' = [request EXCEPT ![w] = next]
          /\ next.phase = "locked" /\ next.input = r.input
          /\ next.reviewed = r.reviewed /\ next.state = r.state
          /\ IF next.identical = None
             THEN \A e \in A : ~Unresolved(r.input.destination, r.reviewed[e])
             ELSE receipt[next.identical] # None
  <2>1. CASE \E o \in Identical(r.input) :
                request' = [request EXCEPT
                    ![w] = [@ EXCEPT !.phase = "locked", !.identical = o]]
    <3>1. PICK o \in Identical(r.input) :
              request' = [request EXCEPT
                  ![w] = [@ EXCEPT !.phase = "locked", !.identical = o]]
      BY <2>1
    <3>2. o \in Ops /\ receipt[o] # None /\ o # None
      BY IdentityAssumption DEF Identical
    <3> DEFINE next == [r EXCEPT !.phase = "locked", !.identical = o]
    <3>3. /\ next \in Requests /\ next.phase = "locked" /\ next.identical = o
          /\ next.input = r.input /\ next.reviewed = r.reviewed /\ next.state = r.state
      BY <1>1, <3>2 DEF Requests
    <3>4. request' = [request EXCEPT ![w] = next]
      BY <3>1 DEF StoreInv, TypeOK
    <3> HIDE DEF next
    <3> QED
      BY <3>2, <3>3, <3>4
  <2>2. CASE /\ Identical(r.input) = {} /\ Confirmable(r)
             /\ request' = [request EXCEPT ![w].phase = "locked"]
    <3> DEFINE next == [r EXCEPT !.phase = "locked"]
    <3>1. /\ next \in Requests /\ next.phase = "locked" /\ next.identical = r.identical
          /\ next.input = r.input /\ next.reviewed = r.reviewed /\ next.state = r.state
      BY <1>1 DEF Requests
    <3>2. request' = [request EXCEPT ![w] = next]
      BY <2>2
    <3>3. \A e \in A : ~Unresolved(r.input.destination, r.reviewed[e])
      BY <2>2 DEF Confirmable
    <3>4. r.identical = None
      BY <1>1 DEF RequestAgrees
    <3> HIDE DEF next
    <3> QED
      BY <3>1, <3>2, <3>3, <3>4
  <2> QED
    BY <2>1, <2>2 DEF LockConfirmation
<1>3. PICK next \in Requests :
          /\ request' = [request EXCEPT ![w] = next]
          /\ next.phase = "locked" /\ next.input = r.input
          /\ next.reviewed = r.reviewed /\ next.state = r.state
          /\ IF next.identical = None
             THEN \A e \in A : ~Unresolved(r.input.destination, r.reviewed[e])
             ELSE receipt[next.identical] # None
  BY <1>2
<1>4. UNCHANGED <<session, entry, staged, revision, receipt,
                  acquisition, binding, association>>
      /\ lock' = [lock EXCEPT ![s] = w]
  BY DEF LockConfirmation
<1>5. request' \in [Workers -> Requests \cup {None}]
      /\ \A v \in Workers : request'[v] = IF v = w THEN next ELSE request[v]
  BY <1>3 DEF StoreInv, TypeOK
<1>6. TypeOK'
  BY <1>1, <1>4, <1>5 DEF StoreInv, TypeOK
<1>7. RecordsAgree'
  <2>1. RequestAgrees(next)'
    BY <1>1, <1>3, <1>4 DEF RequestAgrees, Unresolved, Requests
  <2>2. \A v \in Workers : request[v] # None => RequestAgrees(request[v])
    BY DEF StoreInv, RecordsAgree
  <2>3. (\A v \in Workers : request[v] # None => RequestAgrees(request[v]))'
    BY <1>4, <1>5, <2>1, <2>2 DEF RequestAgrees, Unresolved
  <2> QED
    BY <1>4, <2>3 DEF StoreInv, RecordsAgree
<1>8. PositionsBounded'
  BY <1>4 DEF StoreInv, PositionsBounded
<1> QED
  BY <1>6, <1>7, <1>8 DEF StoreInv

\* A transaction may end with any typed tables that keep what the others
\* refer to: entries keep their session and position, sessions and receipts
\* stay, and recorded positions are published.
LEMMA EndInv ==
    ASSUME StoreInv, NEW w \in Workers, request[w] # None, EndTransaction(w),
           UNCHANGED staged,
           session' \in [Sessions -> SessionRows \cup {None}],
           \A t \in Sessions : session[t] # None => session'[t] # None,
           entry' \in [EntryIds -> EntryRows \cup {None}],
           \A e \in EntryIds : entry[e] # None => entry'[e] # None,
           \A e \in EntryIds : entry'[e] # None =>
               /\ entry[e] # None
               /\ entry'[e].session = entry[e].session
               /\ entry'[e].position = entry[e].position,
           revision' \in 0 .. MaxChanges,
           receipt' \in [Ops -> Outcomes \cup {None}],
           \A o \in Ops : receipt[o] # None => receipt'[o] # None,
           \A o \in Ops : receipt'[o] # None => receipt'[o].position <= revision',
           acquisition' \subseteq AcquisitionRows,
           binding' \in [EntryIds -> AcquisitionIds \cup {None}],
           association' \in [Tags -> [Targets -> 0 .. MaxAssociation]]
    PROVE  StoreInv'
<1>1. /\ request' \in [Workers -> Requests \cup {None}]
      /\ \A v \in Workers : request'[v] = IF v = w THEN None ELSE request[v]
      /\ lock' \in [Sessions -> Workers \cup {None}]
  BY DEF EndTransaction, StoreInv, TypeOK
<1>2. TypeOK'
  BY <1>1 DEF StoreInv, TypeOK
<1>3. RecordsAgree'
  <2>1. \A e \in EntryIds : entry'[e] # None =>
            staged'[e] # None /\ session'[entry'[e].session] # None
    BY Rows DEF StoreInv, RecordsAgree, EntryRows
  <2>2. RequestsAgree'
    BY <1>1, RequestsKept
  <2> QED
    BY <2>1, <2>2 DEF StoreInv, RecordsAgree, RequestsAgree
<1>4. PositionsBounded'
  BY DEF StoreInv, PositionsBounded
<1> QED
  BY <1>2, <1>3, <1>4 DEF StoreInv

\* A confirmation that rolls back leaves every table as it was.
LEMMA RollBackInv == ASSUME StoreInv, NEW w \in Workers, RollBack(w) PROVE StoreInv'
<1>1. UNCHANGED <<session, entry, staged, revision, receipt,
                  acquisition, binding, association>>
      /\ request[w] # None /\ EndTransaction(w)
  BY DEF RollBack
<1>2. \A o \in Ops : receipt[o] # None => receipt[o].position <= revision
  BY DEF StoreInv, RecordsAgree
<1> QED
  BY <1>1, <1>2, EndInv DEF StoreInv, TypeOK

LEMMA AnswerUnchangedInv ==
    ASSUME StoreInv, NEW w \in Workers, AnswerUnchanged(w) PROVE StoreInv'
<1>1. /\ UNCHANGED <<session, entry, staged, revision, lock, receipt,
                     acquisition, binding, association>>
      /\ request' = [request EXCEPT ![w] = None]
  BY DEF AnswerUnchanged
<1>2. request' \in [Workers -> Requests \cup {None}]
      /\ \A v \in Workers : request'[v] = IF v = w THEN None ELSE request[v]
  BY <1>1 DEF StoreInv, TypeOK
<1>3. TypeOK'
  BY <1>1, <1>2 DEF StoreInv, TypeOK
<1>4. RecordsAgree'
  <2>1. RequestsAgree'
    BY <1>1, <1>2, RequestsKept
  <2> QED
    BY <1>1, <2>1 DEF StoreInv, RecordsAgree, RequestsAgree
<1>5. PositionsBounded'
  BY <1>1 DEF StoreInv, PositionsBounded
<1> QED
  BY <1>3, <1>4, <1>5 DEF StoreInv

\* The rows a confirmation closes stay typed and keep their place.
LEMMA CloseConfirmedTypes ==
    ASSUME StoreInv, NEW w \in Workers, request[w] # None, CloseConfirmed(request[w])
    PROVE  /\ session' \in [Sessions -> SessionRows \cup {None}]
           /\ \A t \in Sessions : session[t] # None => session'[t] # None
           /\ entry' \in [EntryIds -> EntryRows \cup {None}]
           /\ \A e \in EntryIds : entry[e] # None => entry'[e] # None
           /\ \A e \in EntryIds : entry'[e] # None =>
                  /\ entry[e] # None
                  /\ entry'[e].session = entry[e].session
                  /\ entry'[e].position = entry[e].position
<1> DEFINE r == request[w]
           s == r.input.session
           E == Named(r.input)
           next == [session[s] EXCEPT !.revision = @ + 1]
<1>1. s \in Sessions /\ session[s] # None /\ E \subseteq EntryIds
  BY RequestFacts
<1>2. session[s] \in SessionRows
  BY <1>1, Rows DEF StoreInv
<1>3. next \in SessionRows /\ None \notin SessionRows
  BY <1>2, NoneAssumption DEF SessionRows
<1>4. session' = [session EXCEPT ![s] = next]
  BY DEF CloseConfirmed, BumpSession
<1>5. session \in [Sessions -> SessionRows \cup {None}]
      /\ entry \in [EntryIds -> EntryRows \cup {None}]
  BY DEF StoreInv, TypeOK
<1>6. \A e \in E : entry[e] # None /\ entry[e] \in EntryRows
  BY <1>1, RequestFacts, Rows DEF RequestAgrees, StoreInv
<1>7. \A e \in E : LET row == Closed(entry[e], "confirmed")
                   IN  /\ row \in EntryRows /\ row # None
                       /\ row.session = entry[e].session
                       /\ row.position = entry[e].position
  BY <1>6, ClosedType, NoneAssumption DEF EntryStates
<1>8. entry' = [e \in EntryIds |->
          IF e \in E THEN Closed(entry[e], "confirmed") ELSE entry[e]]
  BY DEF CloseConfirmed
<1> HIDE DEF next, E
<1> QED
  BY <1>1, <1>3, <1>4, <1>5, <1>6, <1>7, <1>8

\* A receipt may be written with any outcome at a published position.
LEMMA ReceiptTypes ==
    ASSUME StoreInv, NEW o \in Ops, NEW result \in Outcomes, AdvanceRevision,
           result.position <= revision', receipt' = [receipt EXCEPT ![o] = result]
    PROVE  /\ revision' \in 0 .. MaxChanges
           /\ receipt' \in [Ops -> Outcomes \cup {None}]
           /\ \A p \in Ops : receipt[p] # None => receipt'[p] # None
           /\ \A p \in Ops : receipt'[p] # None => receipt'[p].position <= revision'
<1>1. /\ revision \in Nat /\ revision' = revision + 1 /\ revision' \in 0 .. MaxChanges
      /\ receipt \in [Ops -> Outcomes \cup {None}]
  BY BoundAssumption DEF StoreInv, TypeOK, AdvanceRevision
<1>2. \A p \in Ops : receipt[p] # None =>
          receipt[p].position \in Nat /\ receipt[p].position <= revision
  BY Rows DEF StoreInv, RecordsAgree, Outcomes
<1>3. result # None
  BY NoneAssumption
<1> QED
  BY <1>1, <1>2, <1>3

LEMMA CommitIdenticalInv ==
    ASSUME StoreInv, NEW w \in Workers, CommitIdentical(w) PROVE StoreInv'
<1> DEFINE r == request[w]
           result == receipt[r.identical]
<1>1. r # None /\ r.phase = "locked" /\ r.identical # None
  BY DEF CommitIdentical, Reserved
<1>2. r \in Requests /\ RequestAgrees(r)
  BY <1>1, RequestFacts
<1>3. result \in Outcomes /\ result.position <= revision /\ r.op \in Ops
  BY <1>1, <1>2, Rows DEF RequestAgrees, Requests, StoreInv, RecordsAgree
<1>4. AdvanceRevision /\ receipt' = [receipt EXCEPT ![r.op] = result]
      /\ EndTransaction(w)
      /\ UNCHANGED <<session, entry, staged, acquisition, binding, association>>
  BY DEF CommitIdentical, Repeated
<1>5. result.position <= revision'
  BY <1>3, <1>4, BoundAssumption DEF AdvanceRevision, Outcomes, StoreInv, TypeOK
<1> HIDE DEF r, result
<1>6. /\ revision' \in 0 .. MaxChanges
      /\ receipt' \in [Ops -> Outcomes \cup {None}]
      /\ \A p \in Ops : receipt[p] # None => receipt'[p] # None
      /\ \A p \in Ops : receipt'[p] # None => receipt'[p].position <= revision'
  BY <1>3, <1>4, <1>5, ReceiptTypes
<1>7. request[w] # None
  BY <1>1 DEF r
<1> QED
  BY <1>4, <1>6, <1>7, EndInv DEF StoreInv, TypeOK

\* What a confirmation that applies its request does: it closes the entries
\* it names and records the request under an operation that had no outcome.
Confirms(w) ==
    LET r == request[w]
    IN  /\ r # None /\ CloseConfirmed(r) /\ receipt[r.op] = None
        /\ receipt'[r.op] # None /\ receipt'[r.op].input = r.input
        /\ \A o \in Ops : o # r.op => receipt'[o] = receipt[o]

LEMMA CommitTagInv ==
    ASSUME StoreInv, NEW w \in Workers, CommitTag(w) PROVE StoreInv' /\ Confirms(w)
<1> DEFINE r == request[w]
           t == r.input.destination
           X == ReviewedTargets(r)
           associations == {[target |-> x, quantity |-> Required(r, x)] : x \in X}
           result == [input |-> r.input, acquisitions |-> {},
                      associations |-> associations, position |-> revision + 1]
<1>1. r # None /\ r.phase = "locked" /\ r.identical = None
  BY DEF CommitTag, Reserved
<1>2. /\ r \in Requests /\ RequestAgrees(r) /\ r.input \in Inputs /\ r.op \in Ops
      /\ t \in Destinations /\ \A e \in Named(r.input) : r.reviewed[e] \in Contents
  BY <1>1, RequestFacts DEF Requests
<1>3. X \subseteq Targets
  BY <1>1, <1>2, TargetType DEF RequestAgrees, ReviewedTargets
<1>4. /\ \A x \in X : Required(r, x) \in 1 .. MaxAssociation
      /\ t \in Tags
      /\ association' = [association EXCEPT ![t] =
            [x \in Targets |-> IF x \in X THEN Required(r, x) ELSE association[t][x]]]
      /\ CloseConfirmed(r) /\ AdvanceRevision /\ EndTransaction(w)
      /\ receipt' = [receipt EXCEPT ![r.op] = result]
      /\ UNCHANGED <<staged, acquisition, binding>>
  BY IdentityAssumption DEF CommitTag, Recorded
<1>5. revision + 1 = revision' /\ revision' \in Nat
  BY <1>4, BoundAssumption DEF AdvanceRevision, StoreInv, TypeOK
<1>6. \A x \in X : Required(r, x) \in Nat /\ Required(r, x) \in 0 .. MaxAssociation
  BY <1>4, BoundAssumption
<1> HIDE DEF X
<1>7. associations \subseteq [target : Targets, quantity : Nat]
  BY <1>3, <1>6
<1> HIDE DEF associations
<1>8. /\ result \in Outcomes /\ result.position <= revision'
      /\ result.input = r.input /\ result # None
  BY <1>2, <1>5, <1>7, NoneAssumption DEF Outcomes
<1>9. association' \in [Tags -> [Targets -> 0 .. MaxAssociation]]
  BY <1>4, <1>6 DEF StoreInv, TypeOK
<1> HIDE DEF result
<1>10. /\ revision' \in 0 .. MaxChanges
       /\ receipt' \in [Ops -> Outcomes \cup {None}]
       /\ \A p \in Ops : receipt[p] # None => receipt'[p] # None
       /\ \A p \in Ops : receipt'[p] # None => receipt'[p].position <= revision'
  BY <1>2, <1>4, <1>8, ReceiptTypes
<1>11. /\ session' \in [Sessions -> SessionRows \cup {None}]
       /\ \A u \in Sessions : session[u] # None => session'[u] # None
       /\ entry' \in [EntryIds -> EntryRows \cup {None}]
       /\ \A e \in EntryIds : entry[e] # None => entry'[e] # None
       /\ \A e \in EntryIds : entry'[e] # None =>
              /\ entry[e] # None
              /\ entry'[e].session = entry[e].session
              /\ entry'[e].position = entry[e].position
  BY <1>1, <1>4, CloseConfirmedTypes
<1>12. /\ UNCHANGED staged /\ acquisition' \subseteq AcquisitionRows
       /\ binding' \in [EntryIds -> AcquisitionIds \cup {None}]
  BY <1>4 DEF StoreInv, TypeOK
<1>13. StoreInv'
  BY <1>1, <1>4, <1>9, <1>10, <1>11, <1>12, EndInv
<1>14. receipt[r.op] = None
  BY DEF CommitTag, Reserved
<1>15. Confirms(w)
  BY <1>1, <1>2, <1>4, <1>8, <1>14 DEF Confirms, StoreInv, TypeOK
<1> QED
  BY <1>13, <1>15

LEMMA CommitOwnershipInv ==
    ASSUME StoreInv, NEW w \in Workers, CommitOwnership(w)
    PROVE  StoreInv' /\ Confirms(w)
<1> DEFINE r == request[w]
           E == Named(r.input)
           Key(occurrence, e) == AcquisitionOf(r, occurrence, e)
           Covered(occurrence) == {Key(occurrence, e) : e \in E}
           Claims(occurrence) == {e \in E : Key(occurrence, e) \notin RecordedAcquisitions}
           Inherited(occurrence) ==
               {receipt[o].position :
                   o \in {o \in Ops : /\ receipt[o] # None
                                     /\ receipt[o].acquisitions \cap Covered(occurrence) # {}}}
           Position(occurrence) == IF Claims(occurrence) # {} THEN revision + 1
                                   ELSE Max(Inherited(occurrence))
           Result(occurrence) == [input |-> r.input, acquisitions |-> Covered(occurrence),
                                  associations |-> {}, position |-> Position(occurrence)]
<1>1. r # None /\ r.phase = "locked" /\ r.identical = None
  BY DEF CommitOwnership, Reserved
<1>2. /\ r \in Requests /\ RequestAgrees(r) /\ r.input \in Inputs /\ r.op \in Ops
      /\ r.input.session \in Sessions
      /\ E \subseteq EntryIds /\ \A e \in E : r.reviewed[e] \in Contents
  BY <1>1, RequestFacts DEF Requests
<1>3. PICK occurrence \in Occurrences(r) :
          /\ Claims(occurrence) # {} \/ Inherited(occurrence) # {}
          /\ acquisition' = acquisition \cup
                {[id |-> Key(occurrence, e), entry |-> e, copies |-> r.reviewed[e].quantity] :
                    e \in Claims(occurrence)}
          /\ binding' = [e \in EntryIds |->
                IF e \in E THEN Key(occurrence, e) ELSE binding[e]]
          /\ receipt' = [receipt EXCEPT ![r.op] = Result(occurrence)]
  BY DEF CommitOwnership, Recorded
<1>4. /\ CloseConfirmed(r) /\ AdvanceRevision /\ EndTransaction(w)
      /\ UNCHANGED <<staged, association>>
  BY DEF CommitOwnership
<1>5. revision + 1 = revision' /\ revision \in Nat /\ revision' \in Nat
  BY <1>4, BoundAssumption DEF AdvanceRevision, StoreInv, TypeOK
<1>6. \A e \in E : occurrence[e] \in Nat \ {0}
  BY EntryIdsFinite DEF Occurrences
<1>7. \A e \in E : Key(occurrence, e) \in AcquisitionIds
  BY <1>2, <1>6 DEF AcquisitionOf, AcquisitionIds
<1>8. Covered(occurrence) \subseteq AcquisitionIds /\ Claims(occurrence) \subseteq E
  BY <1>7
<1>9. acquisition' \subseteq AcquisitionRows
  <2>1. \A e \in E : r.reviewed[e].quantity \in 1 .. MaxQuantity
    BY <1>2 DEF Contents
  <2> HIDE DEF Key
  <2> QED
    BY <1>2, <1>3, <1>7, <1>8, <2>1 DEF StoreInv, TypeOK, AcquisitionRows
<1>10. binding' \in [EntryIds -> AcquisitionIds \cup {None}]
  BY <1>3, <1>7 DEF StoreInv, TypeOK
<1>11. Position(occurrence) \in Nat /\ Position(occurrence) <= revision'
  <2>1. CASE Claims(occurrence) # {}
    BY <1>5, <2>1
  <2>2. CASE Claims(occurrence) = {}
    <3> DEFINE S == Inherited(occurrence)
    <3>1. S # {}
      BY <1>3, <2>2
    <3>2. S \subseteq Nat /\ \A x \in S : x <= revision
      BY Rows DEF StoreInv, RecordsAgree, Outcomes
    <3> HIDE DEF S
    <3>3. PICK max \in S : max = Max(S)
      BY <1>5, <3>1, <3>2, BoundedMax
    <3>4. Max(S) \in Nat /\ Max(S) <= revision'
      BY <1>5, <3>2, <3>3
    <3> QED
      BY <2>2, <3>4 DEF S
  <2> QED
    BY <2>1, <2>2
<1> HIDE DEF Position, Covered, Claims, Inherited
<1>12. /\ Result(occurrence) \in Outcomes /\ Result(occurrence).position <= revision'
       /\ Result(occurrence).input = r.input /\ Result(occurrence) # None
  BY <1>2, <1>8, <1>11, NoneAssumption DEF Outcomes
<1> HIDE DEF Result
<1>13. /\ revision' \in 0 .. MaxChanges
       /\ receipt' \in [Ops -> Outcomes \cup {None}]
       /\ \A p \in Ops : receipt[p] # None => receipt'[p] # None
       /\ \A p \in Ops : receipt'[p] # None => receipt'[p].position <= revision'
  <2>1. PICK result \in Outcomes : result = Result(occurrence)
    BY <1>12
  <2> QED
    BY <1>2, <1>3, <1>4, <1>12, <2>1, ReceiptTypes
<1>14. /\ session' \in [Sessions -> SessionRows \cup {None}]
       /\ \A u \in Sessions : session[u] # None => session'[u] # None
       /\ entry' \in [EntryIds -> EntryRows \cup {None}]
       /\ \A e \in EntryIds : entry[e] # None => entry'[e] # None
       /\ \A e \in EntryIds : entry'[e] # None =>
              /\ entry[e] # None
              /\ entry'[e].session = entry[e].session
              /\ entry'[e].position = entry[e].position
  BY <1>1, <1>4, CloseConfirmedTypes
<1>15. /\ UNCHANGED staged
       /\ association' \in [Tags -> [Targets -> 0 .. MaxAssociation]]
  BY <1>4 DEF StoreInv, TypeOK
<1>16. StoreInv'
  BY <1>1, <1>4, <1>9, <1>10, <1>13, <1>14, <1>15, EndInv
<1>17. receipt[r.op] = None
  BY DEF CommitOwnership, Reserved
<1>18. Confirms(w)
  BY <1>1, <1>2, <1>3, <1>4, <1>12, <1>17 DEF Confirms, StoreInv, TypeOK
<1> QED
  BY <1>16, <1>18

LEMMA ConfirmInv == ASSUME StoreInv, Confirm PROVE StoreInv'
BY ReadReviewedInv, LockConfirmationInv, AnswerUnchangedInv, RollBackInv,
   CommitIdenticalInv, CommitTagInv, CommitOwnershipInv, ConfirmSteps

--------
(* The specification.                                                      *)

LEMMA NextStoreInv == StoreInv /\ [Next]_vars => StoreInv'
<1> SUFFICES ASSUME StoreInv, [Next]_vars PROVE StoreInv'
  OBVIOUS
<1>1. CASE UNCHANGED vars
  BY <1>1 DEF vars, StoreInv, TypeOK, RecordsAgree, RequestAgrees, Unresolved,
              PositionsBounded
<1> QED
  BY <1>1, StageInv, ReviewInv, ConfirmInv DEF Next

\* Every reachable state of the store satisfies the inductive invariant.
THEOREM Inductive == Spec => []StoreInv
BY InitStoreInv, NextStoreInv, PTL DEF Spec

\* Whatever is staged, reviewed and confirmed, in any order and any number of
\* times, every record keeps the shape its table gives it.
THEOREM Typed == Spec => []TypeOK
<1>1. StoreInv => TypeOK
  BY DEF StoreInv
<1> QED
  BY <1>1, Inductive, PTL

--------
(* Receipts.                                                               *)

\* The only steps that write a receipt are commits of a reserved operation.
LEMMA ReceiptWritten ==
    ASSUME Next, receipt' # receipt
    PROVE  \E w \in Workers : CommitIdentical(w) \/ CommitTag(w) \/ CommitOwnership(w)
<1>1. ~Stage
  BY DEF Stage, StageEntries, StageCapture, CaptureUnchanged, CaptureSuppressed,
         CaptureAdmitted, StageSourceLines, confirmationVars
<1>2. ~Review
  BY DEF Review, CorrectEntry, AttachCandidates, DiscardEntry, DiscardSession,
         PublishReview, confirmationVars
<1>3. PICK w \in Workers :
          \/ CommitIdentical(w) \/ CommitTag(w) \/ CommitOwnership(w)
          \/ LockConfirmation(w) \/ AnswerUnchanged(w) \/ RollBack(w)
          \/ \E o \in Ops, s \in Sessions, d \in Destinations, E \in SUBSET EntryIds :
                ReadReviewed(w, o, s, d, E)
  BY <1>1, <1>2, ConfirmSteps DEF Next
<1> QED
  BY <1>3 DEF LockConfirmation, AnswerUnchanged, RollBack, ReadReviewed

\* A commit writes the receipt of an operation that had none.
LEMMA ReceiptReserved ==
    ASSUME StoreInv, NEW w \in Workers,
           CommitIdentical(w) \/ CommitTag(w) \/ CommitOwnership(w)
    PROVE  \E o \in Ops : \E result :
              receipt[o] = None /\ receipt' = [receipt EXCEPT ![o] = result]
<1>1. request[w] # None /\ receipt[request[w].op] = None
  BY DEF CommitIdentical, CommitTag, CommitOwnership, Reserved
<1>2. request[w].op \in Ops
  BY <1>1, RequestFacts DEF Requests
<1>3. \E result : receipt' = [receipt EXCEPT ![request[w].op] = result]
  BY DEF CommitIdentical, CommitTag, CommitOwnership, Recorded
<1> QED
  BY <1>1, <1>2, <1>3

LEMMA ReceiptStays ==
    ASSUME StoreInv, Next, NEW o \in Ops, receipt[o] # None
    PROVE  receipt'[o] = receipt[o]
<1>1. CASE receipt' = receipt
  BY <1>1
<1>2. CASE receipt' # receipt
  <2>1. PICK p \in Ops : \E result :
            receipt[p] = None /\ receipt' = [receipt EXCEPT ![p] = result]
    BY <1>2, ReceiptWritten, ReceiptReserved
  <2> QED
    BY <2>1 DEF StoreInv, TypeOK
<1> QED
  BY <1>1, <1>2

\* An operation's outcome is recorded at most once and never changed, whatever
\* requests are repeated, raced, rolled back or repeated under other operations.
THEOREM Immutable == Spec => ReceiptsImmutable
<1>1. StoreInv /\ [Next]_vars =>
          [\A o \in Ops : receipt[o] # None => receipt'[o] = receipt[o]]_vars
  BY ReceiptStays
<1> QED
  BY <1>1, Inductive, PTL DEF Spec, ReceiptsImmutable

--------
(* The store implements Confirmations.                                     *)

\* What one step of the store does to the decisions and the outcomes.
LEMMA StepShape ==
    ASSUME StoreInv, Next
    PROVE  \/ Admits /\ UNCHANGED receipt
           \/ Edits /\ UNCHANGED receipt
           \/ UNCHANGED <<entry, receipt>>
           \/ \E w \in Workers : CommitIdentical(w) \/ Confirms(w)
<1>1. CASE Stage
  BY <1>1, StageInv
<1>2. CASE Review
  BY <1>2, ReviewInv
<1>3. CASE Confirm
  <2>1. PICK w \in Workers :
            \/ CommitIdentical(w) \/ CommitTag(w) \/ CommitOwnership(w)
            \/ LockConfirmation(w) \/ AnswerUnchanged(w) \/ RollBack(w)
            \/ \E o \in Ops, s \in Sessions, d \in Destinations, E \in SUBSET EntryIds :
                  ReadReviewed(w, o, s, d, E)
    BY <1>3, ConfirmSteps
  <2> QED
    BY <2>1, CommitTagInv, CommitOwnershipInv
       DEF LockConfirmation, AnswerUnchanged, RollBack, ReadReviewed
<1> QED
  BY <1>1, <1>2, <1>3 DEF Next

\* A confirmation closes pending entries and changes no other entry.
LEMMA ClosesPending ==
    ASSUME StoreInv, NEW w \in Workers, request[w] # None, CloseConfirmed(request[w])
    PROVE  /\ \A e \in Named(request[w].input) :
                 /\ entry[e] # None /\ entry[e].state = "pending"
                 /\ entry'[e] # None /\ entry'[e].state = "confirmed"
           /\ \A e \in EntryIds \ Named(request[w].input) : entry'[e] = entry[e]
           /\ Named(request[w].input) \subseteq EntryIds
           /\ request[w].input \in Inputs
<1> DEFINE E == Named(request[w].input)
<1>1. /\ E \subseteq EntryIds /\ request[w].input \in Inputs
      /\ \A e \in E : entry[e] # None /\ entry[e] \in EntryRows
  BY RequestFacts, Rows DEF RequestAgrees, StoreInv
<1>2. \A e \in E : entry[e].state = "pending"
  BY DEF CloseConfirmed
<1>3. \A e \in E : /\ Closed(entry[e], "confirmed") # None
                   /\ Closed(entry[e], "confirmed").state = "confirmed"
  BY <1>1, ClosedType, NoneAssumption DEF EntryStates
<1>4. entry' = [e \in EntryIds |->
          IF e \in E THEN Closed(entry[e], "confirmed") ELSE entry[e]]
  BY DEF CloseConfirmed
<1> HIDE DEF E
<1>5. /\ \A e \in E : /\ entry[e] # None /\ entry[e].state = "pending"
                      /\ entry'[e] # None /\ entry'[e].state = "confirmed"
      /\ \A e \in EntryIds \ E : entry'[e] = entry[e]
  BY <1>1, <1>2, <1>3, <1>4
<1> QED
  BY <1>1, <1>5 DEF E

LEMMA DecidedStays ==
    ASSUME StoreInv, Next, NEW e \in EntryIds, entry[e] # None, entry[e].state # "pending"
    PROVE  entry'[e] = entry[e]
<1>1. CASE Admits
  BY <1>1 DEF Admits
<1>2. CASE Edits
  BY <1>2 DEF Edits
<1>3. ASSUME NEW w \in Workers, Confirms(w) PROVE entry'[e] = entry[e]
  BY <1>3, ClosesPending DEF Confirms
<1>4. ASSUME NEW w \in Workers, CommitIdentical(w) PROVE entry'[e] = entry[e]
  BY <1>4 DEF CommitIdentical
<1> QED
  BY <1>1, <1>2, <1>3, <1>4, StepShape

\* A decided entry is never pending, edited or decided again.
THEOREM Final == Spec => DecidedForever
<1>1. StoreInv /\ [Next]_vars =>
          [\A e \in EntryIds : entry[e] # None /\ entry[e].state # "pending"
                                  => entry'[e] = entry[e]]_vars
  BY DecidedStays
<1> QED
  BY <1>1, Inductive, PTL DEF Spec, DecidedForever

Decisions == [e \in EntryIds |-> Decision(e)]
Recordings == [o \in Ops |-> Outcome(o)]

\* A step that moves some entries from one decision to another, and no other
\* entry, is a step of the promise.
LEMMA Decided ==
    ASSUME NEW E \in SUBSET EntryIds, NEW from, NEW to,
           \A e \in E : Decision(e) = from /\ Decision(e)' = to,
           \A e \in EntryIds \ E : Decision(e)' = Decision(e)
    PROVE  Promise!Decide(E, from, to)
BY DEF Promise!Decide

LEMMA AdmitsStep ==
    ASSUME StoreInv, Admits, UNCHANGED receipt
    PROVE  Promise!DecisionNext
<1> DEFINE E == {e \in EntryIds : entry'[e] # entry[e]}
<1>1. /\ \A e \in E : Decision(e) = "absent" /\ Decision(e)' = "pending"
      /\ \A e \in EntryIds \ E : Decision(e)' = Decision(e)
  BY DEF Admits, Decision
<1>2. Promise!Decide(E, "absent", "pending")
  BY <1>1, Decided
<1>3. Recordings' = Recordings
  BY DEF Recordings, Outcome
<1>4. Promise!Admit(E)
  BY <1>2, <1>3 DEF Promise!Admit, Recordings
<1> QED
  BY <1>4 DEF Promise!DecisionNext

LEMMA EditsStep ==
    ASSUME StoreInv, Edits, UNCHANGED receipt
    PROVE  Promise!DecisionNext
<1> DEFINE E == {e \in EntryIds : entry'[e] # entry[e] /\ entry'[e].state = "discarded"}
<1>1. /\ \A e \in E : Decision(e) = "pending" /\ Decision(e)' = "discarded"
      /\ \A e \in EntryIds \ E : Decision(e)' = Decision(e)
  BY DEF Edits, Decision
<1>2. Promise!Decide(E, "pending", "discarded")
  BY <1>1, Decided
<1>3. Recordings' = Recordings
  BY DEF Recordings, Outcome
<1>4. Promise!Discard(E)
  BY <1>2, <1>3 DEF Promise!Discard, Recordings
<1> QED
  BY <1>4 DEF Promise!DecisionNext

LEMMA ConfirmsStep ==
    ASSUME StoreInv, NEW w \in Workers, Confirms(w)
    PROVE  Promise!DecisionNext
<1> DEFINE r == request[w]
           E == Named(r.input)
<1>1. /\ r # None /\ CloseConfirmed(r) /\ receipt[r.op] = None
      /\ receipt'[r.op] # None /\ receipt'[r.op].input = r.input
      /\ \A o \in Ops : o # r.op => receipt'[o] = receipt[o]
  BY DEF Confirms
<1>2. r.op \in Ops
  BY <1>1, RequestFacts DEF Requests
<1>3. /\ \A e \in E : /\ entry[e] # None /\ entry[e].state = "pending"
                      /\ entry'[e] # None /\ entry'[e].state = "confirmed"
      /\ \A e \in EntryIds \ E : entry'[e] = entry[e]
      /\ E \in SUBSET EntryIds /\ r.input \in Inputs
  BY <1>1, ClosesPending
<1>4. Promise!Decide(E, "pending", "confirmed")
  <2>1. /\ \A e \in E : Decision(e) = "pending" /\ Decision(e)' = "confirmed"
        /\ \A e \in EntryIds \ E : Decision(e)' = Decision(e)
    BY <1>3 DEF Decision
  <2> HIDE DEF E
  <2> QED
    BY <1>3, <2>1, Decided
<1>5. /\ Recordings[r.op] = None
      /\ Recordings' = [Recordings EXCEPT ![r.op] = r.input]
  BY <1>1, <1>2 DEF Recordings, Outcome
<1>6. Promise!ConfirmRequest(r.op, r.input)
  BY <1>4, <1>5 DEF Promise!ConfirmRequest, Recordings
<1> QED
  BY <1>2, <1>3, <1>6 DEF Promise!DecisionNext

LEMMA RepeatsStep ==
    ASSUME StoreInv, NEW w \in Workers, CommitIdentical(w)
    PROVE  Promise!DecisionNext
<1> DEFINE r == request[w]
           o == r.op
           p == r.identical
<1>1. /\ r # None /\ r.phase = "locked" /\ receipt[o] = None /\ p # None
      /\ receipt' = [receipt EXCEPT ![o] = receipt[p]]
      /\ UNCHANGED entry
  BY DEF CommitIdentical, Reserved, Repeated
<1>2. r \in Requests /\ RequestAgrees(r)
  BY <1>1, RequestFacts
<1>3. o \in Ops /\ p \in Ops /\ receipt[p] # None /\ receipt[p] \in Outcomes
  BY <1>1, <1>2, Rows DEF RequestAgrees, Requests, StoreInv
<1>4. receipt[p].input # None
  <2>1. receipt[p].input \in Inputs
    BY <1>3 DEF Outcomes
  <2> QED
    BY <2>1, NoneAssumption
<1> HIDE DEF o, p
<1>5. /\ Recordings[o] = None /\ Recordings[p] # None
      /\ Recordings' = [Recordings EXCEPT ![o] = Recordings[p]]
  BY <1>1, <1>3, <1>4 DEF Recordings, Outcome, StoreInv, TypeOK
<1>6. Decisions' = Decisions
  BY <1>1 DEF Decisions, Decision
<1>7. Promise!RepeatRequest(o, p)
  BY <1>5, <1>6 DEF Promise!RepeatRequest, Recordings, Decisions
<1> QED
  BY <1>3, <1>7 DEF Promise!DecisionNext

\* The store is an implementation of Confirmations: however its transactions
\* interleave, every entry is decided once, and an operation has one outcome,
\* which confirms what was pending or repeats a request already confirmed.
THEOREM Implements == Spec => KeepsPromise
<1>1. Init => Promise!DecisionInit
  BY DEF Init, InitState, Promise!DecisionInit, Decision, Outcome
<1>2. StoreInv /\ [Next]_vars => [Promise!DecisionNext]_(Promise!decisionVars)
  <2> SUFFICES ASSUME StoreInv, [Next]_vars
               PROVE  Promise!DecisionNext \/ UNCHANGED Promise!decisionVars
    OBVIOUS
  <2>1. CASE UNCHANGED <<entry, receipt>>
    BY <2>1 DEF Promise!decisionVars, Decision, Outcome
  <2>2. CASE UNCHANGED vars
    BY <2>1, <2>2 DEF vars
  <2>3. CASE Next
    BY <2>1, <2>3, StepShape, AdmitsStep, EditsStep, ConfirmsStep, RepeatsStep
  <2> QED
    BY <2>2, <2>3
<1> QED
  BY <1>1, <1>2, Inductive, PTL DEF Spec, KeepsPromise, Promise!DecisionSpec

--------
(* The inductive invariant.                                                *)

\* Entries exist exactly for the inputs that were admitted; only captures are
\* ever suppressed.
EntriesAdmitted ==
    \A e \in EntryIds :
        /\ entry[e] # None <=> staged[e] # None /\ staged[e].outcome = "admitted"
        /\ staged[e] # None /\ e \notin InputIds => staged[e].outcome = "admitted"

\* A request names entries of its session at revisions that were published,
\* and what it read of one is what the entry holds at the revision it quotes.
ReadAgrees(r) ==
    /\ Named(r.input) # {}
    /\ \A e \in Named(r.input) :
          /\ entry[e].session = r.input.session
          /\ r.input.quoted[e] <= entry[e].revision
          /\ entry[e].revision = r.input.quoted[e] =>
                r.reviewed[e] = Reviewed(entry[e].content)

ReadsAgree == \A w \in Workers : request[w] # None => ReadAgrees(request[w])

\* The entries a request names are pending at the revisions it quotes.
Ready(r) ==
    \A e \in Named(r.input) :
        entry[e].state = "pending" /\ entry[e].revision = r.input.quoted[e]

\* A transaction holds its session, and while it does what it will apply stays
\* as it found it.
LockHeld(w) ==
    request[w] # None /\ request[w].phase = "locked" =>
        /\ lock[request[w].input.session] = w
        /\ request[w].identical = None => Ready(request[w])

LocksHeld == \A w \in Workers : LockHeld(w)

Applied(o, e) == receipt[o] # None /\ e \in Named(receipt[o].input)

\* The recorded requests partition the confirmed entries, each of which is one
\* revision past the reviewed one; every outcome has a position of its own.
OutcomesAgree ==
    /\ \A o \in Ops : receipt[o] # None => Named(receipt[o].input) # {}
    /\ \A o \in Ops, e \in EntryIds : Applied(o, e) =>
          /\ InState(e, "confirmed")
          /\ entry[e].revision = receipt[o].input.quoted[e] + 1
    /\ \A e \in EntryIds : InState(e, "confirmed") => \E o \in Ops : Applied(o, e)
    /\ \A o, p \in Ops, e \in EntryIds :
          Applied(o, e) /\ Applied(p, e) => receipt[o] = receipt[p]
    /\ \A o, p \in Ops :
          receipt[o] # None /\ receipt[p] # None /\ receipt[o].position = receipt[p].position
            => receipt[o] = receipt[p]

OwnedBy(o, e) == Applied(o, e) /\ receipt[o].input.destination = "ownership"

Bound(e) == [id |-> binding[e], entry |-> e, copies |-> entry[e].content.quantity]

\* The entries confirmed into ownership are bound, each to its own acquisition
\* of its reviewed content, and those of one content are numbered from one.
BindingsAgree ==
    /\ \A e \in EntryIds : binding[e] # None <=> \E o \in Ops : OwnedBy(o, e)
    /\ \A e \in EntryIds : binding[e] # None =>
          /\ binding[e].session = entry[e].session
          /\ binding[e].content = Reviewed(entry[e].content)
    /\ \A e, f \in EntryIds : binding[e] # None /\ binding[e] = binding[f] => e = f
    /\ acquisition = {Bound(e) : e \in {f \in EntryIds : binding[f] # None}}
    /\ \A s \in Sessions, c \in Contents :
          {binding[e].occurrence : e \in BoundWith(s, c)} = 1 .. Cardinality(BoundWith(s, c))

OutcomesInv ==
    StoreInv /\ EntriesAdmitted /\ ReadsAgree /\ LocksHeld /\ OutcomesAgree /\ BindingsAgree

--------
(* What any step does to an entry.                                         *)

\* Rows are kept, in their session; a row at the same revision has the same
\* content and the same decision.
Grows ==
    \A e \in EntryIds : entry[e] # None =>
        /\ entry'[e] # None
        /\ entry'[e].session = entry[e].session
        /\ entry'[e].revision >= entry[e].revision
        /\ entry'[e].revision = entry[e].revision =>
              entry'[e].content = entry[e].content /\ entry'[e].state = entry[e].state

\* Entries that exist are typed, and their sessions exist.
LEMMA EntryFacts ==
    ASSUME StoreInv, NEW e \in EntryIds, entry[e] # None
    PROVE  /\ entry[e] \in EntryRows /\ entry[e].revision \in Nat \ {0}
           /\ entry[e].session \in Sessions /\ session[entry[e].session] # None
           /\ entry[e].content \in Contents /\ entry[e].position \in Nat \ {0}
           /\ staged[e] # None
<1>1. entry[e] \in EntryRows
  BY Rows DEF StoreInv
<1> QED
  BY <1>1 DEF EntryRows, StoreInv, RecordsAgree

\* Review moves pending entries of one session nobody holds, each at a new
\* revision unless it only attaches candidates.
ReviewMoves(s) ==
    /\ s \in Sessions /\ session[s] # None /\ lock[s] = None /\ PublishReview(s)
    /\ \A e \in EntryIds :
          \/ entry'[e] = entry[e]
          \/ /\ entry[e] # None /\ entry[e].session = s /\ entry[e].state = "pending"
             /\ entry'[e] # None /\ entry'[e].session = s
             /\ \/ /\ entry'[e].revision = entry[e].revision
                   /\ entry'[e].content = entry[e].content /\ entry'[e].state = "pending"
                \/ /\ entry'[e].revision = entry[e].revision + 1
                   /\ entry'[e].state \in {"pending", "discarded"}

\* The fields of a decided row, and of a corrected one.
LEMMA ClosedFields ==
    ASSUME NEW row \in EntryRows, NEW state \in EntryStates
    PROVE  /\ Closed(row, state) # None
           /\ Closed(row, state).session = row.session
           /\ Closed(row, state).state = state
           /\ Closed(row, state).content = row.content
           /\ Closed(row, state).revision = row.revision + 1
<1>1. Closed(row, state) # None
  BY ClosedType, NoneAssumption
<1>2. ASSUME NEW n \in Nat
      PROVE  LET next == [row EXCEPT !.state = state, !.revision = n]
             IN  /\ next.session = row.session /\ next.state = state
                 /\ next.content = row.content /\ next.revision = n
  BY DEF EntryRows
<1>3. row.revision + 1 \in Nat
  BY DEF EntryRows
<1> QED
  BY <1>1, <1>2, <1>3 DEF Closed

LEMMA CorrectedFields ==
    ASSUME NEW row \in EntryRows, NEW content \in Contents
    PROVE  /\ Corrected(row, content) # None
           /\ Corrected(row, content).session = row.session
           /\ Corrected(row, content).state = row.state
           /\ Corrected(row, content).revision = row.revision + 1
<1>1. Corrected(row, content) # None
  BY CorrectedType, NoneAssumption
<1>2. ASSUME NEW n \in Nat
      PROVE  LET next == [row EXCEPT !.content = content, !.revision = n]
             IN  /\ next.session = row.session /\ next.state = row.state /\ next.revision = n
  BY DEF EntryRows
<1>3. row.revision + 1 \in Nat
  BY DEF EntryRows
<1> QED
  BY <1>1, <1>2, <1>3 DEF Corrected

LEMMA ReviewMovesOne == ASSUME StoreInv, Review PROVE \E s \in Sessions : ReviewMoves(s)
<1>0. entry \in [EntryIds -> EntryRows \cup {None}]
  BY DEF StoreInv, TypeOK
<1>1. ASSUME NEW e \in EntryIds, NEW expected \in 1 .. MaxChanges,
             NEW content \in Reviews, CorrectEntry(e, expected, content)
      PROVE  ReviewMoves(entry[e].session)
  <2> DEFINE row == Corrected(entry[e], content)
  <2>1. /\ entry[e] # None /\ entry[e].state = "pending" /\ lock[entry[e].session] = None
        /\ entry' = [entry EXCEPT ![e] = row] /\ PublishReview(entry[e].session)
    BY <1>1 DEF CorrectEntry, Reviewable, Unlocked, LockedBy
  <2>2. /\ row # None /\ row.session = entry[e].session /\ row.state = "pending"
        /\ row.revision = entry[e].revision + 1
    BY <2>1, EntryFacts, CorrectedFields, ReviewAssumption
  <2>3. entry[e].session \in Sessions /\ session[entry[e].session] # None
    BY <2>1, EntryFacts
  <2> HIDE DEF row
  <2> QED
    BY <1>0, <2>1, <2>2, <2>3 DEF ReviewMoves
<1>2. ASSUME NEW e \in EntryIds, NEW candidates \in SUBSET Candidates,
             AttachCandidates(e, candidates)
      PROVE  ReviewMoves(entry[e].session)
  <2> DEFINE row == [entry[e] EXCEPT !.candidates = @ \cup candidates]
  <2>1. /\ entry[e] # None /\ entry[e].state = "pending" /\ lock[entry[e].session] = None
        /\ entry' = [entry EXCEPT ![e] = row] /\ PublishReview(entry[e].session)
    BY <1>2 DEF AttachCandidates, Unlocked, LockedBy
  <2>2. /\ row \in EntryRows /\ row.session = entry[e].session /\ row.state = entry[e].state
        /\ row.content = entry[e].content /\ row.revision = entry[e].revision
    BY <2>1, EntryFacts DEF EntryRows
  <2>3. /\ entry[e].session \in Sessions /\ session[entry[e].session] # None
        /\ row # None
    BY <2>1, <2>2, EntryFacts, NoneAssumption
  <2> HIDE DEF row
  <2> QED
    BY <1>0, <2>1, <2>2, <2>3 DEF ReviewMoves
<1>3. ASSUME NEW e \in EntryIds, NEW expected \in 1 .. MaxChanges, DiscardEntry(e, expected)
      PROVE  ReviewMoves(entry[e].session)
  <2> DEFINE row == Closed(entry[e], "discarded")
  <2>1. /\ entry[e] # None /\ entry[e].state = "pending" /\ lock[entry[e].session] = None
        /\ entry' = [entry EXCEPT ![e] = row] /\ PublishReview(entry[e].session)
    BY <1>3 DEF DiscardEntry, Reviewable, Unlocked, LockedBy
  <2>2. /\ row # None /\ row.session = entry[e].session /\ row.state = "discarded"
        /\ row.revision = entry[e].revision + 1
    BY <2>1, EntryFacts, ClosedFields DEF EntryStates
  <2>3. entry[e].session \in Sessions /\ session[entry[e].session] # None
    BY <2>1, EntryFacts
  <2> HIDE DEF row
  <2> QED
    BY <1>0, <2>1, <2>2, <2>3 DEF ReviewMoves
<1>4. ASSUME NEW s \in Sessions, NEW expected \in 1 .. MaxChanges + 1,
             DiscardSession(s, expected)
      PROVE  ReviewMoves(s)
  <2>1. /\ session[s] # None /\ lock[s] = None /\ PublishReview(s)
        /\ entry' = [e \in EntryIds |->
              IF e \in PendingOf(s) THEN Closed(entry[e], "discarded") ELSE entry[e]]
    BY <1>4 DEF DiscardSession, Unlocked, LockedBy
  <2>2. \A e \in PendingOf(s) :
            /\ e \in EntryIds /\ entry[e] # None /\ entry[e].session = s
            /\ entry[e].state = "pending"
    BY DEF PendingOf, EntriesOf
  <2>3. ASSUME NEW e \in PendingOf(s)
        PROVE  LET row == Closed(entry[e], "discarded")
               IN  /\ row # None /\ row.session = s /\ row.state = "discarded"
                   /\ row.revision = entry[e].revision + 1
    BY <2>2, EntryFacts, ClosedFields DEF EntryStates
  <2> QED
    BY <2>1, <2>2, <2>3 DEF ReviewMoves
<1>5. \A e \in EntryIds : entry[e] # None => entry[e].session \in Sessions
  BY EntryFacts
<1>6. \/ \E e \in EntryIds : entry[e] # None /\ ReviewMoves(entry[e].session)
      \/ \E s \in Sessions : ReviewMoves(s)
  BY <1>1, <1>2, <1>3, <1>4 DEF Review, CorrectEntry, AttachCandidates, DiscardEntry
<1> QED
  BY <1>5, <1>6

LEMMA StageMoves ==
    ASSUME StoreInv, Stage
    PROVE  Admits /\ UNCHANGED <<lock, request, receipt, acquisition, binding, association>>
<1>1. UNCHANGED confirmationVars
  BY DEF Stage, StageEntries, StageCapture, CaptureUnchanged, CaptureSuppressed,
         CaptureAdmitted, StageSourceLines
<1> QED
  BY <1>1, StageInv DEF confirmationVars

\* A commit that applies its request, of either kind.
Commits(w) == CommitTag(w) \/ CommitOwnership(w)

\* What a commit that applies its request does to entries, and on what terms.
LEMMA CommitMoves ==
    ASSUME StoreInv, NEW w \in Workers, Commits(w)
    PROVE  LET r == request[w]
           IN  /\ r # None /\ r.phase = "locked" /\ r.identical = None
               /\ r \in Requests /\ r.input \in Inputs /\ r.op \in Ops
               /\ r.input.session \in Sessions /\ Named(r.input) \subseteq EntryIds
               /\ EndTransaction(w) /\ UNCHANGED staged /\ revision' = revision + 1
               /\ receipt[r.op] = None /\ receipt'[r.op] # None
               /\ receipt'[r.op].input = r.input
               /\ \A o \in Ops : o # r.op => receipt'[o] = receipt[o]
               /\ \A e \in Named(r.input) :
                     /\ entry[e] # None /\ entry[e].state = "pending"
                     /\ entry'[e] # None /\ entry'[e].state = "confirmed"
                     /\ entry'[e].session = entry[e].session
                     /\ entry'[e].content = entry[e].content
                     /\ entry'[e].revision = entry[e].revision + 1
               /\ \A e \in EntryIds \ Named(r.input) : entry'[e] = entry[e]
<1> DEFINE r == request[w]
<1>1. /\ r # None /\ r.phase = "locked" /\ r.identical = None /\ CloseConfirmed(r)
      /\ EndTransaction(w) /\ UNCHANGED staged /\ revision' = revision + 1
  BY DEF Commits, CommitTag, CommitOwnership, Reserved, AdvanceRevision
<1>2. Confirms(w)
  BY CommitTagInv, CommitOwnershipInv DEF Commits
<1>3. /\ r \in Requests /\ r.input \in Inputs /\ r.op \in Ops
      /\ r.input.session \in Sessions /\ Named(r.input) \subseteq EntryIds
      /\ \A e \in Named(r.input) : entry[e] # None
  BY <1>1, RequestFacts DEF Requests, RequestAgrees
<1>4. /\ \A e \in Named(r.input) : entry[e].state = "pending"
      /\ entry' = [e \in EntryIds |->
            IF e \in Named(r.input) THEN Closed(entry[e], "confirmed") ELSE entry[e]]
  BY <1>1 DEF CloseConfirmed
<1>5. \A e \in Named(r.input) :
          /\ Closed(entry[e], "confirmed") # None
          /\ Closed(entry[e], "confirmed").session = entry[e].session
          /\ Closed(entry[e], "confirmed").state = "confirmed"
          /\ Closed(entry[e], "confirmed").content = entry[e].content
          /\ Closed(entry[e], "confirmed").revision = entry[e].revision + 1
  BY <1>3, EntryFacts, ClosedFields DEF EntryStates
<1> QED
  BY <1>1, <1>2, <1>3, <1>4, <1>5 DEF Confirms

\* The steps of a confirmation that leave every entry as it is.
LEMMA ServesMoves ==
    ASSUME StoreInv, Confirm, \A w \in Workers : ~Commits(w)
    PROVE  /\ UNCHANGED <<session, entry, staged, acquisition, binding, association>>
           /\ \/ UNCHANGED <<revision, receipt>>
              \/ \E w \in Workers : CommitIdentical(w)
BY DEF Confirm, Commits, ReadReviewed, LockConfirmation, AnswerUnchanged, RollBack,
       CommitIdentical

LEMMA StepGrows == ASSUME StoreInv, Next PROVE Grows
<1>0. \A e \in EntryIds : entry[e] # None => entry[e].revision \in Nat
  BY EntryFacts
<1>1. CASE Stage
  BY <1>0, <1>1, StageMoves DEF Admits, Grows
<1>2. CASE Review
  BY <1>0, <1>2, ReviewMovesOne DEF ReviewMoves, Grows
<1>3. ASSUME NEW w \in Workers, Commits(w) PROVE Grows
  BY <1>0, <1>3, CommitMoves DEF Grows
<1>4. CASE Confirm /\ \A w \in Workers : ~Commits(w)
  BY <1>0, <1>4, ServesMoves DEF Grows
<1> QED
  BY <1>1, <1>2, <1>3, <1>4 DEF Next

--------
(* What a request read.                                                    *)

\* What a request read stays what it read, however the entries grow.
LEMMA ReadAgreesGrows ==
    ASSUME StoreInv, NEW r \in Requests, NEW next, ReadAgrees(r), Grows,
           next.input = r.input, next.reviewed = r.reviewed,
           \A e \in Named(r.input) : entry[e] # None,
           entry' \in [EntryIds -> EntryRows \cup {None}]
    PROVE  ReadAgrees(next)'
<1>1. /\ r.input \in Inputs /\ Named(r.input) \subseteq EntryIds
      /\ \A e \in Named(r.input) : r.input.quoted[e] \in Nat
  BY DEF Requests, Inputs, Named
<1>2. \A e \in Named(r.input) : /\ entry[e].revision \in Nat
                               /\ entry'[e] # None /\ entry'[e].revision \in Nat
  BY <1>1, EntryFacts DEF Grows, EntryRows
<1> QED
  BY <1>1, <1>2 DEF ReadAgrees, Grows, Named

\* What a request becomes in the step of another, and in its own: it reads, it
\* locks, or it is answered.
LEMMA RequestMoves ==
    ASSUME StoreInv, Next, NEW v \in Workers
    PROVE  \/ request'[v] = request[v]
           \/ request'[v] = None
           \/ LockConfirmation(v)
           \/ \E o \in Ops, s \in Sessions, d \in Destinations, E \in SUBSET EntryIds :
                ReadReviewed(v, o, s, d, E)
<1>0. request \in [Workers -> Requests \cup {None}]
  BY DEF StoreInv, TypeOK
<1>1. CASE Stage
  BY <1>1, StageMoves
<1>2. CASE Review
  BY <1>2, ReviewMovesOne DEF ReviewMoves, PublishReview, confirmationVars
<1>3. CASE Confirm
  <2>1. PICK w \in Workers :
            \/ CommitIdentical(w) \/ CommitTag(w) \/ CommitOwnership(w)
            \/ LockConfirmation(w) \/ AnswerUnchanged(w) \/ RollBack(w)
            \/ \E o \in Ops, s \in Sessions, d \in Destinations, E \in SUBSET EntryIds :
                  ReadReviewed(w, o, s, d, E)
    BY <1>3, ConfirmSteps
  <2>2. \E next : request' = [request EXCEPT ![w] = next]
    BY <2>1 DEF CommitIdentical, CommitTag, CommitOwnership, LockConfirmation,
                AnswerUnchanged, RollBack, ReadReviewed, EndTransaction
  <2>3. CASE v # w
    BY <1>0, <2>2, <2>3
  <2>4. CASE v = w
    BY <1>0, <2>1, <2>4
       DEF CommitIdentical, CommitTag, CommitOwnership, AnswerUnchanged, RollBack,
           EndTransaction
  <2> QED
    BY <2>3, <2>4
<1> QED
  BY <1>1, <1>2, <1>3 DEF Next

\* What a lock does: nothing but hold its session for the request it read.
LEMMA LockMoves ==
    ASSUME StoreInv, NEW w \in Workers, LockConfirmation(w)
    PROVE  LET r == request[w]
               next == request'[w]
           IN  /\ r # None /\ r.phase = "read" /\ lock[r.input.session] = None
               /\ r.input.session \in Sessions
               /\ lock' = [lock EXCEPT ![r.input.session] = w]
               /\ next # None /\ next.phase = "locked"
               /\ next.input = r.input /\ next.reviewed = r.reviewed
               /\ next.identical = None => Ready(r)
               /\ \A v \in Workers : v # w => request'[v] = request[v]
               /\ UNCHANGED <<session, entry, staged, revision, receipt,
                              acquisition, binding, association>>
<1> DEFINE r == request[w]
<1>1. /\ r # None /\ r.phase = "read" /\ lock[r.input.session] = None
      /\ r \in Requests /\ RequestAgrees(r) /\ r.input.session \in Sessions
      /\ lock' = [lock EXCEPT ![r.input.session] = w]
      /\ UNCHANGED <<session, entry, staged, revision, receipt,
                     acquisition, binding, association>>
      /\ request \in [Workers -> Requests \cup {None}]
  BY RequestFacts DEF LockConfirmation, Unlocked, LockedBy, StoreInv, TypeOK
<1>2. CASE \E o \in Identical(r.input) : request' = [request EXCEPT
                ![w] = [@ EXCEPT !.phase = "locked", !.identical = o]]
  <2>1. PICK o \in Identical(r.input) : request' = [request EXCEPT
              ![w] = [@ EXCEPT !.phase = "locked", !.identical = o]]
    BY <1>2
  <2> DEFINE next == [r EXCEPT !.phase = "locked", !.identical = o]
  <2>2. o \in Ops /\ o # None
    BY IdentityAssumption DEF Identical
  <2>3. /\ next \in Requests /\ next.phase = "locked" /\ next.identical = o
        /\ next.input = r.input /\ next.reviewed = r.reviewed
    BY <1>1, <2>2 DEF Requests
  <2>4. next # None
    BY <2>3, NoneAssumption
  <2>5. request' = [request EXCEPT ![w] = next]
    BY <1>1, <2>1
  <2> HIDE DEF next
  <2> QED
    BY <1>1, <2>2, <2>3, <2>4, <2>5
<1>3. CASE /\ Identical(r.input) = {} /\ Confirmable(r)
           /\ request' = [request EXCEPT ![w].phase = "locked"]
  <2> DEFINE next == [r EXCEPT !.phase = "locked"]
  <2>1. /\ next \in Requests /\ next.phase = "locked"
        /\ next.input = r.input /\ next.reviewed = r.reviewed
    BY <1>1 DEF Requests
  <2>2. next # None
    BY <2>1, NoneAssumption
  <2>3. request' = [request EXCEPT ![w] = next]
    BY <1>1, <1>3
  <2>4. Ready(r)
    BY <1>3 DEF Confirmable, Stale, Ready
  <2> HIDE DEF next
  <2> QED
    BY <1>1, <2>1, <2>2, <2>3, <2>4
<1> QED
  BY <1>2, <1>3 DEF LockConfirmation

\* What a request reads: entries of its session, as they are.
LEMMA ReadMoves ==
    ASSUME StoreInv, NEW w \in Workers, NEW o \in Ops, NEW s \in Sessions,
           NEW d \in Destinations, NEW E \in SUBSET EntryIds, ReadReviewed(w, o, s, d, E)
    PROVE  /\ request'[w] # None /\ request'[w].phase = "read"
           /\ ReadAgrees(request'[w])
           /\ UNCHANGED <<session, entry, staged, revision, lock, receipt,
                          acquisition, binding, association>>
<1>1. PICK quoted \in [E -> 1 .. MaxChanges] :
        /\ \A e \in E : quoted[e] <= entry[e].revision
        /\ request' = [request EXCEPT ![w] =
              [phase |-> "read", op |-> o, identical |-> None,
               input |-> [session |-> s, destination |-> d,
                          quoted |-> [e \in EntryIds |-> IF e \in E THEN quoted[e] ELSE 0]],
               state |-> [e \in EntryIds |-> IF e \in E THEN entry[e].state ELSE None],
               reviewed |-> [e \in EntryIds |->
                               IF e \in E THEN Reviewed(entry[e].content) ELSE None]]]
  BY DEF ReadReviewed
<1> DEFINE input == [session |-> s, destination |-> d,
                     quoted |-> [e \in EntryIds |-> IF e \in E THEN quoted[e] ELSE 0]]
           state == [e \in EntryIds |-> IF e \in E THEN entry[e].state ELSE None]
           reviewed == [e \in EntryIds |->
                           IF e \in E THEN Reviewed(entry[e].content) ELSE None]
           r == [phase |-> "read", op |-> o, identical |-> None,
                 input |-> input, state |-> state, reviewed |-> reviewed]
<1>2. \A e \in E : entry[e] # None /\ entry[e].session = s
  BY DEF ReadReviewed, EntriesOf
<1>3. E # {}
  <2>1. Cardinality({}) = 0
    BY FS_EmptySet
  <2>2. Cardinality(E) # 0
    BY ConfirmAssumption DEF ReadReviewed
  <2> QED
    BY <2>1, <2>2
<1>4. /\ Named(input) = E /\ input.session = s
      /\ \A e \in E : input.quoted[e] = quoted[e] /\ reviewed[e] = Reviewed(entry[e].content)
  BY DEF Named
<1>5. request'[w] = r
  BY <1>1 DEF StoreInv, TypeOK
<1> HIDE DEF input, state, reviewed
<1>6. r.input = input /\ r.reviewed = reviewed /\ r.phase = "read"
  OBVIOUS
<1>7. ReadAgrees(r)
  BY <1>1, <1>2, <1>3, <1>4, <1>6 DEF ReadAgrees
<1>8. request'[w] # None
  <2>1. r \in Requests
    <3>1. input \in Inputs
      BY <1>1, BoundAssumption DEF input, Inputs
    <3>2. \A e \in E : entry[e].state \in EntryStates /\ Reviewed(entry[e].content) \in Contents
      BY <1>2, EntryFacts, ReviewedType DEF EntryRows
    <3>3. /\ state \in [EntryIds -> EntryStates \cup {None}]
          /\ reviewed \in [EntryIds -> Contents \cup {None}]
      BY <3>2 DEF state, reviewed
    <3> QED
      BY <3>1, <3>3 DEF Requests
  <2> QED
    BY <1>5, <2>1, NoneAssumption
<1>9. UNCHANGED <<session, entry, staged, revision, lock, receipt,
                  acquisition, binding, association>>
  BY DEF ReadReviewed
<1> QED
  BY <1>5, <1>6, <1>7, <1>8, <1>9

LEMMA ReadsAgreeKept ==
    ASSUME StoreInv, ReadsAgree, Next PROVE ReadsAgree'
<1> SUFFICES ASSUME NEW v \in Workers, request'[v] # None
             PROVE  ReadAgrees(request[v])'
  BY DEF ReadsAgree
<1>1. entry' \in [EntryIds -> EntryRows \cup {None}]
  BY NextStoreInv DEF StoreInv, TypeOK
<1>2. ASSUME request[v] # None, request'[v].input = request[v].input,
             request'[v].reviewed = request[v].reviewed
      PROVE  ReadAgrees(request[v])'
  <2> DEFINE r == request[v]
  <2>1. /\ r \in Requests /\ ReadAgrees(r) /\ Grows
        /\ \A e \in Named(r.input) : entry[e] # None
    BY <1>2, RequestFacts, StepGrows DEF ReadsAgree, RequestAgrees
  <2>2. PICK other : other = request'[v]
    OBVIOUS
  <2>3. other.input = r.input /\ other.reviewed = r.reviewed
    BY <1>2, <2>2
  <2> HIDE DEF r
  <2>4. ReadAgrees(other)'
    BY <1>1, <2>1, <2>3, ReadAgreesGrows
  <2> QED
    BY <2>2, <2>4 DEF ReadAgrees, Named
<1>3. CASE request'[v] = request[v]
  BY <1>2, <1>3
<1>4. CASE LockConfirmation(v)
  BY <1>2, <1>4, LockMoves
<1>5. ASSUME NEW o \in Ops, NEW s \in Sessions, NEW d \in Destinations,
             NEW E \in SUBSET EntryIds, ReadReviewed(v, o, s, d, E)
      PROVE  ReadAgrees(request[v])'
  BY <1>5, ReadMoves DEF ReadAgrees, Named
<1> QED
  BY <1>3, <1>4, <1>5, RequestMoves

--------
(* What a transaction holds.                                               *)

\* The end of a transaction frees its session and answers its request.
LEMMA EndMoves ==
    ASSUME StoreInv, NEW w \in Workers, request[w] # None, EndTransaction(w)
    PROVE  /\ request[w].input.session \in Sessions
           /\ lock' = [lock EXCEPT ![request[w].input.session] = None]
           /\ request'[w] = None
           /\ \A v \in Workers : v # w => request'[v] = request[v]
BY RequestFacts DEF EndTransaction, StoreInv, TypeOK

\* No step of another moves the lock or the entries of a transaction.
LEMMA HeldStays ==
    ASSUME StoreInv, ReadsAgree, LocksHeld, Next, NEW v \in Workers,
           request[v] # None, request[v].phase = "locked", request'[v] = request[v]
    PROVE  /\ lock'[request[v].input.session] = v
           /\ \A e \in Named(request[v].input) : entry'[e] = entry[e]
<1> DEFINE r == request[v]
           s == r.input.session
<1>1. /\ lock[s] = v /\ v # None /\ s \in Sessions
      /\ Named(r.input) \subseteq EntryIds
      /\ \A e \in Named(r.input) : entry[e] # None /\ entry[e].session = s
  BY RequestFacts, IdentityAssumption
     DEF LocksHeld, LockHeld, ReadsAgree, ReadAgrees, RequestAgrees
<1>2. lock \in [Sessions -> Workers \cup {None}]
  BY DEF StoreInv, TypeOK
<1> HIDE DEF s
<1>3. CASE Stage
  BY <1>1, <1>3, StageMoves DEF Admits, s
<1>4. CASE Review
  BY <1>1, <1>4, ReviewMovesOne DEF ReviewMoves, PublishReview, confirmationVars, s
\* Whoever else ends a transaction held another session.
<1>5. ASSUME NEW w \in Workers, request[w] # None, request[w].phase = "locked",
             EndTransaction(w)
      PROVE  lock'[s] = v /\ request[w].input.session # s /\ lock[request[w].input.session] = w
  <2>1. w # v
    BY <1>5, EndMoves
  <2>2. lock[request[w].input.session] = w
    BY <1>5 DEF LocksHeld, LockHeld
  <2> QED
    BY <1>1, <1>2, <1>5, <2>1, <2>2, EndMoves
<1>6. ASSUME NEW w \in Workers, CommitIdentical(w) \/ RollBack(w)
      PROVE  lock'[s] = v /\ \A e \in Named(r.input) : entry'[e] = entry[e]
  <2>1. request[w] # None /\ request[w].phase = "locked" /\ EndTransaction(w) /\ UNCHANGED entry
    BY <1>6 DEF CommitIdentical, RollBack, Reserved
  <2> QED
    BY <1>5, <2>1
<1>7. ASSUME NEW w \in Workers, Commits(w)
      PROVE  lock'[s] = v /\ \A e \in Named(r.input) : entry'[e] = entry[e]
  <2>1. /\ request[w] # None /\ request[w].phase = "locked" /\ EndTransaction(w)
        /\ \A e \in EntryIds \ Named(request[w].input) : entry'[e] = entry[e]
    BY <1>7, CommitMoves
  <2>2. \A e \in Named(request[w].input) : entry[e].session = request[w].input.session
    BY <2>1 DEF ReadsAgree, ReadAgrees
  <2> QED
    BY <1>1, <1>5, <2>1, <2>2
<1>8. ASSUME NEW w \in Workers, LockConfirmation(w)
      PROVE  lock'[s] = v /\ \A e \in Named(r.input) : entry'[e] = entry[e]
  BY <1>1, <1>2, <1>8, LockMoves
<1>9. ASSUME NEW w \in Workers, AnswerUnchanged(w) \/
             \E o \in Ops, t \in Sessions, d \in Destinations, E \in SUBSET EntryIds :
                ReadReviewed(w, o, t, d, E)
      PROVE  lock'[s] = v /\ \A e \in Named(r.input) : entry'[e] = entry[e]
  BY <1>1, <1>9 DEF AnswerUnchanged, ReadReviewed
<1> QED
  BY <1>3, <1>4, <1>6, <1>7, <1>8, <1>9, ConfirmSteps DEF Next, Commits, s

LEMMA LocksHeldKept ==
    ASSUME StoreInv, ReadsAgree, LocksHeld, Next PROVE LocksHeld'
<1> SUFFICES ASSUME NEW v \in Workers, request'[v] # None, request'[v].phase = "locked"
             PROVE  /\ lock'[request'[v].input.session] = v
                    /\ request'[v].identical = None => Ready(request[v])'
  BY DEF LocksHeld, LockHeld
<1>1. CASE request'[v] = request[v]
  BY <1>1, HeldStays DEF LocksHeld, LockHeld, Ready, Named
<1>2. CASE LockConfirmation(v)
  <2>1. lock \in [Sessions -> Workers \cup {None}]
    BY DEF StoreInv, TypeOK
  <2> QED
    BY <1>2, <2>1, LockMoves DEF Ready, Named
<1>3. ASSUME NEW o \in Ops, NEW s \in Sessions, NEW d \in Destinations,
             NEW E \in SUBSET EntryIds, ReadReviewed(v, o, s, d, E)
      PROVE  FALSE
  BY <1>3, ReadMoves
<1> QED
  BY <1>1, <1>2, <1>3, RequestMoves

--------
(* What was admitted.                                                      *)

\* Every step but staging leaves the admissions as they are, and every step
\* leaves them as they were decided.
LEMMA StagedStays ==
    ASSUME StoreInv, Next
    PROVE  \/ Admits
           \/ UNCHANGED staged /\ \A e \in EntryIds : entry'[e] = None <=> entry[e] = None
<1>1. CASE Stage
  BY <1>1, StageMoves
<1>2. CASE Review
  BY <1>2, ReviewMovesOne DEF ReviewMoves, PublishReview, confirmationVars
<1>3. ASSUME NEW w \in Workers, Commits(w)
      PROVE  UNCHANGED staged /\ \A e \in EntryIds : entry'[e] = None <=> entry[e] = None
  BY <1>3, CommitMoves
<1>4. CASE Confirm /\ \A w \in Workers : ~Commits(w)
  BY <1>4, ServesMoves
<1> QED
  BY <1>1, <1>2, <1>3, <1>4 DEF Next

LEMMA AdmittedKept ==
    ASSUME StoreInv, EntriesAdmitted, Next
    PROVE  /\ EntriesAdmitted'
           /\ \A e \in EntryIds : staged[e] # None => staged'[e] = staged[e]
<1>1. CASE Admits
  <2> SUFFICES ASSUME NEW e \in EntryIds
               PROVE  /\ entry'[e] # None <=> staged'[e] # None /\ staged'[e].outcome = "admitted"
                      /\ staged'[e] # None /\ e \notin InputIds => staged'[e].outcome = "admitted"
                      /\ staged[e] # None => staged'[e] = staged[e]
    BY DEF EntriesAdmitted
  <2> QED
    BY <1>1 DEF Admits, EntriesAdmitted
<1>2. CASE UNCHANGED staged /\ \A e \in EntryIds : entry'[e] = None <=> entry[e] = None
  BY <1>2 DEF EntriesAdmitted
<1> QED
  BY <1>1, <1>2, StagedStays

--------
(* What a confirmation into ownership claims.                              *)

LEMMA BoundFinite ==
    ASSUME NEW s, NEW c
    PROVE  /\ BoundWith(s, c) \subseteq EntryIds
           /\ IsFiniteSet(BoundWith(s, c)) /\ Cardinality(BoundWith(s, c)) \in Nat
<1>1. BoundWith(s, c) \subseteq EntryIds
  BY DEF BoundWith
<1>2. IsFiniteSet(BoundWith(s, c))
  BY <1>1, EntryIdsFinite, FS_Subset
<1> QED
  BY <1>1, <1>2, FS_CardinalityType

\* The occurrences of the entries that share the content of one of them.
TakenBy(occurrence, r, e) == {occurrence[f] : f \in SameContent(r, e)}

\* The occurrences a request takes continue the numbering of each content.
LEMMA OccurrencesFacts ==
    ASSUME StoreInv, NEW w \in Workers, request[w] # None,
           NEW occurrence \in Occurrences(request[w]), NEW e \in Named(request[w].input)
    PROVE  LET r == request[w]
               bound == Cardinality(BoundWith(r.input.session, r.reviewed[e]))
               same == SameContent(r, e)
           IN  /\ bound \in Nat /\ IsFiniteSet(same) /\ Cardinality(same) \in Nat
               /\ e \in same /\ same \subseteq Named(r.input)
               /\ TakenBy(occurrence, r, e) = (bound + 1) .. (bound + Cardinality(same))
               /\ occurrence[e] \in Nat \ {0} /\ occurrence[e] > bound
<1> DEFINE r == request[w]
           bound == Cardinality(BoundWith(r.input.session, r.reviewed[e]))
           same == SameContent(r, e)
<1>1. bound \in Nat
  BY BoundFinite
<1>2. e \in same /\ same \subseteq Named(r.input) /\ Named(r.input) \subseteq EntryIds
  BY RequestFacts DEF SameContent
<1>3. IsFiniteSet(same) /\ Cardinality(same) \in Nat
  <2>1. IsFiniteSet(same)
    BY <1>2, EntryIdsFinite, FS_Subset
  <2> QED
    BY <2>1, FS_CardinalityType
<1>4. {occurrence[f] : f \in same} = (bound + 1) .. (bound + Cardinality(same))
  BY DEF Occurrences
<1>7. TakenBy(occurrence, r, e) = {occurrence[f] : f \in same}
  BY DEF TakenBy
<1> HIDE DEF bound, same
<1>5. occurrence[e] \in (bound + 1) .. (bound + Cardinality(same))
  BY <1>2, <1>4
<1>6. occurrence[e] \in Nat \ {0} /\ occurrence[e] > bound
  BY <1>1, <1>3, <1>5
<1> QED
  BY <1>1, <1>2, <1>3, <1>4, <1>6, <1>7 DEF bound, same

\* So no acquisition it takes was recorded before.
LEMMA FreshKeys ==
    ASSUME StoreInv, BindingsAgree, NEW w \in Workers, request[w] # None,
           NEW occurrence \in Occurrences(request[w]), NEW e \in Named(request[w].input)
    PROVE  AcquisitionOf(request[w], occurrence, e) \notin RecordedAcquisitions
<1> DEFINE r == request[w]
           s == r.input.session
           c == r.reviewed[e]
           key == AcquisitionOf(r, occurrence, e)
<1> SUFFICES ASSUME key \in RecordedAcquisitions PROVE FALSE
  OBVIOUS
<1>1. PICK f \in EntryIds : binding[f] # None /\ binding[f] = key
  BY DEF RecordedAcquisitions, BindingsAgree, Bound
<1>2. /\ s \in Sessions /\ c \in Contents
      /\ key.session = s /\ key.content = c /\ key.occurrence = occurrence[e]
  BY RequestFacts DEF AcquisitionOf
<1>3. f \in BoundWith(s, c)
  BY <1>1, <1>2 DEF BoundWith, BindingsAgree
<1>4. binding[f].occurrence \in 1 .. Cardinality(BoundWith(s, c))
  BY <1>2, <1>3 DEF BindingsAgree
<1>5. occurrence[e] > Cardinality(BoundWith(s, c)) /\ Cardinality(BoundWith(s, c)) \in Nat
  BY OccurrencesFacts
<1> QED
  BY <1>1, <1>2, <1>4, <1>5

\* A confirmation into ownership binds every entry it names to an acquisition
\* of its own, at a new position.
LEMMA OwnershipMoves ==
    ASSUME StoreInv, ReadsAgree, BindingsAgree, NEW w \in Workers, CommitOwnership(w)
    PROVE  LET r == request[w]
               E == Named(r.input)
           IN  /\ r.input.destination = "ownership"
               /\ receipt'[r.op].position = revision + 1
               /\ \E occurrence \in Occurrences(r) :
                     /\ acquisition' = acquisition \cup
                           {[id |-> AcquisitionOf(r, occurrence, e), entry |-> e,
                             copies |-> r.reviewed[e].quantity] : e \in E}
                     /\ binding' = [e \in EntryIds |->
                           IF e \in E THEN AcquisitionOf(r, occurrence, e) ELSE binding[e]]
<1> DEFINE r == request[w]
           E == Named(r.input)
           Claims(occurrence) ==
               {e \in E : AcquisitionOf(r, occurrence, e) \notin RecordedAcquisitions}
<1>1. /\ r # None /\ r.op \in Ops /\ r.input.destination = "ownership" /\ E # {}
  BY RequestFacts DEF CommitOwnership, Reserved, Requests, ReadsAgree, ReadAgrees
<1>2. PICK occurrence \in Occurrences(r) :
          /\ acquisition' = acquisition \cup
                {[id |-> AcquisitionOf(r, occurrence, e), entry |-> e,
                  copies |-> r.reviewed[e].quantity] : e \in Claims(occurrence)}
          /\ binding' = [e \in EntryIds |->
                IF e \in E THEN AcquisitionOf(r, occurrence, e) ELSE binding[e]]
          /\ \E acquisitions, inherited : receipt' = Recorded(r, acquisitions, {},
                IF Claims(occurrence) # {} THEN revision + 1 ELSE Max(inherited))
  BY DEF CommitOwnership
<1>3. Claims(occurrence) = E
  BY <1>1, FreshKeys
<1>4. receipt'[r.op].position = revision + 1
  <2> HIDE DEF Claims
  <2>1. PICK acquisitions : receipt' = Recorded(r, acquisitions, {}, revision + 1)
    BY <1>1, <1>2, <1>3
  <2> QED
    BY <1>1, <2>1 DEF Recorded, StoreInv, TypeOK
<1> HIDE DEF Claims
<1> QED
  BY <1>1, <1>2, <1>3, <1>4

--------
(* What the recorded outcomes say of the entries.                          *)

\* A confirmation that applies its request takes a position of its own.
LEMMA CommitPosition ==
    ASSUME StoreInv, ReadsAgree, BindingsAgree, NEW w \in Workers, Commits(w)
    PROVE  receipt'[request[w].op].position = revision + 1
<1>1. CASE CommitOwnership(w)
  BY <1>1, OwnershipMoves
<1>2. CASE CommitTag(w)
  <2>1. request[w].op \in Ops
    BY CommitMoves
  <2>2. PICK associations : receipt' = Recorded(request[w], {}, associations, revision + 1)
    BY <1>2 DEF CommitTag
  <2> QED
    BY <2>1, <2>2 DEF Recorded, StoreInv, TypeOK
<1> QED
  BY <1>1, <1>2 DEF Commits

\* Steps that record nothing confirm nothing.
LEMMA OutcomesStay ==
    ASSUME StoreInv, OutcomesAgree, Next, UNCHANGED receipt,
           \A e \in EntryIds : InState(e, "confirmed")' <=> InState(e, "confirmed")
    PROVE  OutcomesAgree'
<1>1. \A e \in EntryIds : InState(e, "confirmed") => entry'[e] = entry[e]
  BY DecidedStays DEF InState
<1>2. \A o \in Ops, e \in EntryIds : Applied(o, e)' <=> Applied(o, e)
  BY DEF Applied, Named
<1>3. \A o \in Ops : receipt[o] # None => Named(receipt[o].input)' = Named(receipt[o].input)
  BY DEF Named
<1> QED
  BY <1>1, <1>2, <1>3 DEF OutcomesAgree

\* An operation bound to an outcome already recorded says nothing new.
LEMMA OutcomesRepeat ==
    ASSUME StoreInv, OutcomesAgree, NEW w \in Workers, CommitIdentical(w)
    PROVE  OutcomesAgree'
<1> DEFINE r == request[w]
<1>1. /\ r.op \in Ops /\ receipt[r.op] = None /\ UNCHANGED entry
      /\ r.identical \in Ops /\ receipt[r.identical] # None
      /\ receipt' = [receipt EXCEPT ![r.op] = receipt[r.identical]]
  BY RequestFacts DEF CommitIdentical, Reserved, Repeated, Requests, RequestAgrees
<1>2. PICK p \in Ops : p = r.identical
  BY <1>1
<1>3. \A o \in Ops : receipt'[o] = IF o = r.op THEN receipt[p] ELSE receipt[o]
  BY <1>1, <1>2 DEF StoreInv, TypeOK
<1> DEFINE Of(o) == IF o = r.op THEN p ELSE o
<1>4. \A o \in Ops : Of(o) \in Ops /\ receipt'[o] = receipt[Of(o)]
  BY <1>2, <1>3
<1> HIDE DEF Of
<1>5. \A o \in Ops, e \in EntryIds : Applied(o, e)' <=> Applied(Of(o), e)
  BY <1>4 DEF Applied, Named
<1>6. \A e \in EntryIds : InState(e, "confirmed")' <=> InState(e, "confirmed")
  BY <1>1 DEF InState
<1>7. \A o \in Ops, e \in EntryIds : Applied(o, e) => Applied(o, e)'
  BY <1>1, <1>3 DEF Applied, Named
<1>8. \A o \in Ops : receipt'[o] # None => Named(receipt'[o].input) # {}
  BY <1>4 DEF OutcomesAgree
<1>9. \A o \in Ops, e \in EntryIds : Applied(o, e)' =>
          /\ InState(e, "confirmed")'
          /\ entry'[e].revision = receipt'[o].input.quoted[e] + 1
  BY <1>1, <1>4, <1>5, <1>6 DEF OutcomesAgree
<1>10. \A e \in EntryIds : InState(e, "confirmed")' => \E o \in Ops : Applied(o, e)'
  BY <1>6, <1>7 DEF OutcomesAgree
<1>11. \A o, q \in Ops, e \in EntryIds :
           Applied(o, e)' /\ Applied(q, e)' => receipt'[o] = receipt'[q]
  BY <1>4, <1>5 DEF OutcomesAgree
<1>12. \A o, q \in Ops :
           receipt'[o] # None /\ receipt'[q] # None /\ receipt'[o].position = receipt'[q].position
             => receipt'[o] = receipt'[q]
  BY <1>4 DEF OutcomesAgree
<1>13. \A o \in Ops : Named(receipt[o].input)' = Named(receipt'[o].input)
  BY DEF Named
<1> QED
  BY <1>8, <1>9, <1>10, <1>11, <1>12, <1>13 DEF OutcomesAgree

\* A confirmation records one request more, which shares no entry and no
\* position with another.
LEMMA OutcomesConfirm ==
    ASSUME StoreInv, ReadsAgree, LocksHeld, OutcomesAgree, BindingsAgree,
           NEW w \in Workers, Commits(w)
    PROVE  /\ OutcomesAgree'
           /\ \A o \in Ops, e \in EntryIds :
                 Applied(o, e)' <=>
                    IF o = request[w].op THEN e \in Named(request[w].input) ELSE Applied(o, e)
<1> DEFINE r == request[w]
           E == Named(r.input)
<1>1. /\ r \in Requests /\ r.input \in Inputs /\ r.op \in Ops /\ E \subseteq EntryIds
      /\ receipt[r.op] = None /\ receipt'[r.op] # None /\ receipt'[r.op].input = r.input
      /\ \A o \in Ops : o # r.op => receipt'[o] = receipt[o]
      /\ receipt'[r.op].position = revision + 1
  BY CommitMoves, CommitPosition
<1>2. /\ \A e \in E : /\ InState(e, "pending") /\ InState(e, "confirmed")'
                      /\ entry'[e].revision = entry[e].revision + 1
                      /\ entry[e].revision = r.input.quoted[e]
      /\ \A e \in EntryIds \ E : entry'[e] = entry[e]
      /\ E # {}
  BY CommitMoves DEF InState, LocksHeld, LockHeld, Ready, ReadsAgree, ReadAgrees
<1> HIDE DEF E
<1>3. ASSUME NEW o \in Ops, NEW e \in EntryIds
      PROVE  Applied(o, e)' <=> IF o = r.op THEN e \in E ELSE Applied(o, e)
  BY <1>1 DEF Applied, Named, E
<1>4. \A o \in Ops, e \in EntryIds : Applied(o, e) => e \notin E /\ o # r.op
  BY <1>1, <1>2 DEF OutcomesAgree, InState, Applied
<1>5. \A e \in EntryIds \ E : InState(e, "confirmed")' <=> InState(e, "confirmed")
  BY <1>2 DEF InState
<1>6. \A o \in Ops : receipt'[o] # None => Named(receipt'[o].input) # {}
  BY <1>1, <1>2 DEF OutcomesAgree, E
<1>7. \A o \in Ops, e \in EntryIds : Applied(o, e)' =>
          /\ InState(e, "confirmed")'
          /\ entry'[e].revision = receipt'[o].input.quoted[e] + 1
  <2> SUFFICES ASSUME NEW o \in Ops, NEW e \in EntryIds, Applied(o, e)'
               PROVE  /\ InState(e, "confirmed")'
                      /\ entry'[e].revision = receipt'[o].input.quoted[e] + 1
    OBVIOUS
  <2>1. CASE o = r.op
    BY <1>1, <1>2, <1>3, <2>1
  <2>2. CASE o # r.op
    <3>1. Applied(o, e) /\ e \notin E /\ receipt'[o] = receipt[o]
      BY <1>1, <1>3, <1>4, <2>2
    <3> QED
      BY <1>2, <1>5, <3>1 DEF OutcomesAgree
  <2> QED
    BY <2>1, <2>2
<1>8. \A e \in EntryIds : InState(e, "confirmed")' => \E o \in Ops : Applied(o, e)'
  <2> SUFFICES ASSUME NEW e \in EntryIds, InState(e, "confirmed")'
               PROVE  \E o \in Ops : Applied(o, e)'
    OBVIOUS
  <2>1. CASE e \in E
    BY <1>1, <1>3, <2>1
  <2>2. CASE e \notin E
    <3>1. PICK o \in Ops : Applied(o, e)
      BY <1>5, <2>2 DEF OutcomesAgree
    <3> QED
      BY <1>3, <1>4, <3>1
  <2> QED
    BY <2>1, <2>2
<1>9. \A o, p \in Ops, e \in EntryIds :
          Applied(o, e)' /\ Applied(p, e)' => receipt'[o] = receipt'[p]
  <2> SUFFICES ASSUME NEW o \in Ops, NEW p \in Ops, NEW e \in EntryIds,
                      Applied(o, e)', Applied(p, e)', o # p
               PROVE  receipt'[o] = receipt'[p]
    OBVIOUS
  <2>1. o # r.op /\ p # r.op
    BY <1>3, <1>4
  <2> QED
    BY <1>1, <1>3, <2>1 DEF OutcomesAgree
<1>10. \A o, p \in Ops :
           receipt'[o] # None /\ receipt'[p] # None /\ receipt'[o].position = receipt'[p].position
             => receipt'[o] = receipt'[p]
  <2>1. \A o \in Ops : receipt[o] # None =>
            /\ receipt[o].position \in Nat /\ receipt[o].position <= revision
            /\ revision \in Nat
    BY Rows, BoundAssumption DEF StoreInv, TypeOK, RecordsAgree, Outcomes
  <2>2. \A o \in Ops : o # r.op /\ receipt'[o] # None =>
            receipt'[o].position # revision + 1
    BY <1>1, <2>1
  <2> QED
    BY <1>1, <2>2 DEF OutcomesAgree
<1>11. \A o \in Ops : Named(receipt[o].input)' = Named(receipt'[o].input)
  BY DEF Named
<1>12. OutcomesAgree'
  BY <1>6, <1>7, <1>8, <1>9, <1>10, <1>11 DEF OutcomesAgree
<1> QED
  BY <1>3, <1>12 DEF E

\* What steps that apply no request leave confirmed.
LEMMA ConfirmsNothing ==
    ASSUME StoreInv, Next, \A w \in Workers : ~Commits(w)
    PROVE  /\ \A e \in EntryIds : InState(e, "confirmed")' <=> InState(e, "confirmed")
           /\ UNCHANGED <<binding, acquisition>>
           /\ UNCHANGED receipt \/ \E w \in Workers : CommitIdentical(w)
<1>1. CASE Stage
  BY <1>1, StageMoves DEF Admits, InState
<1>2. CASE Review
  <2>1. UNCHANGED <<binding, acquisition, receipt>>
    BY <1>2, ReviewMovesOne DEF ReviewMoves, PublishReview, confirmationVars
  <2>2. \A e \in EntryIds : \/ entry'[e] = entry[e]
                            \/ /\ entry[e] # None /\ entry[e].state = "pending"
                               /\ entry'[e] # None /\ entry'[e].state \in {"pending", "discarded"}
    BY <1>2, ReviewMovesOne DEF ReviewMoves
  <2> QED
    BY <2>1, <2>2 DEF InState
<1>3. CASE Confirm
  BY <1>3, ServesMoves DEF InState
<1> QED
  BY <1>1, <1>2, <1>3 DEF Next

LEMMA OutcomesAgreeKept ==
    ASSUME StoreInv, ReadsAgree, LocksHeld, OutcomesAgree, BindingsAgree, Next
    PROVE  OutcomesAgree'
<1>1. ASSUME NEW w \in Workers, Commits(w) PROVE OutcomesAgree'
  BY <1>1, OutcomesConfirm
<1>2. CASE \A w \in Workers : ~Commits(w)
  BY <1>2, ConfirmsNothing, OutcomesStay, OutcomesRepeat
<1> QED
  BY <1>1, <1>2

--------
(* What the bindings say of the entries.                                   *)

\* The occurrences a request takes of one content are all different.
LEMMA OccurrencesDiffer ==
    ASSUME StoreInv, NEW w \in Workers, request[w] # None,
           NEW occurrence \in Occurrences(request[w]),
           NEW e \in Named(request[w].input), NEW f \in SameContent(request[w], e),
           occurrence[e] = occurrence[f]
    PROVE  e = f
<1> DEFINE r == request[w]
           same == SameContent(r, e)
           bound == Cardinality(BoundWith(r.input.session, r.reviewed[e]))
           taken == (bound + 1) .. (bound + Cardinality(same))
           take == [x \in same |-> occurrence[x]]
<1>1. /\ bound \in Nat /\ IsFiniteSet(same) /\ Cardinality(same) \in Nat
      /\ e \in same /\ f \in same /\ {occurrence[x] : x \in same} = taken
  <2>1. TakenBy(occurrence, r, e) = {occurrence[x] : x \in same}
    BY DEF TakenBy
  <2> QED
    BY <2>1, OccurrencesFacts
<1> HIDE DEF same, bound
<1>2. Cardinality(taken) = Cardinality(same)
  <2>1. bound + 1 \in Int /\ bound + Cardinality(same) \in Int
    BY <1>1
  <2>2. Cardinality(taken) = IF bound + 1 > bound + Cardinality(same) THEN 0
                             ELSE (bound + Cardinality(same)) - (bound + 1) + 1
    BY <2>1, FS_Interval
  <2> QED
    BY <1>1, <2>2
<1>3. take \in Surjection(same, taken)
  <2> HIDE DEF taken
  <2> QED
    BY <1>1 DEF Surjection
<1>4. take \in Injection(same, taken)
  <2> HIDE DEF taken, take
  <2> QED
    BY <1>1, <1>2, <1>3, FS_SurjSameCardinalityImpliesInj
<1>5. take[e] = take[f]
  BY <1>1
<1> HIDE DEF take, taken
<1> QED
  BY <1>1, <1>4, <1>5 DEF Injection, IsInjective

\* Entries that are bound were confirmed, so no step changes them.
LEMMA BoundStays ==
    ASSUME StoreInv, OutcomesAgree, BindingsAgree, NEW e \in EntryIds, binding[e] # None
    PROVE  /\ InState(e, "confirmed")
           /\ Next => entry'[e] = entry[e]
<1>1. InState(e, "confirmed")
  BY DEF BindingsAgree, OutcomesAgree, OwnedBy
<1> QED
  BY <1>1, DecidedStays DEF InState

\* Steps that bind nothing leave the bindings as they agree.
LEMMA BindingsStay ==
    ASSUME StoreInv, OutcomesAgree, BindingsAgree, Next, UNCHANGED <<binding, acquisition>>,
           \A e \in EntryIds : (\E o \in Ops : OwnedBy(o, e)') <=> (\E o \in Ops : OwnedBy(o, e))
    PROVE  BindingsAgree'
<1>1. \A e \in EntryIds : binding[e] # None => entry'[e] = entry[e]
  BY BoundStays
<1>2. \A s \in Sessions, c \in Contents : BoundWith(s, c)' = BoundWith(s, c)
  BY <1>1 DEF BoundWith
<1>3. \A e \in EntryIds : binding'[e] # None => Bound(e)' = Bound(e)
  BY <1>1 DEF Bound
<1>4. \A e \in EntryIds : binding'[e] # None <=> \E o \in Ops : OwnedBy(o, e)'
  BY DEF BindingsAgree
<1>5. \A e \in EntryIds : binding'[e] # None =>
          /\ binding'[e].session = entry'[e].session
          /\ binding'[e].content = Reviewed(entry'[e].content)
  BY <1>1 DEF BindingsAgree
<1>6. \A e, f \in EntryIds : binding'[e] # None /\ binding'[e] = binding'[f] => e = f
  BY DEF BindingsAgree
<1>7. acquisition' = {Bound(e)' : e \in {f \in EntryIds : binding'[f] # None}}
  BY <1>3 DEF BindingsAgree
<1>8. \A s \in Sessions, c \in Contents :
          {binding'[e].occurrence : e \in BoundWith(s, c)'} = 1 .. Cardinality(BoundWith(s, c)')
  BY <1>2 DEF BindingsAgree
<1>9. \A e \in EntryIds : Reviewed(entry[e].content)' = Reviewed(entry'[e].content)
  BY DEF Reviewed
<1> QED
  BY <1>4, <1>5, <1>6, <1>7, <1>8, <1>9 DEF BindingsAgree

\* A confirmation into ownership binds the entries it names, each to an
\* acquisition of its own, and continues the numbering of every content.
LEMMA BindingsOwned ==
    ASSUME StoreInv, ReadsAgree, LocksHeld, OutcomesAgree, BindingsAgree, Next,
           NEW w \in Workers, CommitOwnership(w)
    PROVE  BindingsAgree'
<1> DEFINE r == request[w]
           E == Named(r.input)
           s == r.input.session
<1>1. PICK occurrence \in Occurrences(r) :
          /\ acquisition' = acquisition \cup
                {[id |-> AcquisitionOf(r, occurrence, e), entry |-> e,
                  copies |-> r.reviewed[e].quantity] : e \in E}
          /\ binding' = [e \in EntryIds |->
                IF e \in E THEN AcquisitionOf(r, occurrence, e) ELSE binding[e]]
  BY OwnershipMoves
<1> DEFINE Key(e) == AcquisitionOf(r, occurrence, e)
<1>2. /\ Commits(w) /\ r # None /\ r \in Requests /\ E \subseteq EntryIds /\ E # {}
      /\ s \in Sessions /\ r.input.destination = "ownership" /\ r.op \in Ops
      /\ receipt'[r.op].input = r.input /\ receipt[r.op] = None
      /\ \A o \in Ops : o # r.op => receipt'[o] = receipt[o]
  BY CommitMoves, OwnershipMoves, RequestFacts DEF Commits, ReadsAgree, ReadAgrees
\* What it names was pending, so bound to nothing, and is what it read.
<1>3. ASSUME NEW e \in E
      PROVE  /\ binding[e] = None /\ entry[e].session = s
             /\ entry'[e].session = s /\ entry'[e].content = entry[e].content
             /\ r.reviewed[e] = Reviewed(entry[e].content)
             /\ r.reviewed[e] \in Contents
             /\ r.reviewed[e].quantity = entry[e].content.quantity
  <2>1. InState(e, "pending") /\ entry[e].revision = r.input.quoted[e]
    BY <1>2, CommitMoves DEF InState, LocksHeld, LockHeld, Ready
  <2>2. binding[e] = None
    BY <1>2, <2>1, BoundStays DEF InState
  <2>3. /\ entry[e].session = s /\ r.reviewed[e] = Reviewed(entry[e].content)
    BY <1>2, <2>1 DEF ReadsAgree, ReadAgrees
  <2>4. entry[e].content \in Contents /\ entry[e] # None
    BY <1>2, <2>1, EntryFacts DEF InState
  <2>5. Reviewed(entry[e].content).quantity = entry[e].content.quantity
    BY <2>4 DEF Reviewed, Contents
  <2>6. r.reviewed[e] \in Contents
    BY <1>2, RequestFacts
  <2>7. entry'[e].session = entry[e].session /\ entry'[e].content = entry[e].content
    BY <1>2, CommitMoves
  <2> QED
    BY <2>2, <2>3, <2>5, <2>6, <2>7
<1>4. \A e \in E : /\ Key(e).session = s /\ Key(e).content = r.reviewed[e]
                   /\ Key(e).occurrence = occurrence[e]
                   /\ Key(e) # None /\ Key(e) \notin RecordedAcquisitions
  <2>1. \A e \in E : Key(e) \in AcquisitionIds
    BY <1>2, <1>3, OccurrencesFacts DEF AcquisitionOf, AcquisitionIds
  <2> QED
    BY <1>2, <2>1, FreshKeys, NoneAssumption DEF AcquisitionOf
<1>5. \A e, f \in E : Key(e) = Key(f) => e = f
  BY <1>2, <1>4, OccurrencesDiffer DEF SameContent
<1>6. ASSUME NEW e \in EntryIds, binding[e] # None
      PROVE  binding[e] \in RecordedAcquisitions
  <2>1. Bound(e) \in acquisition
    BY <1>6 DEF BindingsAgree
  <2>2. Bound(e).id = binding[e]
    BY DEF Bound
  <2> QED
    BY <2>1, <2>2 DEF RecordedAcquisitions
<1> HIDE DEF Key
<1>7. \A e \in EntryIds : binding'[e] = IF e \in E THEN Key(e) ELSE binding[e]
  BY <1>1 DEF Key
<1>8. \A e \in EntryIds \ E : binding[e] # None => entry'[e] = entry[e]
  BY BoundStays
<1>17. ASSUME NEW e \in E
       PROVE  /\ IsFiniteSet(SameContent(r, e)) /\ Cardinality(SameContent(r, e)) \in Nat
              /\ TakenBy(occurrence, r, e) =
                    (Cardinality(BoundWith(s, r.reviewed[e])) + 1) ..
                        (Cardinality(BoundWith(s, r.reviewed[e])) + Cardinality(SameContent(r, e)))
  BY <1>2, OccurrencesFacts
<1> HIDE DEF E
<1>9. \A e \in EntryIds : binding'[e] # None <=> \E o \in Ops : OwnedBy(o, e)'
  <2>1. \A o \in Ops, e \in EntryIds :
            Applied(o, e)' <=> IF o = r.op THEN e \in E ELSE Applied(o, e)
    BY <1>2, OutcomesConfirm DEF E
  <2>2. \A o \in Ops, e \in EntryIds :
            OwnedBy(o, e)' <=> IF o = r.op THEN e \in E ELSE OwnedBy(o, e)
    BY <1>2, <2>1 DEF OwnedBy
  <2>3. \A e \in EntryIds : ~OwnedBy(r.op, e)
    BY <1>2 DEF OwnedBy, Applied
  <2>4. \A e \in EntryIds : binding[e] # None <=> \E o \in Ops : OwnedBy(o, e)
    BY DEF BindingsAgree
  <2> QED
    BY <1>2, <1>4, <1>7, <2>2, <2>3, <2>4
<1>10. \A e \in EntryIds : binding'[e] # None =>
           /\ binding'[e].session = entry'[e].session
           /\ binding'[e].content = Reviewed(entry'[e].content)
  BY <1>3, <1>4, <1>7, <1>8 DEF BindingsAgree
<1>11. \A e, f \in EntryIds : binding'[e] # None /\ binding'[e] = binding'[f] => e = f
  BY <1>4, <1>5, <1>6, <1>7 DEF BindingsAgree

<1>12. acquisition' = {Bound(e)' : e \in {f \in EntryIds : binding'[f] # None}}
  <2> DEFINE Claim(e) == [id |-> Key(e), entry |-> e, copies |-> r.reviewed[e].quantity]
  <2>1. \A e \in EntryIds \ E : binding[e] # None => Bound(e)' = Bound(e)
    BY <1>7, <1>8 DEF Bound
  <2>2. \A e \in E : Claim(e) = Bound(e)'
    BY <1>2, <1>3, <1>7 DEF Bound
  <2>3. acquisition' = {Bound(e) : e \in {f \in EntryIds : binding[f] # None}}
                          \cup {Claim(e) : e \in E}
    BY <1>1 DEF BindingsAgree, Key
  <2>4. \A e \in EntryIds : binding'[e] # None <=> e \in E \/ binding[e] # None
    BY <1>4, <1>7
  <2>5. \A e \in EntryIds : binding[e] # None => e \notin E
    BY <1>3
  <2> HIDE DEF Claim, Bound
  <2> QED
    BY <1>2, <2>1, <2>2, <2>3, <2>4, <2>5
<1>13. ASSUME NEW t \in Sessions, NEW c \in Contents
       PROVE  {binding'[e].occurrence : e \in BoundWith(t, c)'} =
                  1 .. Cardinality(BoundWith(t, c)')
  <2> DEFINE before == BoundWith(t, c)
             taken == {e \in E : t = s /\ r.reviewed[e] = c}
  <2>1. BoundWith(t, c)' = before \cup taken
    BY <1>2, <1>3, <1>4, <1>7, <1>8 DEF BoundWith
  <2>2. before \cap taken = {}
    BY <1>3 DEF BoundWith
  <2>3. {binding[e].occurrence : e \in before} = 1 .. Cardinality(before)
    BY DEF BindingsAgree
  <2>4. IsFiniteSet(before) /\ Cardinality(before) \in Nat
    BY BoundFinite
  <2>5. \A e \in before : binding'[e] = binding[e]
    BY <1>3, <1>7 DEF BoundWith
  <2>6. CASE taken = {}
    BY <2>1, <2>3, <2>5, <2>6
  <2>7. CASE taken # {}
    <3>1. PICK e \in taken : e \in E /\ t = s /\ r.reviewed[e] = c
      BY <2>7
    <3>2. taken = SameContent(r, e)
      BY <3>1 DEF SameContent, E
    <3>3. /\ IsFiniteSet(taken) /\ Cardinality(taken) \in Nat
          /\ {occurrence[f] : f \in taken} =
                (Cardinality(before) + 1) .. (Cardinality(before) + Cardinality(taken))
      <4>1. /\ IsFiniteSet(SameContent(r, e)) /\ Cardinality(SameContent(r, e)) \in Nat
            /\ TakenBy(occurrence, r, e) =
                  (Cardinality(BoundWith(s, r.reviewed[e])) + 1) ..
                      (Cardinality(BoundWith(s, r.reviewed[e])) + Cardinality(SameContent(r, e)))
        BY <1>17, <3>1
      <4>2. before = BoundWith(s, r.reviewed[e])
        BY <3>1
      <4>3. TakenBy(occurrence, r, e) = {occurrence[f] : f \in taken}
        BY <3>2 DEF TakenBy
      <4> HIDE DEF before, taken, E, s, r
      <4> QED
        BY <3>2, <4>1, <4>2, <4>3
    <3>4. \A f \in taken : binding'[f].occurrence = occurrence[f]
      BY <1>2, <1>4, <1>7
    <3> HIDE DEF before, taken
    <3>5. Cardinality(before \cup taken) = Cardinality(before) + Cardinality(taken)
      <4>1. Cardinality({}) = 0
        BY FS_EmptySet
      <4>2. Cardinality(before \cup taken) =
                Cardinality(before) + Cardinality(taken) - Cardinality(before \cap taken)
        BY <2>4, <3>3, FS_Union
      <4> QED
        BY <2>2, <2>4, <3>3, <4>1, <4>2
    <3>6. {binding'[f].occurrence : f \in before \cup taken} =
              {binding[f].occurrence : f \in before} \cup {occurrence[f] : f \in taken}
      BY <2>5, <3>4
    <3>7. ASSUME NEW a \in Nat, NEW b \in Nat
          PROVE  1 .. (a + b) = (1 .. a) \cup ((a + 1) .. (a + b))
      OBVIOUS
    <3> QED
      BY <2>1, <2>3, <2>4, <3>3, <3>5, <3>6, <3>7
  <2> QED
    BY <2>6, <2>7
<1>14. \A e \in EntryIds : Reviewed(entry[e].content)' = Reviewed(entry'[e].content)
  BY DEF Reviewed
<1> QED
  BY <1>9, <1>10, <1>11, <1>12, <1>13, <1>14 DEF BindingsAgree

LEMMA BindingsAgreeKept ==
    ASSUME StoreInv, ReadsAgree, LocksHeld, OutcomesAgree, BindingsAgree, Next
    PROVE  BindingsAgree'
<1>1. ASSUME NEW w \in Workers, CommitOwnership(w) PROVE BindingsAgree'
  BY <1>1, BindingsOwned
<1>2. ASSUME NEW w \in Workers, CommitTag(w) PROVE BindingsAgree'
  <2> DEFINE r == request[w]
  <2>1. /\ Commits(w) /\ r.op \in Ops /\ receipt[r.op] = None
        /\ receipt'[r.op].input = r.input /\ r.input.destination # "ownership"
        /\ \A o \in Ops : o # r.op => receipt'[o] = receipt[o]
        /\ UNCHANGED <<binding, acquisition>>
    BY <1>2, CommitMoves, IdentityAssumption, ZenonT(60) DEF Commits, CommitTag
  <2>2. \A o \in Ops, e \in EntryIds : OwnedBy(o, e)' <=> o # r.op /\ OwnedBy(o, e)
    BY <2>1, OutcomesConfirm DEF OwnedBy
  <2>3. \A e \in EntryIds : ~OwnedBy(r.op, e)
    BY <2>1 DEF OwnedBy, Applied
  <2> QED
    BY <2>1, <2>2, <2>3, BindingsStay
<1>3. ASSUME NEW w \in Workers, CommitIdentical(w) PROVE BindingsAgree'
  <2> DEFINE r == request[w]
  <2>1. /\ r.op \in Ops /\ receipt[r.op] = None
        /\ r.identical \in Ops
        /\ receipt' = [receipt EXCEPT ![r.op] = receipt[r.identical]]
        /\ UNCHANGED <<binding, acquisition>>
    BY <1>3, RequestFacts
       DEF CommitIdentical, Reserved, Repeated, Requests, RequestAgrees
  <2>2. PICK p \in Ops : p = r.identical
    BY <2>1
  <2>3. \A o \in Ops : receipt'[o] = IF o = r.op THEN receipt[p] ELSE receipt[o]
    BY <2>1, <2>2 DEF StoreInv, TypeOK
  <2>4. \A o \in Ops, e \in EntryIds :
            OwnedBy(o, e)' <=> IF o = r.op THEN OwnedBy(p, e) ELSE OwnedBy(o, e)
    BY <2>3 DEF OwnedBy, Applied, Named
  <2>5. \A e \in EntryIds : ~OwnedBy(r.op, e)
    BY <2>1 DEF OwnedBy, Applied
  <2> QED
    BY <2>1, <2>4, <2>5, BindingsStay
<1>4. CASE UNCHANGED <<receipt, binding, acquisition>>
  <2>1. \A o \in Ops, e \in EntryIds : OwnedBy(o, e)' <=> OwnedBy(o, e)
    BY <1>4 DEF OwnedBy, Applied, Named
  <2> QED
    BY <1>4, <2>1, BindingsStay
<1>5. CASE \A w \in Workers : ~Commits(w)
  BY <1>3, <1>4, <1>5, ConfirmsNothing
<1> QED
  BY <1>1, <1>2, <1>5 DEF Commits

--------
(* The specification.                                                      *)

LEMMA InitOutcomesInv == Init => OutcomesInv
<1> SUFFICES ASSUME Init PROVE OutcomesInv
  OBVIOUS
<1>1. StoreInv
  BY InitStoreInv
<1>2. EntriesAdmitted /\ ReadsAgree /\ LocksHeld
  BY DEF Init, InitState, EntriesAdmitted, ReadsAgree, LocksHeld, LockHeld
<1>3. OutcomesAgree
  BY DEF Init, InitState, OutcomesAgree, Applied, InState
<1>4. BindingsAgree
  <2>1. \A s \in Sessions, c \in Contents : BoundWith(s, c) = {}
    BY DEF Init, InitState, BoundWith
  <2>2. Cardinality({}) = 0
    BY FS_EmptySet
  <2>3. \A e \in EntryIds : binding[e] = None /\ \A o \in Ops : ~OwnedBy(o, e)
    BY DEF Init, InitState, OwnedBy, Applied
  <2>4. acquisition = {Bound(e) : e \in {f \in EntryIds : binding[f] # None}}
    BY <2>3 DEF Init, InitState
  <2>5. ASSUME NEW s \in Sessions, NEW c \in Contents
        PROVE  {binding[e].occurrence : e \in BoundWith(s, c)} = 1 .. Cardinality(BoundWith(s, c))
    BY <2>1, <2>2
  <2> QED
    BY <2>3, <2>4, <2>5 DEF BindingsAgree
<1> QED
  BY <1>1, <1>2, <1>3, <1>4 DEF OutcomesInv

LEMMA NextOutcomesInv == OutcomesInv /\ [Next]_vars => OutcomesInv'
<1> SUFFICES ASSUME OutcomesInv, [Next]_vars PROVE OutcomesInv'
  OBVIOUS
<1>0. /\ StoreInv /\ EntriesAdmitted /\ ReadsAgree /\ LocksHeld /\ OutcomesAgree
      /\ BindingsAgree
  BY DEF OutcomesInv
<1>1. CASE Next
  <2>1. StoreInv'
    BY <1>0, NextStoreInv
  <2>2. EntriesAdmitted' /\ ReadsAgree' /\ LocksHeld'
    BY <1>0, <1>1, AdmittedKept, ReadsAgreeKept, LocksHeldKept
  <2>3. OutcomesAgree' /\ BindingsAgree'
    BY <1>0, <1>1, OutcomesAgreeKept, BindingsAgreeKept
  <2> QED
    BY <2>1, <2>2, <2>3 DEF OutcomesInv
<1>2. CASE UNCHANGED vars
  <2>1. UNCHANGED <<session, entry, staged, revision, lock, request, receipt,
                    acquisition, binding, association>>
    BY <1>2 DEF vars
  <2>2. StoreInv'
    BY <1>0, NextStoreInv
  <2>3. EntriesAdmitted'
    BY <1>0, <2>1 DEF EntriesAdmitted
  <2>4. ReadsAgree'
    BY <1>0, <2>1 DEF ReadsAgree, ReadAgrees, Named, Reviewed
  <2>5. LocksHeld'
    BY <1>0, <2>1 DEF LocksHeld, LockHeld, Ready, Named
  <2>6. OutcomesAgree'
    BY <1>0, <2>1 DEF OutcomesAgree, Applied, InState, Named
  <2>7. \A s \in Sessions, c \in Contents : BoundWith(s, c)' = BoundWith(s, c)
    BY <2>1 DEF BoundWith
  <2>8. \A e \in EntryIds : Bound(e)' = Bound(e)
    BY <2>1 DEF Bound
  <2>9. \A o \in Ops, e \in EntryIds : OwnedBy(o, e)' <=> OwnedBy(o, e)
    BY <2>1 DEF OwnedBy, Applied, Named
  <2>10. \A e \in EntryIds : Reviewed(entry[e].content)' = Reviewed(entry[e].content)
    BY <2>1 DEF Reviewed
  <2>11. BindingsAgree'
    BY <1>0, <2>1, <2>7, <2>8, <2>9, <2>10 DEF BindingsAgree
  <2> QED
    BY <2>2, <2>3, <2>4, <2>5, <2>6, <2>11 DEF OutcomesInv
<1> QED
  BY <1>1, <1>2

\* However imports are staged, reviewed and confirmed, what was read, locked,
\* recorded and bound agree.
THEOREM OutcomesInductive == Spec => []OutcomesInv
BY InitOutcomesInv, NextOutcomesInv, PTL DEF Spec

--------
(* What the outcomes say.                                                  *)

\* The recorded requests that name an entry.
LEMMA ConfirmingFacts ==
    ASSUME NEW e \in EntryIds
    PROVE  /\ \A i : i \in ConfirmingInputs(e)
                        <=> \E o \in Ops : Applied(o, e) /\ i = receipt[o].input
           /\ ConfirmingInputs(e) = {receipt[o].input : o \in {p \in Ops : Applied(p, e)}}
BY DEF ConfirmingInputs, ConfirmedInputs, Applied

\* However confirmations are retried, repeated under another operation, raced
\* against another session or interrupted, each entry is confirmed by one
\* request with one outcome.
THEOREM ConfirmsOnce == Spec => []ConfirmedOnce
<1>1. ASSUME OutcomesInv PROVE ConfirmedOnce
  <2>0. OutcomesAgree /\ StoreInv
    BY <1>1 DEF OutcomesInv
  <2>1. ASSUME NEW e \in EntryIds
        PROVE  InState(e, "confirmed") <=> ConfirmingInputs(e) # {}
    BY <2>0, ConfirmingFacts DEF OutcomesAgree
  <2>2. ASSUME NEW e \in EntryIds
        PROVE  Cardinality(ConfirmingInputs(e)) <= 1
    <3>1. CASE ConfirmingInputs(e) = {}
      BY <3>1, FS_EmptySet
    <3>2. CASE ConfirmingInputs(e) # {}
      <4>1. PICK o \in Ops : Applied(o, e)
        BY <3>2, ConfirmingFacts
      <4>2. ConfirmingInputs(e) = {receipt[o].input}
        BY <2>0, <4>1, ConfirmingFacts DEF OutcomesAgree
      <4>3. Cardinality(ConfirmingInputs(e)) = 1
        BY <4>2, FS_Singleton
      <4> QED
        BY <4>3
    <3> QED
      BY <3>1, <3>2
  <2>3. ASSUME NEW o \in Ops, NEW p \in Ops, receipt[o] # None, receipt[p] # None
        PROVE  /\ receipt[o].input = receipt[p].input => receipt[o] = receipt[p]
               /\ receipt[o].position = receipt[p].position => receipt[o] = receipt[p]
               /\ receipt[o].position <= revision
    <3>1. Named(receipt[o].input) \subseteq EntryIds /\ Named(receipt[o].input) # {}
      BY <2>0, <2>3 DEF OutcomesAgree, Named
    <3>2. receipt[o].input = receipt[p].input => receipt[o] = receipt[p]
      BY <2>0, <2>3, <3>1 DEF OutcomesAgree, Applied
    <3>3. receipt[o].position = receipt[p].position => receipt[o] = receipt[p]
      BY <2>0, <2>3 DEF OutcomesAgree
    <3>4. receipt[o].position <= revision
      BY <2>0, <2>3 DEF StoreInv, RecordsAgree
    <3> QED
      BY <3>2, <3>3, <3>4
  <2> QED
    BY <2>1, <2>2, <2>3
       DEF ConfirmedOnce, ConfirmedByOneRequest, SameRequestSameOutcome
<1> QED
  BY <1>1, OutcomesInductive, PTL

\* What a confirmation applied is what its caller reviewed, though it read the
\* content before it held the session: the confirmed entry was at the quoted
\* revision, and its acquisition has the content it then had.
THEOREM AppliesReviewed == Spec => []AppliesReviewedRevision
<1>1. ASSUME OutcomesInv PROVE AppliesReviewedRevision
  <2>0. OutcomesAgree /\ BindingsAgree
    BY <1>1 DEF OutcomesInv
  <2>1. ASSUME NEW e \in EntryIds, NEW i \in ConfirmingInputs(e)
        PROVE  entry[e].revision = i.quoted[e] + 1
    BY <2>0, ConfirmingFacts DEF OutcomesAgree
  <2>2. \A e \in EntryIds :
            binding[e] # None => binding[e].content = Reviewed(entry[e].content)
    BY <2>0 DEF BindingsAgree
  <2> QED
    BY <2>1, <2>2 DEF AppliesReviewedRevision
<1> QED
  BY <1>1, OutcomesInductive, PTL

\* Physical ownership grows once per entry confirmed into it: the bound entries
\* are those entries, each with its own acquisition and as many copies as were
\* reviewed, and the acquisitions of one content are numbered without a gap.
THEOREM OwnsOnce == Spec => []OwnedOnce
<1>1. ASSUME OutcomesInv PROVE OwnedOnce
  <2>0. StoreInv /\ OutcomesAgree /\ BindingsAgree
    BY <1>1 DEF OutcomesInv
  <2>1. ASSUME NEW e \in EntryIds
        PROVE  binding[e] # None <=> \E i \in ConfirmingInputs(e) : i.destination = "ownership"
    BY <2>0, ConfirmingFacts DEF BindingsAgree, OwnedBy
  <2>2. \A e, f \in EntryIds : binding[e] # None /\ binding[e] = binding[f] => e = f
    BY <2>0 DEF BindingsAgree
  <2>3. {[id |-> binding[e], entry |-> e, copies |-> entry[e].content.quantity] :
            e \in {e \in EntryIds : binding[e] # None}} = acquisition
    BY <2>0 DEF BindingsAgree, Bound
  <2>4. ASSUME NEW a \in acquisition, NEW n \in 1 .. a.id.occurrence
        PROVE  [a.id EXCEPT !.occurrence = n] \in RecordedAcquisitions
    <3>1. PICK e \in EntryIds : binding[e] # None /\ a.id = binding[e]
      BY <2>3
    <3> DEFINE s == entry[e].session
               c == binding[e].content
    <3>2. binding[e] \in AcquisitionIds /\ binding[e].session = s
      BY <2>0, <3>1 DEF StoreInv, TypeOK, BindingsAgree
    <3>3. s \in Sessions /\ c \in Contents /\ e \in BoundWith(s, c)
      BY <3>1, <3>2 DEF BoundWith, AcquisitionIds
    <3> HIDE DEF s, c
    <3>4. {binding[f].occurrence : f \in BoundWith(s, c)} = 1 .. Cardinality(BoundWith(s, c))
      BY <2>0, <3>3 DEF BindingsAgree
    <3>5. n \in 1 .. Cardinality(BoundWith(s, c))
      <4>1. binding[e].occurrence \in 1 .. Cardinality(BoundWith(s, c))
        BY <3>3, <3>4
      <4>2. Cardinality(BoundWith(s, c)) \in Nat
        BY BoundFinite
      <4>3. n \in 1 .. binding[e].occurrence
        BY <3>1
      <4> QED
        BY <4>1, <4>2, <4>3
    <3>6. PICK f \in BoundWith(s, c) : binding[f].occurrence = n
      BY <3>4, <3>5
    <3>7. /\ f \in EntryIds /\ binding[f] # None /\ binding[f] \in AcquisitionIds
          /\ binding[f].session = s /\ binding[f].content = c
      BY <2>0, <3>6 DEF BoundWith, StoreInv, TypeOK, BindingsAgree
    <3>8. binding[f] = [binding[e] EXCEPT !.occurrence = n]
      BY <3>2, <3>6, <3>7 DEF AcquisitionIds, c
    <3>9. Bound(f) \in acquisition /\ Bound(f).id = binding[f]
      BY <2>0, <3>7 DEF BindingsAgree, Bound
    <3> QED
      BY <3>1, <3>8, <3>9 DEF RecordedAcquisitions
  <2> QED
    BY <2>1, <2>2, <2>3, <2>4 DEF OwnedOnce
<1> QED
  BY <1>1, OutcomesInductive, PTL

--------
(* What the tags require, as sums of the quantities confirmed into them.    *)

LEMMA InUnits ==
    ASSUME NEW D, NEW Z, NEW f \in [D -> Z], NEW u
    PROVE  u \in Units(f) <=> \E e \in D : u \in {e} \X (1 .. f[e])
<1>1. DOMAIN f = D
  OBVIOUS
<1> QED
  BY <1>1 DEF Units

LEMMA UnitsFinite ==
    ASSUME NEW D, IsFiniteSet(D), NEW f \in [D -> 1 .. MaxQuantity]
    PROVE  IsFiniteSet(Units(f)) /\ Total(f) \in Nat
<1> DEFINE all == D \X (1 .. MaxQuantity)
<1>1. IsFiniteSet(1 .. MaxQuantity)
  BY BoundAssumption, FS_Interval
<1>2. IsFiniteSet(all)
  BY <1>1, FS_Product
<1>3. Units(f) \subseteq all
  <2>1. ASSUME NEW u, u \in Units(f) PROVE u \in all
    <3>1. PICK e \in D : u \in {e} \X (1 .. f[e])
      BY <2>1, InUnits
    <3>2. f[e] \in 1 .. MaxQuantity
      OBVIOUS
    <3> QED
      BY <3>1, <3>2, BoundAssumption
  <2> QED
    BY <2>1
<1> HIDE DEF all
<1>4. IsFiniteSet(Units(f))
  BY <1>2, <1>3, FS_Subset
<1> QED
  BY <1>4, FS_CardinalityType DEF Total

\* Quantities over sets with no element in common add up.
LEMMA TotalAdds ==
    ASSUME NEW D, NEW E, IsFiniteSet(D), IsFiniteSet(E), D \cap E = {},
           NEW f \in [D -> 1 .. MaxQuantity], NEW g \in [E -> 1 .. MaxQuantity],
           NEW h \in [D \cup E -> 1 .. MaxQuantity],
           \A e \in D : h[e] = f[e], \A e \in E : h[e] = g[e]
    PROVE  Total(h) = Total(f) + Total(g)
<1>1. ASSUME NEW u PROVE u \in Units(h) <=> u \in Units(f) \/ u \in Units(g)
  <2>0. /\ h \in [D \cup E -> 1 .. MaxQuantity]
        /\ f \in [D -> 1 .. MaxQuantity] /\ g \in [E -> 1 .. MaxQuantity]
    OBVIOUS
  <2>1. u \in Units(h) <=> \E e \in D \cup E : u \in {e} \X (1 .. h[e])
    BY ONLY <2>0, InUnits
  <2>2. u \in Units(f) <=> \E e \in D : u \in {e} \X (1 .. f[e])
    BY ONLY <2>0, InUnits
  <2>3. u \in Units(g) <=> \E e \in E : u \in {e} \X (1 .. g[e])
    BY ONLY <2>0, InUnits
  <2> QED
    BY <2>1, <2>2, <2>3
<1>2. Units(h) = Units(f) \cup Units(g)
  BY <1>1
<1>3. Units(f) \cap Units(g) = {}
  <2>1. ASSUME NEW u, u \in Units(f), u \in Units(g) PROVE FALSE
    <3>1. PICK d \in D : u \in {d} \X (1 .. f[d])
      BY <2>1, InUnits
    <3>2. PICK e \in E : u \in {e} \X (1 .. g[e])
      BY <2>1, InUnits
    <3>3. u[1] = d /\ u[1] = e
      BY <3>1, <3>2
    <3> QED
      BY <3>3
  <2> QED
    BY <2>1
<1>4. /\ IsFiniteSet(Units(f)) /\ IsFiniteSet(Units(g))
      /\ Total(f) \in Nat /\ Total(g) \in Nat
  BY UnitsFinite
<1>5. Cardinality(Units(h)) = Cardinality(Units(f)) + Cardinality(Units(g))
          - Cardinality(Units(f) \cap Units(g))
  BY <1>2, <1>4, FS_Union
<1>6. Cardinality(Units(f) \cap Units(g)) = 0
  BY <1>3, FS_EmptySet
<1>7. Total(h) = Total(f) + Total(g) - 0
  BY <1>5, <1>6 DEF Total
<1> QED
  BY <1>4, <1>7

ConfirmedInto(e, t) == \E o \in Ops : Applied(o, e) /\ receipt[o].input.destination = t

QuantityOf(e) == entry[e].content.quantity

\* An entry confirmed into a tag is decided, so that no step changes it.
LEMMA ConfirmedEntries ==
    ASSUME StoreInv, OutcomesAgree, NEW t, NEW e \in EntryIds, ConfirmedInto(e, t)
    PROVE  /\ InState(e, "confirmed") /\ entry[e].content \in Contents
           /\ QuantityOf(e) \in 1 .. MaxQuantity
           /\ Next => entry'[e] = entry[e]
<1>1. InState(e, "confirmed")
  BY DEF ConfirmedInto, OutcomesAgree
<1>2. entry[e].content \in Contents
  BY <1>1, EntryFacts DEF InState
<1> QED
  BY <1>1, <1>2, DecidedStays DEF InState, QuantityOf, Contents

LEMMA IntendedFacts ==
    ASSUME NEW t, NEW x
    PROVE  IntendedBy(t, x) =
             {e \in EntryIds : ConfirmedInto(e, t) /\ TargetOf(Reviewed(entry[e].content)) = x}
<1>1. ASSUME NEW e \in EntryIds
      PROVE  (\E i \in ConfirmingInputs(e) : i.destination = t) <=> ConfirmedInto(e, t)
  BY ConfirmingFacts DEF ConfirmedInto
<1> QED
  BY <1>1 DEF IntendedBy

\* The same after a step.
LEMMA IntendedThen ==
    ASSUME NEW t, NEW x
    PROVE  IntendedBy(t, x)' =
             {e \in EntryIds : ConfirmedInto(e, t)' /\ TargetOf(Reviewed(entry'[e].content)) = x}
<1>1. ASSUME NEW e \in EntryIds
      PROVE  (\E i \in ConfirmingInputs(e)' : i.destination = t) <=> ConfirmedInto(e, t)'
  BY DEF ConfirmingInputs, ConfirmedInputs, Applied, ConfirmedInto, Named
<1>2. \A e : Reviewed(entry[e].content)' = Reviewed(entry'[e].content)
  BY DEF Reviewed
<1>3. \A e : TargetOf(Reviewed(entry[e].content))' = TargetOf(Reviewed(entry'[e].content))
  BY <1>2 DEF TargetOf
<1> QED
  BY <1>1, <1>3 DEF IntendedBy

\* What the entries confirmed into a tag require of a target.
Intended(t, x) == [e \in IntendedBy(t, x) |-> QuantityOf(e)]

LEMMA IntendedType ==
    ASSUME StoreInv, OutcomesAgree, NEW t, NEW x
    PROVE  /\ IntendedBy(t, x) \subseteq EntryIds /\ IsFiniteSet(IntendedBy(t, x))
           /\ Intended(t, x) \in [IntendedBy(t, x) -> 1 .. MaxQuantity]
<1>1. /\ IntendedBy(t, x) \subseteq EntryIds
      /\ \A e \in IntendedBy(t, x) : e \in EntryIds /\ ConfirmedInto(e, t)
  BY IntendedFacts
<1>2. \A e \in IntendedBy(t, x) : QuantityOf(e) \in 1 .. MaxQuantity
  BY <1>1, ConfirmedEntries
<1>3. IsFiniteSet(IntendedBy(t, x))
  BY <1>1, EntryIdsFinite, FS_Subset
<1> QED
  BY <1>1, <1>2, <1>3 DEF Intended

\* Steps that confirm nothing into a tag leave what it requires.
LEMMA IntendedStays ==
    ASSUME StoreInv, OutcomesAgree, Next, NEW t, NEW x,
           \A e \in EntryIds : ConfirmedInto(e, t)' <=> ConfirmedInto(e, t)
    PROVE  Intended(t, x)' = Intended(t, x)
<1>1. \A e \in EntryIds : ConfirmedInto(e, t) => entry'[e] = entry[e]
  BY ConfirmedEntries
<1>2. IntendedBy(t, x)' = {e \in EntryIds : ConfirmedInto(e, t)'
                              /\ TargetOf(Reviewed(entry'[e].content)) = x}
  BY IntendedThen
<1> QED
  BY <1>1, <1>2, IntendedFacts DEF Intended, QuantityOf

\* A confirmation into a tag adds the quantities it reviewed.
LEMMA IntendedGrows ==
    ASSUME OutcomesInv, Next, NEW w \in Workers, CommitTag(w), NEW x \in Targets,
           NEW t \in Tags, request[w].input.destination = t, IntendedOnce
    PROVE  association'[t][x] = Total(Intended(t, x)')
<1> DEFINE r == request[w]
           E == Named(r.input)
           D == IntendedBy(t, x)
           F == ReviewsOf(r, x)
           f == Intended(t, x)
           g == [e \in F |-> r.reviewed[e].quantity]
           h == Intended(t, x)'
<1>0. /\ StoreInv /\ OutcomesAgree /\ ReadsAgree /\ LocksHeld /\ BindingsAgree /\ Commits(w)
      /\ Next
  BY DEF OutcomesInv, Commits
<1>1. /\ r # None /\ r.op \in Ops /\ E \subseteq EntryIds
      /\ receipt[r.op] = None /\ receipt'[r.op].input = r.input
      /\ \A o \in Ops : o # r.op => receipt'[o] = receipt[o]
      /\ r.phase = "locked" /\ r.identical = None
      /\ \A e \in E : /\ InState(e, "pending") /\ entry[e] # None
                      /\ entry'[e].content = entry[e].content
      /\ \A e \in EntryIds \ E : entry'[e] = entry[e]
  BY <1>0, CommitMoves DEF InState
<1>2. \A e \in E : entry[e].revision = r.input.quoted[e]
  BY <1>0, <1>1 DEF LocksHeld, LockHeld, Ready
<1>3. \A e \in E : /\ r.reviewed[e] = Reviewed(entry[e].content)
                   /\ entry[e].content \in Contents
  BY <1>0, <1>1, <1>2, EntryFacts DEF ReadsAgree, ReadAgrees
<1>4. \A e \in E : /\ r.reviewed[e].quantity = QuantityOf(e)
                   /\ QuantityOf(e) \in 1 .. MaxQuantity
  BY <1>3 DEF Reviewed, QuantityOf, Contents
<1>5. \A o \in Ops, e \in EntryIds :
          Applied(o, e)' <=> IF o = r.op THEN e \in E ELSE Applied(o, e)
  BY <1>0, OutcomesConfirm
<1>6. \A e \in EntryIds : ConfirmedInto(e, t)' <=> ConfirmedInto(e, t) \/ e \in E
  <2>1. \A e \in EntryIds : ~Applied(r.op, e)
    BY <1>1 DEF Applied
  <2> HIDE DEF E
  <2>2. receipt'[r.op].input.destination = t
    BY <1>1
  <2> QED
    BY <1>1, <1>5, <2>1, <2>2 DEF ConfirmedInto
<1>7. \A e \in EntryIds : ConfirmedInto(e, t) => e \notin E /\ entry'[e] = entry[e]
  BY <1>0, <1>1, ConfirmedEntries DEF InState
<1>8. F = {e \in E : TargetOf(Reviewed(entry[e].content)) = x}
  BY <1>3 DEF ReviewsOf
<1>9. D = {e \in EntryIds : ConfirmedInto(e, t) /\ TargetOf(Reviewed(entry[e].content)) = x}
  BY IntendedFacts
<1>10. IntendedBy(t, x)' = {e \in EntryIds : ConfirmedInto(e, t)'
                               /\ TargetOf(Reviewed(entry'[e].content)) = x}
  BY IntendedThen
<1>11. /\ IntendedBy(t, x)' = D \cup F /\ D \cap F = {} /\ F \subseteq E
       /\ D \subseteq EntryIds /\ F \subseteq EntryIds
  <2> HIDE DEF E, F, D
  <2>1. \A e \in E : e \in EntryIds
    BY <1>1
  <2>2. ASSUME NEW e \in EntryIds PROVE e \in IntendedBy(t, x)' <=> e \in D \/ e \in F
    BY <1>1, <1>6, <1>7, <1>8, <1>9, <1>10
  <2> QED
    BY <1>7, <1>8, <1>9, <1>10, <2>1, <2>2
<1>12. f \in [D -> 1 .. MaxQuantity] /\ IsFiniteSet(D) /\ \A e \in D : f[e] = QuantityOf(e)
  BY <1>0, IntendedType DEF Intended
<1>13. g \in [F -> 1 .. MaxQuantity] /\ \A e \in F : g[e] = QuantityOf(e)
  BY <1>4, <1>11
<1>14. \A e \in D \cup F : entry'[e].content.quantity = QuantityOf(e)
  BY <1>1, <1>7, <1>9, <1>11 DEF QuantityOf
<1>15. h = [e \in IntendedBy(t, x)' |-> entry'[e].content.quantity]
  BY DEF Intended, QuantityOf
<1> HIDE DEF D, F, f, g
<1>16. h \in [D \cup F -> 1 .. MaxQuantity] /\ \A e \in D \cup F : h[e] = QuantityOf(e)
  BY <1>11, <1>12, <1>13, <1>14, <1>15
<1> HIDE DEF h
<1>17. Total(h) = Total(f) + Total(g)
  <2>1. IsFiniteSet(F)
    BY <1>11, EntryIdsFinite, FS_Subset
  <2> QED
    BY <1>11, <1>12, <1>13, <1>16, <2>1, TotalAdds
<1>18. /\ association[t][x] = Total(f) /\ Total(f) \in Nat
  BY <1>11, <1>12, UnitsFinite DEF IntendedOnce, f, Intended, QuantityOf
<1>19. Required(r, x) = association[t][x] + Total(g)
  BY DEF Required, g, F
<1>20. x \notin ReviewedTargets(r) => Total(g) = 0
  <2>1. ASSUME x \notin ReviewedTargets(r) PROVE Units(g) = {}
    <3>1. F = {}
      BY <2>1 DEF F, ReviewsOf, ReviewedTargets
    <3> QED
      BY <1>13, <3>1 DEF Units
  <2> QED
    BY <2>1, FS_EmptySet DEF Total
<1>21. association'[t][x] = IF x \in ReviewedTargets(r) THEN Required(r, x) ELSE association[t][x]
  <2>1. association' = [association EXCEPT ![t] =
            [y \in Targets |-> IF y \in ReviewedTargets(r) THEN Required(r, y)
                              ELSE association[t][y]]]
    BY DEF CommitTag
  <2>2. association \in [Tags -> [Targets -> 0 .. MaxAssociation]]
    BY <1>0 DEF StoreInv, TypeOK
  <2> QED
    BY <2>1, <2>2
<1>22. association'[t][x] = Total(h)
  BY <1>17, <1>18, <1>19, <1>20, <1>21
<1> QED
  BY <1>22 DEF h

\* A confirmation into a tag confirms nothing into another.
LEMMA OthersKeep ==
    ASSUME OutcomesInv, NEW w \in Workers, Commits(w), NEW t \in Tags,
           request[w].input.destination # t
    PROVE  \A e \in EntryIds : ConfirmedInto(e, t)' <=> ConfirmedInto(e, t)
<1> DEFINE r == request[w]
<1>1. /\ StoreInv /\ OutcomesAgree /\ ReadsAgree /\ LocksHeld /\ BindingsAgree
      /\ r.op \in Ops /\ receipt[r.op] = None /\ receipt'[r.op].input = r.input
      /\ \A o \in Ops : o # r.op => receipt'[o] = receipt[o]
  BY CommitMoves DEF OutcomesInv
<1>2. \A o \in Ops, e \in EntryIds :
          Applied(o, e)' <=> IF o = r.op THEN e \in Named(r.input) ELSE Applied(o, e)
  BY <1>1, OutcomesConfirm
<1>3. \A e \in EntryIds : ~Applied(r.op, e)
  BY <1>1 DEF Applied
<1> QED
  BY <1>1, <1>2, <1>3 DEF ConfirmedInto

\* No other step confirms anything.
LEMMA NothingConfirmed ==
    ASSUME OutcomesInv, Next, \A w \in Workers : ~Commits(w), NEW t
    PROVE  /\ \A e \in EntryIds : ConfirmedInto(e, t)' <=> ConfirmedInto(e, t)
           /\ UNCHANGED association
<1>0. StoreInv /\ Next
  BY DEF OutcomesInv
<1>1. ASSUME UNCHANGED receipt
      PROVE  \A e \in EntryIds : ConfirmedInto(e, t)' <=> ConfirmedInto(e, t)
  BY <1>1 DEF ConfirmedInto, Applied, Named
<1>2. ASSUME NEW w \in Workers, CommitIdentical(w)
      PROVE  \A e \in EntryIds : ConfirmedInto(e, t)' <=> ConfirmedInto(e, t)
  <2> DEFINE r == request[w]
  <2>1. /\ r.op \in Ops /\ receipt[r.op] = None
        /\ r.identical \in Ops
        /\ receipt' = [receipt EXCEPT ![r.op] = receipt[r.identical]]
    BY <1>0, <1>2, RequestFacts
       DEF CommitIdentical, Reserved, Repeated, Requests, RequestAgrees
  <2>2. PICK p \in Ops : p = r.identical
    BY <2>1
  <2>3. \A o \in Ops : receipt'[o] = IF o = r.op THEN receipt[p] ELSE receipt[o]
    BY <1>0, <2>1, <2>2 DEF StoreInv, TypeOK
  <2>4. \A o \in Ops, e \in EntryIds :
            Applied(o, e)' <=> IF o = r.op THEN Applied(p, e) ELSE Applied(o, e)
    BY <2>3 DEF Applied, Named
  <2>5. \A e \in EntryIds : ~Applied(r.op, e)
    BY <2>1 DEF Applied
  <2> QED
    BY <2>1, <2>3, <2>4, <2>5 DEF ConfirmedInto
<1>3. UNCHANGED association
  <2>1. CASE Stage
    BY <1>0, <2>1, StageMoves
  <2>2. CASE Review
    BY <1>0, <2>2, ReviewMovesOne DEF ReviewMoves, PublishReview, confirmationVars
  <2>3. CASE Confirm
    BY <2>3, ConfirmSteps DEF Commits, CommitIdentical, LockConfirmation,
       AnswerUnchanged, RollBack, ReadReviewed
  <2> QED
    BY <1>0, <2>1, <2>2, <2>3 DEF Next
<1>4. UNCHANGED receipt \/ \E w \in Workers : CommitIdentical(w)
  BY <1>0, ConfirmsNothing
<1>5. \A e \in EntryIds : ConfirmedInto(e, t)' <=> ConfirmedInto(e, t)
  BY <1>1, <1>2, <1>4
<1> QED
  BY <1>3, <1>5

LEMMA IntendedKept ==
    OutcomesInv /\ IntendedOnce /\ [Next]_vars => IntendedOnce'
<1> SUFFICES ASSUME OutcomesInv, IntendedOnce, [Next]_vars,
                    NEW t \in Tags, NEW x \in Targets
             PROVE  association'[t][x] = Total(Intended(t, x)')
  BY DEF IntendedOnce, Intended, QuantityOf
<1>0. StoreInv /\ OutcomesAgree /\ association[t][x] = Total(Intended(t, x))
  BY DEF OutcomesInv, IntendedOnce, Intended, QuantityOf
<1>1. ASSUME Next, UNCHANGED association,
             \A e \in EntryIds : ConfirmedInto(e, t)' <=> ConfirmedInto(e, t)
      PROVE  association'[t][x] = Total(Intended(t, x)')
  BY <1>0, <1>1, IntendedStays
<1>2. ASSUME NEW w \in Workers, CommitTag(w)
      PROVE  association'[t][x] = Total(Intended(t, x)')
  <2>0. Next /\ Commits(w)
    BY <1>2 DEF Commits, Next, Confirm
  <2>1. CASE request[w].input.destination = t
    BY <1>2, <2>0, <2>1, IntendedGrows
  <2>2. CASE request[w].input.destination # t
    <3>1. Intended(t, x)' = Intended(t, x)
      BY <1>0, <2>0, <2>2, OthersKeep, IntendedStays
    <3>2. association'[t][x] = association[t][x]
      <4>1. PICK u : u = request[w].input.destination
        OBVIOUS
      <4>2. \E new : association' = [association EXCEPT ![u] = new]
        BY <1>2, <4>1 DEF CommitTag
      <4> QED
        BY <1>0, <2>2, <4>1, <4>2 DEF StoreInv, TypeOK
    <3> QED
      BY <1>0, <3>1, <3>2
  <2> QED
    BY <2>1, <2>2
<1>3. ASSUME NEW w \in Workers, CommitOwnership(w)
      PROVE  association'[t][x] = Total(Intended(t, x)')
  <2>1. /\ Next /\ Commits(w) /\ UNCHANGED association
        /\ request[w].input.destination # t
    BY <1>3, IdentityAssumption DEF Commits, CommitOwnership, Next, Confirm
  <2> QED
    BY <1>1, <2>1, OthersKeep
<1>4. CASE Next /\ \A w \in Workers : ~Commits(w)
  BY <1>1, <1>4, NothingConfirmed
<1>5. CASE UNCHANGED vars
  <2>1. UNCHANGED <<association, entry, receipt>>
    BY <1>5 DEF vars
  <2>2. \A e \in EntryIds : Reviewed(entry'[e].content) = Reviewed(entry[e].content)
    BY <2>1
  <2>3. \A e \in EntryIds : ConfirmedInto(e, t)' <=> ConfirmedInto(e, t)
    BY <2>1 DEF ConfirmedInto, Applied, Named
  <2>4. IntendedBy(t, x)' = IntendedBy(t, x)
    BY <2>2, <2>3, IntendedFacts, IntendedThen
  <2>5. Intended(t, x)' = Intended(t, x)
    BY <2>1, <2>4 DEF Intended, QuantityOf
  <2> QED
    BY <1>0, <2>1, <2>5
<1> QED
  BY <1>2, <1>3, <1>4, <1>5 DEF Commits

\* However confirmations into a tag are retried, repeated or interrupted, the
\* tag requires of each target exactly what the entries confirmed into it
\* review to that target.
THEOREM IntendsOnce == Spec => []IntendedOnce
<1>1. Init => IntendedOnce
  <2> SUFFICES ASSUME Init, NEW t \in Tags, NEW x \in Targets
               PROVE  association[t][x] = Total(Intended(t, x))
    BY DEF IntendedOnce, Intended, QuantityOf
  <2>1. association[t][x] = 0 /\ \A o \in Ops : receipt[o] = None
    BY DEF Init, InitState
  <2>2. IntendedBy(t, x) = {}
    BY <2>1, IntendedFacts DEF ConfirmedInto, Applied
  <2>3. Units(Intended(t, x)) = {}
    BY <2>2 DEF Units, Intended
  <2> QED
    BY <2>1, <2>3, FS_EmptySet DEF Total
<1> QED
  BY <1>1, IntendedKept, OutcomesInductive, PTL DEF Spec

--------
(* What an operation reports.                                              *)

\* ReportsWhatItDid of one outcome, in terms of the tables it is about.
Reported(outcome, row, bound, required) ==
    LET E == Named(outcome.input)
        Target(e) == TargetOf(Reviewed(row[e].content))
        To(x) == {e \in E : Target(e) = x}
    IN  IF outcome.input.destination = "ownership"
        THEN /\ outcome.associations = {}
             /\ outcome.acquisitions = {bound[e] : e \in E}
        ELSE /\ outcome.acquisitions = {}
             /\ {x.target : x \in outcome.associations} = {Target(e) : e \in E}
             /\ \A x \in outcome.associations :
                   /\ x.quantity <= required[outcome.input.destination][x.target]
                   /\ x.quantity >= Total([e \in To(x.target) |-> row[e].content.quantity])

LEMMA ReportsIs ==
    /\ ReportsWhatItDid <=>
          \A o \in Ops : receipt[o] # None =>
              Reported(receipt[o], entry, binding, association)
    /\ ReportsWhatItDid' <=>
          \A o \in Ops : receipt'[o] # None =>
              Reported(receipt'[o], entry', binding', association')
BY DEF ReportsWhatItDid, ReportsAcquired, ReportsRequired, ConfirmedTo, Reported,
   Named, Reviewed, TargetOf, Total, Units

\* What was reported stays true while its entries stay and no tag requires less.
LEMMA ReportedStays ==
    ASSUME NEW outcome \in Outcomes, NEW row, NEW bound, NEW row2, NEW bound2,
           NEW required \in [Tags -> [Targets -> Nat]],
           NEW required2 \in [Tags -> [Targets -> Nat]],
           Reported(outcome, row, bound, required),
           \A e \in Named(outcome.input) : row2[e] = row[e] /\ bound2[e] = bound[e],
           \A t \in Tags, x \in Targets : required2[t][x] >= required[t][x]
    PROVE  Reported(outcome, row2, bound2, required2)
<1> DEFINE E == Named(outcome.input)
           t == outcome.input.destination
           Target(e) == TargetOf(Reviewed(row[e].content))
           Target2(e) == TargetOf(Reviewed(row2[e].content))
<1>1. CASE t = "ownership"
  <2>1. {bound2[e] : e \in E} = {bound[e] : e \in E}
    OBVIOUS
  <2> QED
    BY <1>1, <2>1 DEF Reported
<1>2. CASE t # "ownership"
  <2>1. t \in Tags
    BY <1>2 DEF Outcomes, Inputs, Destinations
  <2>2. /\ outcome.acquisitions = {}
        /\ {x.target : x \in outcome.associations} = {Target(e) : e \in E}
        /\ \A x \in outcome.associations :
              /\ x.quantity <= required[t][x.target]
              /\ x.quantity >=
                    Total([e \in {f \in E : Target(f) = x.target} |-> row[e].content.quantity])
    BY <1>2 DEF Reported
  <2>3. {Target2(e) : e \in E} = {Target(e) : e \in E}
    OBVIOUS
  <2>4. ASSUME NEW x
        PROVE  [e \in {f \in E : Target2(f) = x} |-> row2[e].content.quantity]
                 = [e \in {f \in E : Target(f) = x} |-> row[e].content.quantity]
    OBVIOUS
  <2>5. ASSUME NEW x \in outcome.associations PROVE x.quantity <= required2[t][x.target]
    <3>1. x.target \in Targets /\ x.quantity \in Nat
      BY DEF Outcomes
    <3>2. PICK u \in Tags : u = t
      BY <2>1
    <3>3. x.quantity <= required[u][x.target]
      BY <2>2, <3>2
    <3>4. /\ required[u][x.target] \in Nat /\ required2[u][x.target] \in Nat
          /\ required2[u][x.target] >= required[u][x.target]
      BY <3>1
    <3>5. x.quantity <= required2[u][x.target]
      BY <3>1, <3>3, <3>4
    <3> QED
      BY <3>2, <3>5
  <2>6. \A x \in outcome.associations :
          x.quantity >=
            Total([e \in {f \in E : Target2(f) = x.target} |-> row2[e].content.quantity])
    BY <2>2, <2>4
  <2> QED
    BY <1>2, <2>2, <2>3, <2>5, <2>6 DEF Reported
<1> QED
  BY <1>1, <1>2

\* What was confirmed stays bound, whatever else is confirmed.
LEMMA ConfirmedBound ==
    ASSUME OutcomesInv, Next, NEW e \in EntryIds, InState(e, "confirmed")
    PROVE  entry'[e] = entry[e] /\ binding'[e] = binding[e]
<1>0. StoreInv
  BY DEF OutcomesInv
<1>1. entry'[e] = entry[e]
  BY <1>0, DecidedStays DEF InState
<1>2. ASSUME NEW w \in Workers, CommitOwnership(w) PROVE binding'[e] = binding[e]
  <2>1. e \notin Named(request[w].input)
    BY <1>0, <1>2, CommitMoves DEF Commits, InState
  <2> QED
    BY <1>2, <2>1 DEF CommitOwnership
<1>3. ASSUME NEW w \in Workers, CommitTag(w) PROVE binding'[e] = binding[e]
  BY <1>3 DEF CommitTag
<1>4. ASSUME \A w \in Workers : ~Commits(w) PROVE binding'[e] = binding[e]
  BY <1>0, <1>4, ConfirmsNothing
<1> QED
  BY <1>1, <1>2, <1>3, <1>4 DEF Commits

\* What a confirmation into a tag will require of the targets it reviews.
LEMMA RequiredFacts ==
    ASSUME OutcomesInv, NEW w \in Workers, CommitTag(w)
    PROVE  LET r == request[w]
               t == r.input.destination
               Target(e) == TargetOf(Reviewed(entry[e].content))
           IN  /\ t \in Tags
               /\ ReviewedTargets(r) = {Target(e) : e \in Named(r.input)}
               /\ \A x \in Targets :
                     /\ association'[t][x] =
                          IF x \in ReviewedTargets(r) THEN Required(r, x) ELSE association[t][x]
                     /\ \A u \in Tags : u # t => association'[u][x] = association[u][x]
                     /\ \E n \in Nat :
                          /\ n = Total([e \in {e \in Named(r.input) : Target(e) = x} |->
                                          entry[e].content.quantity])
                          /\ Required(r, x) = association[t][x] + n
<1> DEFINE r == request[w]
           t == r.input.destination
           E == Named(r.input)
           Target(e) == TargetOf(Reviewed(entry[e].content))
<1>0. /\ StoreInv /\ ReadsAgree /\ LocksHeld /\ Commits(w)
      /\ association \in [Tags -> [Targets -> 0 .. MaxAssociation]]
  BY DEF OutcomesInv, Commits, StoreInv, TypeOK
<1>1. /\ r # None /\ E \subseteq EntryIds /\ r.phase = "locked" /\ r.identical = None
      /\ \A e \in E : entry[e] # None
  BY <1>0, CommitMoves
<1>2. \A e \in E : entry[e].revision = r.input.quoted[e]
  BY <1>0, <1>1 DEF LocksHeld, LockHeld, Ready
<1>3. \A e \in E : /\ r.reviewed[e] = Reviewed(entry[e].content)
                   /\ entry[e].content \in Contents
  BY <1>0, <1>1, <1>2, EntryFacts DEF ReadsAgree, ReadAgrees
<1>4. \A e \in E : /\ r.reviewed[e].quantity = entry[e].content.quantity
                   /\ entry[e].content.quantity \in 1 .. MaxQuantity
  BY <1>3 DEF Reviewed, Contents
<1>5. t \in Tags
  BY IdentityAssumption DEF CommitTag
<1> DEFINE new == [x \in Targets |-> IF x \in ReviewedTargets(r) THEN Required(r, x)
                                     ELSE association[t][x]]
<1>6. association' = [association EXCEPT ![t] = new]
  BY DEF CommitTag
<1> HIDE DEF E, t, r
<1>7. \A x \in Targets :
          /\ association'[t][x] =
               IF x \in ReviewedTargets(r) THEN Required(r, x) ELSE association[t][x]
          /\ \A u \in Tags : u # t => association'[u][x] = association[u][x]
  BY <1>0, <1>5, <1>6
<1>8. ReviewedTargets(r) = {Target(e) : e \in E}
  BY <1>3 DEF ReviewedTargets, E
<1>9. ASSUME NEW x \in Targets
      PROVE  \E n \in Nat :
                /\ n = Total([e \in {e \in E : Target(e) = x} |-> entry[e].content.quantity])
                /\ Required(r, x) = association[t][x] + n
  <2> DEFINE F == {e \in E : Target(e) = x}
             g == [e \in F |-> entry[e].content.quantity]
  <2>1. F = ReviewsOf(r, x)
    BY <1>3 DEF ReviewsOf, E
  <2>2. g = [e \in ReviewsOf(r, x) |-> r.reviewed[e].quantity]
    BY <1>4, <2>1
  <2>3. Required(r, x) = association[t][x] + Total(g)
    BY <2>2 DEF Required, t
  <2>4. IsFiniteSet(F)
    BY <1>1, EntryIdsFinite, FS_Subset
  <2>5. g \in [F -> 1 .. MaxQuantity]
    BY <1>4
  <2> HIDE DEF F, g
  <2>6. Total(g) \in Nat
    BY <2>4, <2>5, UnitsFinite
  <2> QED
    BY <2>3, <2>6 DEF g, F
<1> QED
  BY <1>5, <1>7, <1>8, <1>9 DEF E, t, r

\* No step lowers what a tag requires.
LEMMA RequiredGrows ==
    ASSUME OutcomesInv, Next, NEW t \in Tags, NEW x \in Targets
    PROVE  association'[t][x] >= association[t][x]
<1>0. /\ StoreInv /\ Next /\ association[t][x] \in Nat
  BY BoundAssumption DEF OutcomesInv, StoreInv, TypeOK
<1>1. ASSUME NEW w \in Workers, CommitTag(w) PROVE association'[t][x] >= association[t][x]
  <2>1. PICK r : r = request[w]
    OBVIOUS
  <2>2. /\ association'[r.input.destination][x] =
             IF x \in ReviewedTargets(r) THEN Required(r, x)
             ELSE association[r.input.destination][x]
        /\ \A u \in Tags : u # r.input.destination => association'[u][x] = association[u][x]
        /\ \E n \in Nat : Required(r, x) = association[r.input.destination][x] + n
    BY <1>1, <2>1, RequiredFacts
  <2>3. CASE t = r.input.destination
    BY <1>0, <2>2, <2>3
  <2>4. CASE t # r.input.destination
    BY <1>0, <2>2, <2>4
  <2> QED
    BY <2>3, <2>4
<1>2. ASSUME NEW w \in Workers, CommitOwnership(w) PROVE UNCHANGED association
  BY <1>2 DEF CommitOwnership
<1>3. ASSUME \A w \in Workers : ~Commits(w) PROVE UNCHANGED association
  BY <1>0, <1>3, NothingConfirmed
<1> QED
  BY <1>0, <1>1, <1>2, <1>3 DEF Commits

\* A confirmation reports what it does.
LEMMA CommitReports ==
    ASSUME OutcomesInv, Next, NEW w \in Workers, Commits(w)
    PROVE  Reported(receipt'[request[w].op], entry', binding', association')
<1> DEFINE r == request[w]
           E == Named(r.input)
           t == r.input.destination
           Target(e) == TargetOf(Reviewed(entry[e].content))
           Target2(e) == TargetOf(Reviewed(entry'[e].content))
<1>0. StoreInv /\ OutcomesInv'
  BY NextOutcomesInv DEF OutcomesInv
<1>1. /\ r.op \in Ops /\ E \subseteq EntryIds
      /\ \A e \in E : entry'[e].content = entry[e].content
      /\ receipt \in [Ops -> Outcomes \cup {None}]
  BY <1>0, CommitMoves DEF StoreInv, TypeOK
<1>2. CASE CommitOwnership(w)
  <2>1. PICK occurrence, position :
          /\ binding' = [e \in EntryIds |->
                            IF e \in E THEN AcquisitionOf(r, occurrence, e) ELSE binding[e]]
          /\ receipt' = Recorded(r, {AcquisitionOf(r, occurrence, e) : e \in E}, {}, position)
          /\ t = "ownership"
    BY <1>2 DEF CommitOwnership
  <2>2. receipt'[r.op] = [input |-> r.input,
                          acquisitions |-> {AcquisitionOf(r, occurrence, e) : e \in E},
                          associations |-> {}, position |-> position]
    BY <1>1, <2>1 DEF Recorded
  <2>3. {binding'[e] : e \in E} = {AcquisitionOf(r, occurrence, e) : e \in E}
    BY <1>1, <2>1
  <2>4. PICK out : out = receipt'[r.op]
    OBVIOUS
  <2>5. /\ out.input = r.input /\ out.associations = {}
        /\ out.acquisitions = {binding'[e] : e \in E}
    BY <2>2, <2>3, <2>4
  <2>6. Reported(out, entry', binding', association')
    BY <2>1, <2>5 DEF Reported
  <2> QED
    BY <2>4, <2>6
<1>3. CASE CommitTag(w)
  <2> DEFINE X == ReviewedTargets(r)
             of(x) == [target |-> x, quantity |-> Required(r, x)]
             rows == {of(x) : x \in X}
  <2>1. receipt'[r.op] = [input |-> r.input, acquisitions |-> {},
                          associations |-> rows, position |-> revision + 1]
    <3>1. receipt' = Recorded(r, {}, rows, revision + 1)
      BY <1>3 DEF CommitTag
    <3> QED
      BY <1>1, <3>1 DEF Recorded
  <2>2. /\ t \in Tags /\ X = {Target(e) : e \in E}
        /\ \A x \in Targets :
              /\ x \in X => association'[t][x] = Required(r, x)
              /\ \E n \in Nat :
                    /\ n = Total([e \in {e \in E : Target(e) = x} |->
                                    entry[e].content.quantity])
                    /\ Required(r, x) = association[t][x] + n
    BY <1>3, RequiredFacts
  <2>3. X \subseteq Targets
    <3>1. \A x \in X : \E e \in E : x = TargetOf(r.reviewed[e])
      BY DEF ReviewedTargets
    <3>2. \A e \in E : r.reviewed[e] \in Contents /\ ~Unresolved(t, r.reviewed[e])
      BY <1>0, <1>3, CommitMoves, RequestFacts DEF Commits, RequestAgrees
    <3>3. t \in Destinations
      BY <2>2 DEF Destinations
    <3> QED
      BY <3>1, <3>2, <3>3, TargetType
  <2>4. \A e \in E : Target2(e) = Target(e) /\ entry'[e].content.quantity = entry[e].content.quantity
    BY <1>1
  <2> HIDE DEF X, E, t
  <2>5. {y.target : y \in rows} = {Target2(e) : e \in E}
    <3>1. {y.target : y \in rows} = X
      <4>1. \A x : of(x).target = x
        OBVIOUS
      <4> HIDE DEF of
      <4> QED
        BY <4>1
    <3>2. {Target2(e) : e \in E} = {Target(e) : e \in E}
      BY <2>4
    <3> QED
      BY <2>2, <3>1, <3>2
  <2>6. ASSUME NEW x \in X
        PROVE  /\ Required(r, x) <= association'[t][x]
               /\ Required(r, x) >=
                     Total([e \in {e \in E : Target2(e) = x} |-> entry'[e].content.quantity])
    <3>1. [e \in {e \in E : Target2(e) = x} |-> entry'[e].content.quantity]
            = [e \in {e \in E : Target(e) = x} |-> entry[e].content.quantity]
      BY <2>4
    <3>2. PICK n \in Nat :
            /\ n = Total([e \in {e \in E : Target(e) = x} |-> entry[e].content.quantity])
            /\ Required(r, x) = association[t][x] + n
      BY <2>2, <2>3
    <3>3. association[t][x] \in Nat
      BY <1>0, <2>2, <2>3, BoundAssumption DEF StoreInv, TypeOK
    <3>4. Required(r, x) \in Nat /\ association'[t][x] = Required(r, x)
      BY <2>2, <2>3, <3>2, <3>3
    <3> QED
      BY <3>1, <3>2, <3>3, <3>4
  <2>7. t # "ownership"
    BY <2>2, IdentityAssumption
  <2>8. \A y \in rows :
          /\ y.quantity <= association'[t][y.target]
          /\ y.quantity >=
                Total([e \in {e \in E : Target2(e) = y.target} |-> entry'[e].content.quantity])
    <3> SUFFICES ASSUME NEW x \in X, NEW y, y = of(x)
                 PROVE  /\ y.quantity <= association'[t][y.target]
                        /\ y.quantity >=
                             Total([e \in {e \in E : Target2(e) = y.target} |->
                                      entry'[e].content.quantity])
      OBVIOUS
    <3>1. y.target = x /\ y.quantity = Required(r, x)
      OBVIOUS
    <3> HIDE DEF of
    <3> QED
      BY <2>6, <3>1
  <2> HIDE DEF rows
  <2>9. PICK out : out = receipt'[r.op]
    OBVIOUS
  <2>10. /\ out.input = r.input /\ out.acquisitions = {} /\ out.associations = rows
    BY <2>1, <2>9
  <2>11. Reported(out, entry', binding', association')
    BY <2>5, <2>7, <2>8, <2>10 DEF Reported, E, t
  <2> QED
    BY <2>9, <2>11
<1> QED
  BY <1>2, <1>3 DEF Commits

LEMMA ReportsKept ==
    OutcomesInv /\ ReportsWhatItDid /\ [Next]_vars => ReportsWhatItDid'
<1> SUFFICES ASSUME OutcomesInv, ReportsWhatItDid, [Next]_vars, NEW o \in Ops,
                    receipt'[o] # None
             PROVE  Reported(receipt'[o], entry', binding', association')
  BY ReportsIs
<1>0. StoreInv /\ OutcomesAgree
  BY DEF OutcomesInv
<1>1. ASSUME Next, NEW p \in Ops, receipt[p] # None
      PROVE  Reported(receipt[p], entry', binding', association')
  <2>1. Reported(receipt[p], entry, binding, association) /\ receipt[p] \in Outcomes
    BY <1>0, <1>1, ReportsIs, Rows DEF StoreInv
  <2>2. \A e \in Named(receipt[p].input) : e \in EntryIds /\ InState(e, "confirmed")
    BY <1>0, <1>1 DEF OutcomesAgree, Applied, Named
  <2>3. \A e \in Named(receipt[p].input) : entry'[e] = entry[e] /\ binding'[e] = binding[e]
    BY <1>1, <2>2, ConfirmedBound
  <2>4. /\ association \in [Tags -> [Targets -> Nat]]
        /\ association' \in [Tags -> [Targets -> Nat]]
    <3>1. TypeOK /\ TypeOK'
      BY <1>0, <1>1, NextStoreInv DEF StoreInv
    <3>2. 0 .. MaxAssociation \subseteq Nat
      BY BoundAssumption
    <3> QED
      BY <3>1, <3>2 DEF TypeOK
  <2>5. \A t \in Tags, x \in Targets : association'[t][x] >= association[t][x]
    BY <1>1, RequiredGrows
  <2>6. PICK outcome, required, required2 :
          outcome = receipt[p] /\ required = association /\ required2 = association'
    OBVIOUS
  <2>7. /\ outcome \in Outcomes /\ Reported(outcome, entry, binding, required)
        /\ required \in [Tags -> [Targets -> Nat]] /\ required2 \in [Tags -> [Targets -> Nat]]
        /\ \A e \in Named(outcome.input) : entry'[e] = entry[e] /\ binding'[e] = binding[e]
        /\ \A t \in Tags, x \in Targets : required2[t][x] >= required[t][x]
    BY <2>1, <2>3, <2>4, <2>5, <2>6
  <2>8. Reported(outcome, entry', binding', required2)
    BY ONLY <2>7, ReportedStays
  <2> QED
    BY <2>6, <2>8
<1>2. CASE Next /\ receipt[o] # None
  BY <1>0, <1>1, <1>2, ReceiptStays
<1>3. ASSUME Next, receipt[o] = None, NEW w \in Workers, Commits(w)
      PROVE  Reported(receipt'[o], entry', binding', association')
  <2>1. o = request[w].op
    BY <1>0, <1>3, CommitMoves
  <2> QED
    BY <1>3, <2>1, CommitReports
<1>4. ASSUME Next, receipt[o] = None, \A w \in Workers : ~Commits(w)
      PROVE  Reported(receipt'[o], entry', binding', association')
  <2>1. PICK w \in Workers : CommitIdentical(w)
    BY <1>0, <1>4, ConfirmsNothing
  <2>2. /\ request[w].op \in Ops /\ request[w].identical \in Ops
        /\ receipt[request[w].identical] # None
        /\ receipt' = [receipt EXCEPT ![request[w].op] = receipt[request[w].identical]]
    BY <1>0, <2>1, RequestFacts
       DEF CommitIdentical, Reserved, Repeated, Requests, RequestAgrees
  <2>3. receipt'[o] = receipt[request[w].identical]
    BY <1>0, <1>4, <2>2 DEF StoreInv, TypeOK
  <2> QED
    BY <1>1, <1>4, <2>2, <2>3
<1>5. CASE UNCHANGED vars
  <2>1. UNCHANGED <<receipt, entry, binding, association>>
    BY <1>5 DEF vars
  <2> QED
    BY <2>1, ReportsIs
<1> QED
  BY <1>2, <1>3, <1>4, <1>5

\* What an operation reports, at once or to a retry however late, is what its
\* confirmation did: the acquisitions its entries are bound to, or the targets
\* they review to, at no more than the tag requires now and no less than was
\* added.
THEOREM ReportsOutcomes == Spec => []ReportsWhatItDid
<1>1. Init => ReportsWhatItDid
  BY DEF Init, InitState, ReportsWhatItDid
<1> QED
  BY <1>1, ReportsKept, OutcomesInductive, PTL DEF Spec

--------
(* Admissions.                                                             *)

\* An input's admission is decided once, and entries exist exactly for the
\* admitted inputs: no retry stages what was suppressed.
THEOREM AdmitsOnce == Spec => AdmissionPermanent
<1>1. ASSUME OutcomesInv, [Next]_vars
      PROVE  [\A e \in EntryIds :
                /\ staged[e] # None => staged'[e] = staged[e]
                /\ staged'[e] # None /\ staged'[e].outcome = "admitted" <=> entry'[e] # None]_vars
  BY <1>1, AdmittedKept DEF OutcomesInv, EntriesAdmitted
<1> QED
  BY <1>1, OutcomesInductive, PTL DEF Spec, AdmissionPermanent

--------
(* What a step publishes.                                                  *)

\* Only one session changes, and it and the account publish a new revision.
Elsewhere(s) == \A t \in Sessions : t # s => session'[t] = session[t]

Publishes(s) ==
    /\ Elsewhere(s)
    /\ revision' = revision + 1
    /\ session'[s] # None
    /\ session[s] # None => session'[s].revision = session[s].revision + 1

\* Staging prepares its session and stages nothing; inserts lines, whose
\* accepted identity is not theirs to move; or accepts a capture at the end of
\* the sequence, with another identity than the last.
Claims(s) ==
    /\ Elsewhere(s) /\ UNCHANGED <<entry, revision>>
    /\ \A e \in EntryIds : entry[e] # None => staged'[e] = staged[e]
    /\ session[s] # None => session'[s] = session[s]

Inserts(s) ==
    /\ Publishes(s)
    /\ session[s] # None => session'[s].lastAccepted = session[s].lastAccepted
    /\ \A e \in EntryIds :
          \/ entry'[e] = entry[e] /\ staged'[e] = staged[e]
          \/ /\ entry[e] = None /\ entry'[e].session = s
             /\ staged'[e].fingerprint.kind = "line"

Accepts(s, id) ==
    /\ Publishes(s)
    /\ entry[id] = None /\ entry'[id] # None
    /\ entry'[id].session = s /\ entry'[id].position = NextPosition(s)
    /\ staged'[id].fingerprint.kind = "capture"
    /\ session'[s].lastAccepted = staged'[id].fingerprint.content.card
    /\ session[s] # None =>
          session[s].lastAccepted # staged'[id].fingerprint.content.card
    /\ \A e \in EntryIds : e # id => entry'[e] = entry[e] /\ staged'[e] = staged[e]

LEMMA RevisedFields ==
    ASSUME NEW row \in SessionRows, NEW card \in Cards \cup {None}
    PROVE  LET bumped == [row EXCEPT !.revision = @ + 1]
           IN  /\ bumped # None /\ bumped.revision = row.revision + 1
               /\ bumped.lastAccepted = row.lastAccepted
               /\ Accepting(row, card) # None
               /\ Accepting(row, card).revision = row.revision + 1
               /\ Accepting(row, card).lastAccepted = card
<1>1. Accepting(row, card) \in SessionRows /\ [row EXCEPT !.revision = @ + 1] \in SessionRows
  BY AcceptingType DEF SessionRows
<1>2. row.revision + 1 \in Nat
  BY DEF SessionRows
<1>3. ASSUME NEW n \in Nat
      PROVE  LET next == [row EXCEPT !.lastAccepted = card, !.revision = n]
             IN  next.revision = n /\ next.lastAccepted = card
  BY DEF SessionRows
<1>4. [row EXCEPT !.revision = @ + 1].revision = row.revision + 1
      /\ [row EXCEPT !.revision = @ + 1].lastAccepted = row.lastAccepted
  BY DEF SessionRows
<1> QED
  BY <1>1, <1>2, <1>3, <1>4, NoneAssumption DEF Accepting

LEMMA OnlyClaims ==
    ASSUME StoreInv, NEW s \in Sessions, NEW source \in SourceOf(s), OnlyClaim(s, source),
           UNCHANGED staged
    PROVE  Claims(s)
BY ClaimedType DEF OnlyClaim, Claims, Elsewhere, Claimed

LEMMA InsertsLines ==
    ASSUME StoreInv, NEW s \in Sessions, NEW source \in SourceOf(s), NEW lines,
           NEW fresh, InsertStagedEntries(s, source, lines, fresh)
    PROVE  Inserts(s)
<1> DEFINE before == Claimed(s, source)
           next == [before[s] EXCEPT !.revision = @ + 1]
<1>1. /\ before \in [Sessions -> SessionRows \cup {None}] /\ before[s] \in SessionRows
      /\ \A t \in Sessions : t # s => before[t] = session[t]
      /\ session[s] # None => before[s] = session[s]
  BY ClaimedType DEF Claimed
<1>2. session' = [before EXCEPT ![s] = next] /\ revision' = revision + 1
  BY DEF InsertStagedEntries, AdvanceRevision
<1>3. /\ next # None /\ next.revision = before[s].revision + 1
      /\ next.lastAccepted = before[s].lastAccepted
  BY <1>1, RevisedFields
<1>4. ASSUME NEW e \in EntryIds
      PROVE  \/ entry'[e] = entry[e] /\ staged'[e] = staged[e]
             \/ /\ entry[e] = None /\ entry'[e].session = s
                /\ staged'[e].fingerprint.kind = "line"
  BY DEF InsertStagedEntries, NewEntry, LineFingerprint
<1> HIDE DEF before, next
<1>5. session'[s] = next /\ Elsewhere(s)
  BY <1>1, <1>2 DEF Elsewhere
<1> QED
  BY <1>1, <1>2, <1>3, <1>4, <1>5 DEF Inserts, Publishes

LEMMA AcceptsCapture ==
    ASSUME StoreInv, NEW s \in Sessions, NEW id \in InputIds, NEW reading \in Readings,
           CaptureAdmitted(s, id, reading)
    PROVE  Accepts(s, id)
<1> DEFINE source == CaptureSource(s)
           before == Claimed(s, source)
           card == reading.content.card
           next == Accepting(before[s], card)
<1>1. /\ reading \in [content : Contents, candidates : SUBSET Candidates]
      /\ id \in EntryIds /\ card \in Cards \cup {None} /\ source \in SourceOf(s)
  BY StagingAssumption DEF EntryIds, Contents, SourceOf
<1>2. /\ before \in [Sessions -> SessionRows \cup {None}] /\ before[s] \in SessionRows
      /\ \A t \in Sessions : t # s => before[t] = session[t]
      /\ session[s] # None => before[s] = session[s]
  BY <1>1, ClaimedType DEF Claimed
<1>3. session' = [before EXCEPT ![s] = next] /\ revision' = revision + 1
  BY DEF CaptureAdmitted, AcceptIdentity, AdvanceRevision
<1>4. /\ next # None /\ next.revision = before[s].revision + 1 /\ next.lastAccepted = card
  BY <1>1, <1>2, RevisedFields
<1>5. NextPosition(s) \in Nat \ {0}
  BY NextPositionType
<1> HIDE DEF before, next
<1>6. session'[s] = next /\ Elsewhere(s)
  BY <1>2, <1>3 DEF Elsewhere
<1>7. /\ entry' = [entry EXCEPT ![id] =
             NewEntry(s, NextPosition(s), None, reading.content, reading.candidates)]
      /\ staged' = [staged EXCEPT ![id] = StageRow(s, "admitted", reading)]
      /\ staged[id] = None
      /\ session[s] # None => session[s].lastAccepted # card
  BY DEF CaptureAdmitted, Undecided, RepeatsAccepted
<1>8. /\ entry \in [EntryIds -> EntryRows \cup {None}]
      /\ staged \in [EntryIds -> StageRows \cup {None}]
      /\ entry[id] = None
  BY <1>1, <1>7 DEF StoreInv, TypeOK, RecordsAgree
<1>9. /\ staged'[id].fingerprint.kind = "capture"
      /\ staged'[id].fingerprint.content.card = card
      /\ \A e \in EntryIds : e # id => entry'[e] = entry[e] /\ staged'[e] = staged[e]
  BY <1>1, <1>7, <1>8 DEF StageRow, CaptureFingerprint
<1>10. /\ entry'[id] # None /\ entry'[id].session = s /\ entry'[id].position = NextPosition(s)
  BY <1>1, <1>5, <1>7, <1>8, NewEntryType, NoneAssumption
<1> QED
  BY <1>2, <1>3, <1>4, <1>6, <1>7, <1>8, <1>9, <1>10 DEF Accepts, Publishes

LEMMA StagePublishes ==
    ASSUME StoreInv, Stage
    PROVE  \E s \in Sessions : Claims(s) \/ Inserts(s) \/ \E id \in EntryIds : Accepts(s, id)
<1>1. \A s \in Sessions : Sources \cup {CaptureSource(s)} = SourceOf(s)
  BY DEF SourceOf
<1>2. ASSUME NEW s \in Sessions, NEW source \in SourceOf(s), OnlyClaim(s, source),
             UNCHANGED staged
      PROVE  Claims(s)
  BY <1>2, OnlyClaims
<1>3. ASSUME NEW s \in Sessions, NEW source \in SourceOf(s), NEW batch \in LineBatches,
             StageEntries(s, source, batch)
      PROVE  Claims(s) \/ Inserts(s)
  BY <1>3, OnlyClaims, InsertsLines DEF StageEntries, OnlyClaim
<1>4. ASSUME NEW s \in Sessions, NEW id \in InputIds, NEW reading \in Readings,
             StageCapture(s, id, reading)
      PROVE  Claims(s) \/ Accepts(s, id)
  <2>1. CaptureSource(s) \in SourceOf(s) /\ id \in EntryIds
    BY DEF SourceOf, EntryIds
  <2>2. CASE CaptureUnchanged(s, id, reading)
    BY <2>1, <2>2, OnlyClaims DEF CaptureUnchanged, OnlyClaim
  <2>3. CASE CaptureSuppressed(s, id, reading)
    <3>1. \A e \in EntryIds : entry[e] # None => e # id
      BY <2>1, <2>3 DEF CaptureSuppressed, Undecided, StoreInv, RecordsAgree
    <3> QED
      BY <2>1, <2>3, <3>1 DEF CaptureSuppressed, Claims, Elsewhere, StoreInv, TypeOK
  <2>4. CASE CaptureAdmitted(s, id, reading)
    BY <2>4, AcceptsCapture
  <2> QED
    BY <1>4, <2>2, <2>3, <2>4 DEF StageCapture
<1>5. ASSUME NEW s \in Sessions, NEW source \in Sources, NEW rows \in SourceBatches,
             StageSourceLines(s, source, rows)
      PROVE  Claims(s) \/ Inserts(s)
  BY <1>1, <1>5, OnlyClaims, InsertsLines DEF StageSourceLines, OnlyClaim
<1> QED
  BY <1>1, <1>3, <1>4, <1>5 DEF Stage, EntryIds

\* The entries a step changes are those of the session it publishes.
Within(s) ==
    \A e \in EntryIds :
        \/ entry'[e] = entry[e]
        \/ /\ entry[e] # None => entry[e].session = s
           /\ entry'[e] # None => entry'[e].session = s

LEMMA StepPublishes ==
    ASSUME StoreInv, ReadsAgree, Next
    PROVE  \/ /\ UNCHANGED <<entry, revision, receipt, acquisition, association>>
              /\ \A s \in Sessions : session[s] # None => session'[s] = session[s]
           \/ UNCHANGED <<session, entry>> /\ revision' = revision + 1
           \/ \E s \in Sessions : Publishes(s) /\ Within(s)
<1>0. session \in [Sessions -> SessionRows \cup {None}]
  BY DEF StoreInv, TypeOK
<1>1. CASE Stage
  <2>1. UNCHANGED <<receipt, acquisition, association>>
    BY <1>1, StageMoves
  <2>2. PICK s \in Sessions : Claims(s) \/ Inserts(s) \/ \E id \in EntryIds : Accepts(s, id)
    BY <1>1, StagePublishes
  <2>3. CASE Claims(s)
    BY <2>1, <2>3 DEF Claims, Elsewhere
  <2>4. CASE Inserts(s)
    BY <2>4 DEF Inserts, Within
  <2>5. CASE \E id \in EntryIds : Accepts(s, id)
    BY <2>5 DEF Accepts, Within
  <2> QED
    BY <2>2, <2>3, <2>4, <2>5
<1>2. ASSUME NEW s \in Sessions, session[s] # None, session' = BumpSession(s)
      PROVE  /\ Elsewhere(s) /\ session'[s] # None
             /\ session'[s].revision = session[s].revision + 1
  <2> DEFINE bumped == [session[s] EXCEPT !.revision = @ + 1]
  <2>1. session' = [session EXCEPT ![s] = bumped]
    BY <1>2 DEF BumpSession
  <2>2. bumped # None /\ bumped.revision = session[s].revision + 1
    BY <1>0, <1>2, RevisedFields
  <2> HIDE DEF bumped
  <2> QED
    BY <1>0, <2>1, <2>2 DEF Elsewhere
<1>3. CASE Review
  <2>1. PICK s \in Sessions : ReviewMoves(s)
    BY <1>3, ReviewMovesOne
  <2>2. /\ session[s] # None /\ session' = BumpSession(s) /\ revision' = revision + 1
    BY <2>1 DEF ReviewMoves, PublishReview, AdvanceRevision
  <2>3. Within(s)
    BY <2>1 DEF ReviewMoves, Within
  <2> QED
    BY <1>2, <2>2, <2>3 DEF Publishes
<1>4. ASSUME NEW w \in Workers, Commits(w)
      PROVE  \E s \in Sessions : Publishes(s) /\ Within(s)
  <2> DEFINE s == request[w].input.session
  <2>1. /\ s \in Sessions /\ session[s] # None /\ session' = BumpSession(s)
        /\ revision' = revision + 1
    BY <1>4, RequestFacts
       DEF Commits, CommitTag, CommitOwnership, CloseConfirmed, Reserved, AdvanceRevision
  <2>2. Within(s)
    BY <1>4, CommitMoves DEF ReadsAgree, ReadAgrees, Within
  <2> QED
    BY <1>2, <2>1, <2>2 DEF Publishes
<1>5. CASE Confirm /\ \A w \in Workers : ~Commits(w)
  BY <1>5, ServesMoves DEF CommitIdentical, AdvanceRevision
<1> QED
  BY <1>1, <1>3, <1>4, <1>5 DEF Next

\* Every change a reader can see publishes a new account revision, so what is
\* read at one revision is one state.
THEOREM RevisesEveryChange == Spec => RevisionNamesState
<1>1. ASSUME OutcomesInv, [Next]_vars
      PROVE  [(entry' # entry \/ receipt' # receipt \/ acquisition' # acquisition
                 \/ association' # association) => revision' > revision]_vars
  <2>1. revision \in Nat
    BY <1>1, BoundAssumption DEF OutcomesInv, StoreInv, TypeOK
  <2>2. CASE Next
    <3>1. \/ UNCHANGED <<entry, receipt, acquisition, association>>
          \/ revision' = revision + 1
      BY <1>1, <2>2, StepPublishes DEF OutcomesInv, Publishes
    <3> QED
      BY <2>1, <3>1
  <2> QED
    BY <1>1, <2>2
<1> QED
  BY <1>1, OutcomesInductive, PTL DEF Spec, RevisionNamesState

\* Every change of a session's entries or of its accepted sequence publishes a
\* new revision of it, so the revision a whole-import discard quotes names what
\* its caller saw.
THEOREM RevisesEverySession == Spec => SessionRevisionNamesView
<1>1. ASSUME OutcomesInv, [Next]_vars
      PROVE  [\A s \in Sessions :
                session[s] # None /\
                (\/ \E e \in EntryIds :
                       /\ entry[e] # entry'[e]
                       /\ s \in {r.session : r \in {entry[e], entry'[e]} \ {None}}
                 \/ session'[s] # session[s])
                   => session'[s].revision > session[s].revision]_vars
  <2> SUFFICES ASSUME Next, NEW s \in Sessions, session[s] # None,
                      \/ \E e \in EntryIds :
                            /\ entry[e] # entry'[e]
                            /\ s \in {r.session : r \in {entry[e], entry'[e]} \ {None}}
                      \/ session'[s] # session[s]
               PROVE  session'[s].revision > session[s].revision
    BY <1>1
  <2>1. session[s].revision \in Nat
    <3>1. session[s] \in SessionRows
      BY <1>1, Rows DEF OutcomesInv, StoreInv
    <3> QED
      BY <3>1 DEF SessionRows
  <2>2. PICK t \in Sessions : Publishes(t) /\ Within(t)
    BY <1>1, StepPublishes DEF OutcomesInv
  <2>3. CASE t = s
    BY <2>1, <2>2, <2>3 DEF Publishes
  <2>4. CASE t # s
    BY <2>2, <2>4 DEF Publishes, Elsewhere, Within
  <2> QED
    BY <2>3, <2>4
<1> QED
  BY <1>1, OutcomesInductive, PTL DEF Spec, SessionRevisionNamesView

--------
(* The accepted sequence.                                                  *)

\* What a step that accepts no capture leaves of the sequence.
LEMMA SequenceStays ==
    ASSUME StoreInv, AcceptedSequence,
           \A s \in Sessions : session[s] # None => session'[s].lastAccepted = session[s].lastAccepted,
           \A e \in EntryIds :
              \/ /\ entry[e] # None /\ staged'[e] = staged[e] /\ entry'[e] # None
                 /\ entry'[e].session = entry[e].session
                 /\ entry'[e].position = entry[e].position
              \/ /\ entry[e] = None
                 /\ entry'[e] = None \/ staged'[e].fingerprint.kind = "line"
    PROVE  AcceptedSequence'
<1>1. ASSUME NEW s \in Sessions PROVE Captured(s)' = Captured(s)
  <2>1. \A e \in EntryIds : e \in Captured(s)' <=>
            entry'[e] # None /\ entry'[e].session = s /\ staged'[e].fingerprint.kind = "capture"
    BY DEF Captured, EntriesOf
  <2>2. \A e \in EntryIds : e \in Captured(s) <=>
            entry[e] # None /\ entry[e].session = s /\ staged[e].fingerprint.kind = "capture"
    BY DEF Captured, EntriesOf
  <2>3. \A e \in EntryIds : e \in Captured(s)' <=> e \in Captured(s)
    BY <2>1, <2>2
  <2>4. Captured(s)' \subseteq EntryIds /\ Captured(s) \subseteq EntryIds
    BY DEF Captured, EntriesOf
  <2> QED
    BY <2>3, <2>4
<1>2. ASSUME NEW s \in Sessions, NEW e \in Captured(s)
      PROVE  /\ e \in EntryIds /\ entry[e] # None /\ session[s] # None
             /\ entry'[e].position = entry[e].position
             /\ AcceptedIdentity(e)' = AcceptedIdentity(e)
  BY <1>2 DEF Captured, EntriesOf, StoreInv, RecordsAgree, AcceptedIdentity
<1> SUFFICES ASSUME NEW s \in Sessions, NEW e \in Captured(s)'
             PROVE  LET later == {f \in Captured(s)' : entry'[f].position > entry'[e].position}
                    IN  IF later = {} THEN session'[s].lastAccepted = AcceptedIdentity(e)'
                        ELSE \E f \in later :
                                /\ \A g \in later : entry'[f].position <= entry'[g].position
                                /\ AcceptedIdentity(f)' # AcceptedIdentity(e)'
  BY DEF AcceptedSequence
<1> DEFINE later == {f \in Captured(s) : entry[f].position > entry[e].position}
<1>3. e \in Captured(s) /\ session'[s].lastAccepted = session[s].lastAccepted
  BY <1>1, <1>2
<1>4. {f \in Captured(s)' : entry'[f].position > entry'[e].position} = later
  BY <1>1, <1>2, <1>3
<1>5. IF later = {} THEN session[s].lastAccepted = AcceptedIdentity(e)
      ELSE \E f \in later :
              /\ \A g \in later : entry[f].position <= entry[g].position
              /\ AcceptedIdentity(f) # AcceptedIdentity(e)
  BY <1>3 DEF AcceptedSequence
<1> QED
  BY <1>2, <1>3, <1>4, <1>5

\* What is staged next goes after every entry of its session.
LEMMA PositionsBelow ==
    ASSUME StoreInv, NEW s \in Sessions
    PROVE  \A e \in EntriesOf(s) : entry[e].position < NextPosition(s)
<1>1. {entry[e].position : e \in EntriesOf(s)} \subseteq Nat
  BY EntryFacts DEF EntriesOf
<1>2. PICK n \in Nat : \A e \in EntryIds :
            entry[e] # None /\ entry[e].session = s => entry[e].position <= n
  BY DEF StoreInv, PositionsBounded
<1> DEFINE S == {0} \cup {entry[e].position : e \in EntriesOf(s)}
<1>3. S \in SUBSET Nat /\ S # {} /\ \A x \in S : x <= n
  BY <1>1, <1>2 DEF EntriesOf
<1>4. \A e \in EntriesOf(s) : entry[e].position \in S
  OBVIOUS
<1>5. NextPosition(s) = Max(S) + 1
  BY DEF NextPosition
<1> HIDE DEF S
<1>6. Max(S) \in S /\ \A x \in S : x <= Max(S)
  BY <1>3, BoundedMax
<1> SUFFICES ASSUME NEW e \in EntriesOf(s) PROVE entry[e].position < NextPosition(s)
  OBVIOUS
<1>7. /\ entry[e].position \in Nat /\ Max(S) \in Nat
      /\ entry[e].position <= Max(S)
  BY <1>3, <1>4, <1>6
<1> QED
  BY <1>5, <1>7

\* A capture that is accepted ends the sequence with a new identity.
LEMMA SequenceGrows ==
    ASSUME StoreInv, AcceptedSequence, NEW s \in Sessions, NEW id \in EntryIds, Accepts(s, id)
    PROVE  AcceptedSequence'
<1>1. \A e \in EntryIds : entry[e] # None =>
          /\ entry'[e] = entry[e] /\ staged'[e] = staged[e] /\ e # id
          /\ entry[e].position \in Nat /\ session[entry[e].session] # None
          /\ AcceptedIdentity(e)' = AcceptedIdentity(e)
  BY EntryFacts DEF Accepts, AcceptedIdentity
<1>2. \A e \in EntriesOf(s) : entry[e].position < NextPosition(s)
  BY PositionsBelow
<1>3. NextPosition(s) \in Nat
  BY NextPositionType
<1>4. \A t \in Sessions : Captured(t)' = IF t = s THEN Captured(s) \cup {id} ELSE Captured(t)
  BY <1>1 DEF Captured, EntriesOf, Accepts
<1> SUFFICES ASSUME NEW t \in Sessions, NEW e \in Captured(t)'
             PROVE  LET later == {f \in Captured(t)' : entry'[f].position > entry'[e].position}
                    IN  IF later = {} THEN session'[t].lastAccepted = AcceptedIdentity(e)'
                        ELSE \E f \in later :
                                /\ \A g \in later : entry'[f].position <= entry'[g].position
                                /\ AcceptedIdentity(f)' # AcceptedIdentity(e)'
  BY DEF AcceptedSequence
<1>5. \A u \in Sessions : \A f \in Captured(u) :
          f \in EntryIds /\ entry[f] # None /\ entry[f].session = u
  BY DEF Captured, EntriesOf
<1> DEFINE later == {f \in Captured(t) : entry[f].position > entry[e].position}
           next == {f \in Captured(t)' : entry'[f].position > entry'[e].position}
<1>6. e \in Captured(t) =>
          IF later = {} THEN session[t].lastAccepted = AcceptedIdentity(e)
          ELSE \E f \in later :
                  /\ \A g \in later : entry[f].position <= entry[g].position
                  /\ AcceptedIdentity(f) # AcceptedIdentity(e)
  BY DEF AcceptedSequence
<1>7. CASE t # s
  <2>1. next = later /\ e \in Captured(t) /\ session'[t] = session[t]
    BY <1>1, <1>4, <1>5, <1>7 DEF Accepts, Publishes, Elsewhere
  <2> QED
    BY <1>1, <1>5, <1>6, <2>1
<1>8. CASE t = s /\ e = id
  <2>1. next = {}
    BY <1>1, <1>2, <1>3, <1>4, <1>5, <1>8 DEF Accepts, EntriesOf
  <2> QED
    BY <1>8, <2>1 DEF Accepts, AcceptedIdentity
<1>9. CASE t = s /\ e # id
  <2>1. e \in Captured(s) /\ entry[e] # None /\ e \in EntriesOf(s) /\ session[s] # None
    BY <1>1, <1>4, <1>5, <1>9 DEF EntriesOf
  <2>2. next = later \cup {id} /\ entry'[id].position = NextPosition(s)
    BY <1>1, <1>2, <1>3, <1>4, <1>5, <1>9, <2>1 DEF Accepts
  <2>3. \A f \in later : /\ f \in EntriesOf(s) /\ entry'[f] = entry[f]
                         /\ AcceptedIdentity(f)' = AcceptedIdentity(f)
                         /\ entry[f].position <= NextPosition(s)
    BY <1>1, <1>2, <1>3, <1>5, <1>9 DEF EntriesOf
  <2>4. CASE later = {}
    <3>1. AcceptedIdentity(id)' # session[s].lastAccepted
      BY <2>1 DEF Accepts, AcceptedIdentity
    <3>2. AcceptedIdentity(e)' = session[s].lastAccepted
      BY <1>1, <1>5, <1>6, <1>9, <2>1, <2>4
    <3> QED
      BY <1>3, <2>2, <2>4, <3>1, <3>2
  <2>5. CASE later # {}
    <3>1. PICK f \in later :
              /\ \A g \in later : entry[f].position <= entry[g].position
              /\ AcceptedIdentity(f) # AcceptedIdentity(e)
      BY <1>6, <1>9, <2>1, <2>5
    <3>2. AcceptedIdentity(e)' = AcceptedIdentity(e)
      BY <1>1, <1>5, <2>1
    <3> HIDE DEF later, next
    <3>3. \A g \in next : entry'[f].position <= entry'[g].position
      BY <2>2, <2>3, <3>1
    <3> QED
      BY <2>2, <2>3, <3>1, <3>2, <3>3 DEF next
  <2> QED
    BY <2>4, <2>5
<1> QED
  BY <1>7, <1>8, <1>9

\* A row keeps its session, its place and the line it came from.
Kept(row, next) ==
    /\ next # None
    /\ next.session = row.session /\ next.position = row.position /\ next.key = row.key

LEMMA KeptRow ==
    ASSUME NEW row \in EntryRows
    PROVE  /\ Kept(row, row)
           /\ \A state \in EntryStates : Kept(row, Closed(row, state))
           /\ \A content \in Contents : Kept(row, Corrected(row, content))
           /\ \A candidates \in SUBSET Candidates :
                 Kept(row, [row EXCEPT !.candidates = @ \cup candidates])
<1>1. row.revision + 1 \in Nat /\ row # None
  BY NoneAssumption DEF EntryRows
<1>2. ASSUME NEW n \in Nat, NEW state, NEW content, NEW candidates
      PROVE  LET closed == [row EXCEPT !.state = state, !.revision = n]
                 corrected == [row EXCEPT !.content = content, !.revision = n]
                 attached == [row EXCEPT !.candidates = candidates]
             IN  /\ closed.session = row.session /\ closed.position = row.position
                 /\ closed.key = row.key
                 /\ corrected.session = row.session /\ corrected.position = row.position
                 /\ corrected.key = row.key
                 /\ attached.session = row.session /\ attached.position = row.position
                 /\ attached.key = row.key
  BY DEF EntryRows
<1>3. ASSUME NEW state \in EntryStates PROVE Kept(row, Closed(row, state))
  <2>1. Closed(row, state) # None
    BY ClosedFields
  <2> QED
    BY <1>1, <1>2, <2>1 DEF Kept, Closed
<1>4. ASSUME NEW content \in Contents PROVE Kept(row, Corrected(row, content))
  <2>1. Corrected(row, content) # None
    BY CorrectedFields
  <2> QED
    BY <1>1, <1>2, <2>1 DEF Kept, Corrected
<1>5. ASSUME NEW candidates \in SUBSET Candidates
      PROVE  Kept(row, [row EXCEPT !.candidates = @ \cup candidates])
  <2>1. [row EXCEPT !.candidates = @ \cup candidates] \in EntryRows
    BY DEF EntryRows
  <2>2. [row EXCEPT !.candidates = @ \cup candidates] # None
    BY <2>1, NoneAssumption
  <2> QED
    BY <1>2, <2>2 DEF Kept
<1> QED
  BY <1>1, <1>3, <1>4, <1>5 DEF Kept

\* Every row there is stays, kept; only staging adds rows.
LEMMA RowsKept ==
    ASSUME StoreInv, Next
    PROVE  /\ \A e \in EntryIds : entry[e] # None => Kept(entry[e], entry'[e])
           /\ \/ Stage
              \/ \A e \in EntryIds : entry[e] = None => entry'[e] = None
<1>0. /\ entry \in [EntryIds -> EntryRows \cup {None}]
      /\ \A e \in EntryIds : entry[e] # None => Kept(entry[e], entry[e])
  BY Rows, KeptRow DEF StoreInv, TypeOK
<1>1. CASE Stage
  <2>1. \A e \in EntryIds : entry[e] # None => entry'[e] = entry[e]
    BY <1>1, StageMoves DEF Admits
  <2> QED
    BY <1>0, <1>1, <2>1
<1> DEFINE Keeps == \A e \in EntryIds : IF entry[e] = None THEN entry'[e] = None
                                         ELSE Kept(entry[e], entry'[e])
<1>2. ASSUME NEW e \in EntryIds, NEW expected \in 1 .. MaxChanges, NEW content \in Reviews,
             CorrectEntry(e, expected, content)
      PROVE  Keeps
  <2>1. entry[e] \in EntryRows /\ content \in Contents
    BY <1>0, <1>2, ReviewAssumption DEF CorrectEntry
  <2>2. Kept(entry[e], Corrected(entry[e], content))
    BY <2>1, KeptRow
  <2>3. entry' = [entry EXCEPT ![e] = Corrected(entry[e], content)] /\ entry[e] # None
    BY <1>2 DEF CorrectEntry
  <2> QED
    BY <1>0, <2>2, <2>3
<1>3. ASSUME NEW e \in EntryIds, NEW candidates \in SUBSET Candidates,
             AttachCandidates(e, candidates)
      PROVE  Keeps
  <2> DEFINE next == [entry[e] EXCEPT !.candidates = @ \cup candidates]
  <2>1. entry[e] \in EntryRows
    BY <1>0, <1>3 DEF AttachCandidates
  <2>2. Kept(entry[e], next)
    BY <2>1, KeptRow
  <2>3. entry' = [entry EXCEPT ![e] = next] /\ entry[e] # None
    BY <1>3 DEF AttachCandidates
  <2> HIDE DEF next
  <2> QED
    BY <1>0, <2>2, <2>3
<1>4. ASSUME NEW E \in SUBSET EntryIds, NEW state \in EntryStates,
             \A e \in E : entry[e] # None,
             \A e \in EntryIds : entry'[e] = IF e \in E THEN Closed(entry[e], state) ELSE entry[e]
      PROVE  Keeps
  <2>1. \A e \in E : entry[e] \in EntryRows
    BY <1>0, <1>4
  <2>2. \A e \in E : Kept(entry[e], Closed(entry[e], state))
    BY <2>1, KeptRow
  <2> QED
    BY <1>0, <1>4, <2>2
<1>5. ASSUME NEW e \in EntryIds, NEW expected \in 1 .. MaxChanges, DiscardEntry(e, expected)
      PROVE  Keeps
  <2>1. entry[e] # None /\ entry' = [entry EXCEPT ![e] = Closed(entry[e], "discarded")]
    BY <1>5 DEF DiscardEntry
  <2>2. \A f \in EntryIds : entry'[f] = IF f \in {e} THEN Closed(entry[f], "discarded") ELSE entry[f]
    BY <1>0, <2>1
  <2>3. {e} \in SUBSET EntryIds /\ "discarded" \in EntryStates /\ \A f \in {e} : entry[f] # None
    BY <2>1 DEF EntryStates
  <2> QED
    BY <1>4, <2>2, <2>3
<1>6. ASSUME NEW s \in Sessions, NEW expected \in 1 .. MaxChanges + 1,
             DiscardSession(s, expected)
      PROVE  Keeps
  <2>1. /\ PendingOf(s) \in SUBSET EntryIds /\ "discarded" \in EntryStates
        /\ \A e \in PendingOf(s) : entry[e] # None
    BY DEF PendingOf, EntriesOf, EntryStates
  <2>2. \A e \in EntryIds :
            entry'[e] = IF e \in PendingOf(s) THEN Closed(entry[e], "discarded") ELSE entry[e]
    BY <1>6 DEF DiscardSession
  <2> QED
    BY <1>4, <2>1, <2>2
<1>7. CASE Review
  BY <1>2, <1>3, <1>5, <1>6, <1>7 DEF Review
<1>8. ASSUME NEW w \in Workers, Commits(w) PROVE Keeps
  <2>1. /\ Named(request[w].input) \in SUBSET EntryIds /\ "confirmed" \in EntryStates
        /\ \A e \in Named(request[w].input) : entry[e] # None
    BY <1>8, CommitMoves DEF EntryStates
  <2>2. \A e \in EntryIds : entry'[e] = IF e \in Named(request[w].input)
                                      THEN Closed(entry[e], "confirmed") ELSE entry[e]
    BY <1>8 DEF Commits, CommitTag, CommitOwnership, CloseConfirmed
  <2> QED
    BY <1>4, <2>1, <2>2
<1>9. CASE Confirm /\ \A w \in Workers : ~Commits(w)
  <2>1. UNCHANGED entry
    BY <1>9, ServesMoves
  <2> QED
    BY <1>0, <2>1
<1> QED
  BY <1>1, <1>7, <1>8, <1>9 DEF Next

LEMMA AcceptedSequenceKept ==
    ASSUME StoreInv, AcceptedSequence, Next PROVE AcceptedSequence'
<1>1. \A e \in EntryIds : entry[e] # None =>
          /\ entry'[e] # None /\ entry'[e].session = entry[e].session
          /\ entry'[e].position = entry[e].position
  BY RowsKept DEF Kept
<1>2. CASE Stage
  <2>1. PICK s \in Sessions : Claims(s) \/ Inserts(s) \/ \E id \in EntryIds : Accepts(s, id)
    BY <1>2, StagePublishes
  <2>2. CASE Claims(s)
    BY <1>1, <2>2, SequenceStays DEF Claims, Elsewhere
  <2>3. CASE Inserts(s)
    BY <1>1, <2>3, SequenceStays DEF Inserts, Publishes, Elsewhere
  <2> QED
    BY <2>1, <2>2, <2>3, SequenceGrows
<1>3. ASSUME UNCHANGED staged, \A e \in EntryIds : entry[e] = None => entry'[e] = None,
             NEW s \in Sessions, session[s] # None,
             session' = session \/ session' = BumpSession(s)
      PROVE  AcceptedSequence'
  <2>0. session \in [Sessions -> SessionRows \cup {None}]
    BY DEF StoreInv, TypeOK
  <2> DEFINE bumped == [session[s] EXCEPT !.revision = @ + 1]
  <2>1. bumped.lastAccepted = session[s].lastAccepted
    BY <1>3, <2>0, RevisedFields
  <2>2. session' = session \/ session' = [session EXCEPT ![s] = bumped]
    BY <1>3 DEF BumpSession
  <2> HIDE DEF bumped
  <2>3. \A t \in Sessions : session[t] # None => session'[t].lastAccepted = session[t].lastAccepted
    BY <2>0, <2>1, <2>2
  <2> QED
    BY <1>1, <1>3, <2>3, SequenceStays
<1>4. CASE Review
  <2>1. PICK s \in Sessions : ReviewMoves(s)
    BY <1>4, ReviewMovesOne
  <2>2. /\ session[s] # None /\ session' = BumpSession(s) /\ UNCHANGED staged
        /\ \A e \in EntryIds : entry[e] = None => entry'[e] = None
    BY <2>1 DEF ReviewMoves, PublishReview
  <2> QED
    BY <1>3, <2>2
<1>5. ASSUME NEW w \in Workers, Commits(w) PROVE AcceptedSequence'
  <2> DEFINE s == request[w].input.session
  <2>1. s \in Sessions /\ session[s] # None /\ session' = BumpSession(s) /\ UNCHANGED staged
    BY <1>5, RequestFacts DEF Commits, CommitTag, CommitOwnership, CloseConfirmed, Reserved
  <2>2. \A e \in EntryIds : entry[e] = None => entry'[e] = None
    BY <1>5, CommitMoves
  <2> QED
    BY <1>3, <2>1, <2>2
<1>6. CASE Confirm /\ \A w \in Workers : ~Commits(w)
  <2>1. UNCHANGED <<session, staged, entry>>
    BY <1>6, ServesMoves
  <2> QED
    BY <1>1, <2>1, SequenceStays
<1> QED
  BY <1>2, <1>4, <1>5, <1>6 DEF Next

\* The accepted sequence of a session never repeats an identity, whatever was
\* since corrected, discarded or confirmed, and the session remembers its last.
THEOREM AcceptsSequence == Spec => []AcceptedSequence
<1>1. Init => AcceptedSequence
  BY DEF Init, InitState, AcceptedSequence, Captured, EntriesOf
<1>2. StoreInv /\ AcceptedSequence /\ [Next]_vars => AcceptedSequence'
  <2>1. AcceptedSequence /\ UNCHANGED vars => AcceptedSequence'
    BY DEF vars, AcceptedSequence, Captured, EntriesOf, AcceptedIdentity
  <2> QED
    BY <2>1, AcceptedSequenceKept
<1> QED
  BY <1>1, <1>2, Inductive, PTL DEF Spec

--------
(* The attempts of a source line.                                          *)

LEMMA RecordsFinite ==
    ASSUME NEW s, NEW k
    PROVE  /\ EntriesOfKey(s, k) \subseteq EntryIds /\ IsFiniteSet(EntriesOfKey(s, k))
           /\ Records(s, k) \in Nat
<1>1. EntriesOfKey(s, k) \subseteq EntryIds
  BY DEF EntriesOfKey, EntriesOf
<1>2. IsFiniteSet(EntriesOfKey(s, k))
  BY <1>1, EntryIdsFinite, FS_Subset
<1> QED
  BY <1>1, <1>2, FS_CardinalityType DEF Records

\* The attempts of a list's rows of one key count up, one row at a time.
LEMMA AttemptsDiffer ==
    ASSUME NEW s, NEW rows, NEW i \in Nat, NEW j \in StagingRows(s, rows),
           NEW k \in StagingRows(s, rows), j \in 1 .. i, k \in 1 .. i,
           rows[j].key = rows[k].key, Attempt(s, rows, j) = Attempt(s, rows, k)
    PROVE  j = k
<1> DEFINE key == rows[j].key
           Counted(n) == RowsOfKey(rows, key, n) \cap StagingRows(s, rows)
<1>1. ASSUME NEW n \in 1 .. i
      PROVE  IsFiniteSet(Counted(n)) /\ Cardinality(Counted(n)) \in Nat
  <2>1. IsFiniteSet(1 .. n) /\ Counted(n) \in SUBSET (1 .. n)
    BY FS_Interval DEF RowsOfKey
  <2>2. IsFiniteSet(Counted(n))
    BY <2>1, FS_Subset
  <2> QED
    BY <2>2, FS_CardinalityType
<1>2. \A n \in 1 .. i : Counted(n) = {m \in StagingRows(s, rows) : m \in 1 .. n /\ rows[m].key = key}
  BY DEF RowsOfKey
<1>3. j \in Counted(j) /\ k \in Counted(k)
  BY <1>2
<1>4. Cardinality(Counted(j)) = Cardinality(Counted(k))
  <2>1. Records(s, key) \in Nat
    BY RecordsFinite
  <2>2. /\ Attempt(s, rows, j) = Records(s, key) + Cardinality(Counted(j))
        /\ Attempt(s, rows, k) = Records(s, key) + Cardinality(Counted(k))
    BY DEF Attempt
  <2>3. Cardinality(Counted(j)) \in Nat /\ Cardinality(Counted(k)) \in Nat
    BY <1>1
  <2>4. ASSUME NEW a \in Nat, NEW b \in Nat, NEW c \in Nat, c + a = c + b PROVE a = b
    BY <2>4
  <2> QED
    BY <2>1, <2>2, <2>3, <2>4
<1>5. Counted(j) \subseteq Counted(k) \/ Counted(k) \subseteq Counted(j)
  BY <1>2
<1> HIDE DEF Counted
<1>6. Counted(j) = Counted(k)
  <2>1. CASE Counted(j) \subseteq Counted(k)
    BY <1>1, <1>4, <2>1, FS_Subset
  <2>2. CASE Counted(k) \subseteq Counted(j)
    BY <1>1, <1>4, <2>2, FS_Subset
  <2> QED
    BY <1>5, <2>1, <2>2
<1> QED
  BY <1>2, <1>3, <1>6

\* The records of a key only grow, and a new attempt that they count is counted.
LEMMA AttemptsKept ==
    ASSUME NextAttemptsUnused,
           \A e \in EntryIds : entry[e] # None => Kept(entry[e], entry'[e]),
           \A s \in Sessions, k \in Keys, n \in 1 .. MaxAttempts :
              entry[<<s, k, n>>] = None /\ entry'[<<s, k, n>>] # None => n <= Records(s, k)'
    PROVE  NextAttemptsUnused'
<1> SUFFICES ASSUME NEW s \in Sessions, NEW k \in Keys, NEW n \in 1 .. MaxAttempts,
                    n > Records(s, k)', entry'[<<s, k, n>>] # None
             PROVE  FALSE
  BY DEF NextAttemptsUnused
<1>1. EntriesOfKey(s, k) \subseteq EntriesOfKey(s, k)'
  BY DEF EntriesOfKey, EntriesOf, Kept
<1>2. EntriesOfKey(s, k)' \subseteq EntryIds
  BY DEF EntriesOfKey, EntriesOf
<1>3. PICK later : later = EntriesOfKey(s, k)'
  OBVIOUS
<1>4. IsFiniteSet(later) /\ Cardinality(later) \in Nat
  <2>1. IsFiniteSet(later)
    BY <1>2, <1>3, EntryIdsFinite, FS_Subset
  <2> QED
    BY <2>1, FS_CardinalityType
<1>5. Records(s, k) <= Cardinality(later)
  BY <1>1, <1>3, <1>4, FS_Subset DEF Records
<1>6. Records(s, k)' = Cardinality(later)
  BY <1>3 DEF Records
<1>7. Records(s, k) \in Nat
  BY RecordsFinite
<1>8. entry[<<s, k, n>>] # None
  <2>1. ~(n <= Records(s, k)')
    BY <1>4, <1>6, BoundAssumption
  <2> QED
    BY <2>1
<1>9. n > Records(s, k)
  BY <1>4, <1>5, <1>6, <1>7, BoundAssumption
<1> QED
  BY <1>8, <1>9 DEF NextAttemptsUnused

\* A list's attempts are counted by what it stages of their key.
LEMMA AttemptsCounted ==
    ASSUME StoreInv, Next, NEW s \in Sessions, NEW source \in Sources,
           NEW rows \in SourceBatches,
           StageSourceLines(s, source, rows),
           NEW t \in Sessions, NEW k \in Keys, NEW n \in 1 .. MaxAttempts,
           entry[<<t, k, n>>] = None, entry'[<<t, k, n>>] # None
    PROVE  n <= Records(t, k)'
<1> DEFINE fresh == StagingRows(s, rows)
           lines == Reconciled(s, rows)
           Id(j) == <<s, rows[j].key, Attempt(s, rows, j)>>
<1>1. /\ DOMAIN rows = 1 .. Len(rows) /\ Len(rows) \in Nat /\ fresh \subseteq DOMAIN rows
      /\ \A j \in fresh : rows[j].key \in Keys
  <2>1. rows \in Seq([key : Keys, quantity : 1 .. MaxQuantity])
    BY StagingAssumption
  <2>2. DOMAIN rows = 1 .. Len(rows) /\ Len(rows) \in Nat
    BY <2>1
  <2>3. ASSUME NEW j \in fresh PROVE j \in DOMAIN rows /\ rows[j].key \in Keys
    <3>1. j \in DOMAIN rows
      BY DEF StagingRows
    <3>2. rows[j] \in [key : Keys, quantity : 1 .. MaxQuantity]
      BY <2>1, <2>2, <3>1, ElementOfSeq
    <3> QED
      BY <3>1, <3>2
  <2> QED
    BY <2>2, <2>3
<1>2. \A j \in fresh : lines[j].id = Id(j) /\ lines[j].key = rows[j].key
  BY <1>1 DEF Reconciled, SourceEntry
<1>3. \A j \in fresh : Id(j) \in EntryIds /\ Attempt(s, rows, j) \in 1 .. MaxAttempts
  BY <1>1 DEF StageSourceLines, EntryIds
<1>4. <<t, k, n>> \in EntryIds
  BY DEF EntryIds
<1>5. InsertStagedEntries(s, source, lines, fresh)
  BY <1>4 DEF StageSourceLines, OnlyClaim
\* Each staged row is a new entry of its key.
<1>6. ASSUME NEW j \in fresh
      PROVE  /\ entry[Id(j)] = None
             /\ entry'[Id(j)] # None /\ entry'[Id(j)].session = s
             /\ entry'[Id(j)].key = rows[j].key
  <2> DEFINE row == CHOOSE i \in fresh : lines[i].id = Id(j)
  <2>1. row \in fresh /\ lines[row].id = Id(j)
    BY <1>2
  <2> HIDE DEF row
  <2>2. lines[row].key = rows[j].key
    BY <1>2, <2>1
  <2>3. entry[Id(j)] = None
    BY <1>2, <1>5 DEF InsertStagedEntries
  <2>4. entry'[Id(j)] = NewEntry(s,
            NextPosition(s) + Cardinality({i \in fresh : i < row}), lines[row].key,
            lines[row].content, lines[row].candidates)
    BY <1>2, <1>3, <1>5 DEF InsertStagedEntries, row
  <2>5. entry'[Id(j)] # None
    <3>1. Cardinality({i \in fresh : i < row}) \in Nat
      <4>1. IsFiniteSet(1 .. Len(rows)) /\ {i \in fresh : i < row} \in SUBSET (1 .. Len(rows))
        BY <1>1, FS_Interval
      <4>2. IsFiniteSet({i \in fresh : i < row})
        BY <4>1, FS_Subset
      <4> QED
        BY <4>2, FS_CardinalityType
    <3>2. NextPosition(s) + Cardinality({i \in fresh : i < row}) \in Nat \ {0}
      BY <3>1, NextPositionType
    <3>3. Uncovered(s, rows, row) \in 1 .. MaxQuantity /\ rows[row].key \in Keys
      BY <1>1, <2>1 DEF StageSourceLines
    <3>4. Published[rows[row].key] \in
              [printing : Printings \cup {None}, finish : Finishes \cup {None}]
      BY <3>3, CatalogAssumption
    <3>5. /\ lines[row].content \in Contents /\ lines[row].candidates \in SUBSET Candidates
          /\ lines[row].key \in Keys \cup {None}
      BY <1>1, <2>1, <3>3, <3>4 DEF Reconciled, SourceEntry, Contents
    <3> QED
      BY <2>4, <3>2, <3>5, NewEntryType, NoneAssumption
  <2> QED
    BY <2>2, <2>3, <2>4, <2>5 DEF NewEntry
\* A row that is new is one of those, and no other.
<1>7. PICK i \in fresh : Id(i) = <<t, k, n>>
  <2>1. ~(\A i \in fresh : lines[i].id # <<t, k, n>>)
    BY <1>4, <1>5 DEF InsertStagedEntries
  <2> QED
    BY <1>2, <2>1
<1>8. t = s /\ k = rows[i].key /\ n = Attempt(s, rows, i)
  BY <1>7
<1> DEFINE counted == RowsOfKey(rows, k, i) \cap fresh
           added == {Id(j) : j \in counted}
           named == [j \in counted |-> Id(j)]
<1>9. IsFiniteSet(counted) /\ Cardinality(counted) \in Nat /\ counted \subseteq fresh
      /\ n = Records(s, k) + Cardinality(counted)
  <2>1. IsFiniteSet(1 .. Len(rows)) /\ counted \in SUBSET (1 .. Len(rows))
    BY <1>1, FS_Interval
  <2>2. IsFiniteSet(counted)
    BY <2>1, FS_Subset
  <2>3. n = Records(s, k) + Cardinality(counted)
    BY <1>8 DEF Attempt
  <2> QED
    BY <2>2, <2>3, FS_CardinalityType
<1>10. \A j \in counted : j \in 1 .. i /\ rows[j].key = k /\ j \in fresh
  BY DEF RowsOfKey
<1> HIDE DEF fresh, lines
<1>11. named \in Bijection(counted, added)
  <2>1. \A j, l \in counted : Id(j) = Id(l) => j = l
    <3> SUFFICES ASSUME NEW j \in counted, NEW l \in counted, Id(j) = Id(l) PROVE j = l
      OBVIOUS
    <3>1. /\ rows[j].key = rows[l].key /\ Attempt(s, rows, j) = Attempt(s, rows, l)
          /\ j \in 1 .. i /\ l \in 1 .. i /\ i \in Nat
          /\ j \in StagingRows(s, rows) /\ l \in StagingRows(s, rows)
      BY <1>1, <1>10 DEF fresh
    <3> QED
      BY <3>1, AttemptsDiffer
  <2> HIDE DEF counted, Id
  <2> QED
    BY <2>1 DEF Bijection, Injection, Surjection, IsInjective
<1>12. IsFiniteSet(added) /\ Cardinality(added) = Cardinality(counted)
  <2> HIDE DEF named, added, counted
  <2> QED
    BY <1>9, <1>11, FS_Bijection DEF ExistsBijection
<1>13. PICK later : later = EntriesOfKey(s, k)'
  OBVIOUS
<1>14. EntriesOfKey(s, k) \cup added \subseteq later
  <2>1. EntriesOfKey(s, k) \subseteq later
    BY <1>13, RowsKept DEF EntriesOfKey, EntriesOf, Kept
  <2>2. \A j \in counted : Id(j) \in EntriesOfKey(s, k)'
    BY <1>3, <1>6, <1>10 DEF EntriesOfKey, EntriesOf
  <2> QED
    BY <1>13, <2>1, <2>2
<1>15. EntriesOfKey(s, k) \cap added = {}
  BY <1>6, <1>10 DEF EntriesOfKey, EntriesOf
<1>16. IsFiniteSet(EntriesOfKey(s, k)) /\ Records(s, k) \in Nat
  BY RecordsFinite
<1>17. IsFiniteSet(later) /\ Cardinality(later) \in Nat
  <2>1. later \subseteq EntryIds
    BY <1>13 DEF EntriesOfKey, EntriesOf
  <2>2. IsFiniteSet(later)
    BY <2>1, EntryIdsFinite, FS_Subset
  <2> QED
    BY <2>2, FS_CardinalityType
<1> HIDE DEF added, counted
<1>18. Cardinality(EntriesOfKey(s, k) \cup added) = Records(s, k) + Cardinality(counted)
  <2>1. Cardinality(EntriesOfKey(s, k) \cup added) =
            Cardinality(EntriesOfKey(s, k)) + Cardinality(added)
              - Cardinality(EntriesOfKey(s, k) \cap added)
    BY <1>12, <1>16, FS_Union
  <2>2. Cardinality(EntriesOfKey(s, k) \cap added) = 0
    BY <1>15, FS_EmptySet
  <2>3. Cardinality(EntriesOfKey(s, k)) = Records(s, k)
    BY DEF Records
  <2>4. Cardinality(added) = Cardinality(counted)
    BY <1>12
  <2>5. ASSUME NEW a \in Nat, NEW b \in Nat PROVE a + b - 0 = a + b
    OBVIOUS
  <2> QED
    BY <1>9, <1>16, <2>1, <2>2, <2>3, <2>4, <2>5
<1>19. Records(s, k) + Cardinality(counted) <= Cardinality(later)
  BY <1>14, <1>17, <1>18, FS_Subset
<1>20. Records(t, k)' = Cardinality(later)
  BY <1>8, <1>13 DEF Records
<1> QED
  BY <1>9, <1>19, <1>20

LEMMA NextAttemptsKept ==
    ASSUME StoreInv, NextAttemptsUnused, Next PROVE NextAttemptsUnused'
<1>1. \A e \in EntryIds : entry[e] # None => Kept(entry[e], entry'[e])
  BY RowsKept
<1>2. ASSUME NEW s \in Sessions, NEW k \in Keys, NEW n \in 1 .. MaxAttempts,
             entry[<<s, k, n>>] = None, entry'[<<s, k, n>>] # None
      PROVE  n <= Records(s, k)'
  <2>1. <<s, k, n>> \in EntryIds /\ <<s, k, n>> \notin InputIds
    BY IdentityAssumption DEF EntryIds
  <2>2. Stage
    BY <1>2, <2>1, RowsKept
\* Captures and lines their callers identified have identities of their own.
  <2>3. ASSUME NEW t \in Sessions, NEW source \in SourceOf(t), NEW batch \in LineBatches,
               StageEntries(t, source, batch)
        PROVE  FALSE
    <3>1. \A i \in DOMAIN batch : batch[i].id \in InputIds
      <4>1. batch \in Seq([id : InputIds, key : {None}, content : Contents,
                           candidates : SUBSET Candidates])
        BY StagingAssumption
      <4> SUFFICES ASSUME NEW i \in DOMAIN batch PROVE batch[i].id \in InputIds
        OBVIOUS
      <4>2. i \in 1 .. Len(batch)
        BY <4>1
      <4>3. batch[i] \in [id : InputIds, key : {None}, content : Contents,
                          candidates : SUBSET Candidates]
        BY <4>1, <4>2, ElementOfSeq
      <4> QED
        BY <4>3
    <3>2. InsertStagedEntries(t, source, batch, Fresh(batch))
      BY <1>2, <2>3 DEF StageEntries, OnlyClaim
    <3>3. PICK i \in Fresh(batch) : batch[i].id = <<s, k, n>>
      BY <1>2, <2>1, <3>2 DEF InsertStagedEntries
    <3> QED
      BY <2>1, <3>1, <3>3 DEF Fresh
  <2>4. ASSUME NEW t \in Sessions, NEW id \in InputIds, NEW reading \in Readings,
               StageCapture(t, id, reading)
        PROVE  FALSE
    <3>1. \A e \in EntryIds : e # id => entry'[e] = entry[e]
      BY <2>4 DEF StageCapture, CaptureUnchanged, CaptureSuppressed, CaptureAdmitted,
                  OnlyClaim, StoreInv, TypeOK
    <3> QED
      BY <1>2, <2>1, <3>1
  <2>5. PICK t \in Sessions, source \in Sources, rows \in SourceBatches :
            StageSourceLines(t, source, rows)
    <3>1. \A t \in Sessions : Sources \cup {CaptureSource(t)} = SourceOf(t)
      BY DEF SourceOf
    <3> QED
      BY <2>2, <2>3, <2>4, <3>1 DEF Stage
  <2> QED
    BY <1>2, <2>5, AttemptsCounted
<1> QED
  BY <1>1, <1>2, AttemptsKept

\* A repeated import can always stage what its list declares again: the
\* identities its next attempts are hashed from are unused, so that staging
\* never meets an entry that was decided before.
THEOREM AttemptsUnused == Spec => []NextAttemptsUnused
<1>1. Init => NextAttemptsUnused
  BY DEF Init, InitState, NextAttemptsUnused, EntryIds
<1>2. StoreInv /\ NextAttemptsUnused /\ [Next]_vars => NextAttemptsUnused'
  <2>1. NextAttemptsUnused /\ UNCHANGED vars => NextAttemptsUnused'
    BY DEF vars, NextAttemptsUnused, Records, EntriesOfKey, EntriesOf
  <2> QED
    BY <2>1, NextAttemptsKept
<1> QED
  BY <1>1, <1>2, Inductive, PTL DEF Spec

\* What is accepted is staged in order, and what is declared again can always
\* be staged.
THEOREM StagesAsAccepted == Spec => []StagedAsAccepted
BY AcceptsSequence, AttemptsUnused, PTL DEF StagedAsAccepted

\* A confirmation into ownership adds what was reviewed, and adds it once.
THEOREM OwnsAsReviewed == Spec => []OwnedAsReviewed
BY AppliesReviewed, OwnsOnce, PTL DEF OwnedAsReviewed

--------
(* What a list's import holds, as sums over its entries and its rows.       *)

LEMMA BeyondIs ==
    ASSUME NEW a \in Nat, NEW b \in Nat
    PROVE  Beyond(a, b) = IF a > b THEN a - b ELSE 0
<1> DEFINE S == {0, a - b}
           most == IF a > b THEN a - b ELSE 0
<1>1. most \in S /\ \A y \in S : most >= y
  OBVIOUS
<1>2. \A x \in S : (\A y \in S : x >= y) => x = most
  OBVIOUS
<1>3. Beyond(a, b) = Max(S)
  BY DEF Beyond
<1> HIDE DEF S, most
<1>4. Max(S) \in S /\ \A y \in S : Max(S) >= y
  BY <1>1 DEF Max
<1>5. Max(S) = most
  BY <1>2, <1>4
<1> QED
  BY <1>3, <1>5 DEF most

\* Fewer terms, none of them larger, add up to no more.
LEMMA TotalShrinks ==
    ASSUME NEW D, NEW E, IsFiniteSet(E), D \subseteq E,
           NEW f \in [D -> 1 .. MaxQuantity], NEW g \in [E -> 1 .. MaxQuantity],
           \A e \in D : f[e] <= g[e]
    PROVE  Total(f) \in Nat /\ Total(g) \in Nat /\ Total(f) <= Total(g)
<1>0. f \in [D -> 1 .. MaxQuantity] /\ g \in [E -> 1 .. MaxQuantity]
  OBVIOUS
<1>1. IsFiniteSet(D)
  BY FS_Subset
<1>2. IsFiniteSet(Units(g)) /\ Total(g) \in Nat /\ Total(f) \in Nat
  BY <1>1, UnitsFinite
<1>3. ASSUME NEW u, u \in Units(f) PROVE u \in Units(g)
  <2>1. PICK e \in D : u \in {e} \X (1 .. f[e])
    BY ONLY <1>0, <1>3, InUnits
  <2>2. e \in E /\ f[e] <= g[e] /\ f[e] \in Nat /\ g[e] \in Nat
    BY BoundAssumption
  <2>3. u \in {e} \X (1 .. g[e])
    BY <2>1, <2>2
  <2> QED
    BY ONLY <1>0, <2>2, <2>3, InUnits
<1>4. Units(f) \subseteq Units(g)
  BY <1>3
<1>5. Cardinality(Units(f)) <= Cardinality(Units(g))
  BY <1>2, <1>4, FS_Subset
<1> QED
  BY <1>2, <1>5 DEF Total

\* The rows of a list.
LEMMA SourceRows ==
    ASSUME NEW rows \in SourceBatches
    PROVE  /\ DOMAIN rows = 1 .. Len(rows) /\ Len(rows) \in Nat
           /\ \A j \in 1 .. Len(rows) : rows[j].key \in Keys /\ rows[j].quantity \in 1 .. MaxQuantity
<1>1. rows \in Seq([key : Keys, quantity : 1 .. MaxQuantity])
  BY StagingAssumption
<1>2. DOMAIN rows = 1 .. Len(rows) /\ Len(rows) \in Nat
  BY <1>1
<1>3. ASSUME NEW j \in 1 .. Len(rows)
      PROVE  rows[j].key \in Keys /\ rows[j].quantity \in 1 .. MaxQuantity
  <2>1. rows[j] \in [key : Keys, quantity : 1 .. MaxQuantity]
    BY <1>1, <1>2, ElementOfSeq
  <2> QED
    BY <2>1
<1> QED
  BY <1>2, <1>3

\* More rows declare no less.
LEMMA DeclaredGrows ==
    ASSUME NEW rows \in SourceBatches, NEW k, NEW m \in 0 .. Len(rows), NEW n \in m .. Len(rows)
    PROVE  /\ DeclaredBy(rows, k, m) \in Nat /\ DeclaredBy(rows, k, n) \in Nat
           /\ DeclaredBy(rows, k, m) <= DeclaredBy(rows, k, n)
<1> DEFINE D == RowsOfKey(rows, k, m)
           E == RowsOfKey(rows, k, n)
           f == [i \in D |-> rows[i].quantity]
           g == [i \in E |-> rows[i].quantity]
<1>1. Len(rows) \in Nat /\ \A j \in 1 .. Len(rows) : rows[j].quantity \in 1 .. MaxQuantity
  BY SourceRows
<1>2. D \subseteq E /\ E \subseteq 1 .. n /\ n \in Nat /\ n <= Len(rows)
  BY <1>1 DEF RowsOfKey
<1>3. IsFiniteSet(E)
  <2>1. IsFiniteSet(1 .. n)
    BY <1>2, FS_Interval
  <2> QED
    BY <1>2, <2>1, FS_Subset
<1>4. \A j \in E : rows[j].quantity \in 1 .. MaxQuantity
  BY <1>1, <1>2
<1>5. /\ f \in [D -> 1 .. MaxQuantity] /\ g \in [E -> 1 .. MaxQuantity]
      /\ \A j \in D : f[j] <= g[j]
  BY <1>2, <1>4, BoundAssumption
<1>6. DeclaredBy(rows, k, m) = Total(f) /\ DeclaredBy(rows, k, n) = Total(g)
  BY DEF DeclaredBy
<1> HIDE DEF D, E, f, g
<1>7. Total(f) \in Nat /\ Total(g) \in Nat /\ Total(f) <= Total(g)
  BY <1>2, <1>3, <1>5, TotalShrinks
<1> QED
  BY <1>6, <1>7

\* The copies q that the rows of G, all of the line k, are staged with under
\* the names id, each its own: what an earlier part of the list leaves uncovered.
StagedFrom(s, rows, k, G, Z, id, q) ==
    /\ rows \in SourceBatches /\ Held(s, k) \in Nat
    /\ G \in SUBSET (1 .. Len(rows)) /\ id \in [G -> Z]
    /\ \A j \in G : rows[j].key = k
    /\ \A i, j \in G : id[i] = id[j] => i = j
    /\ q \in [{id[j] : j \in G} -> 1 .. MaxQuantity]
    /\ \A j \in G : q[id[j]] = Uncovered(s, rows, j)

AtMostBeyond(s, rows, k, q) ==
    Total(q) <= Beyond(DeclaredBy(rows, k, Len(rows)), Held(s, k))

\* What the rows of one key stage adds up to no more than what the list
\* declares of it beyond what was held: row after row, each stages a part of
\* its own of that.
LEMMA StagesBeyond ==
    ASSUME NEW s, NEW rows, NEW k, NEW G, NEW Z, NEW id, NEW q,
           StagedFrom(s, rows, k, G, Z, id, q)
    PROVE  AtMostBeyond(s, rows, k, q)
<1>0. /\ rows \in SourceBatches /\ Held(s, k) \in Nat
      /\ G \in SUBSET (1 .. Len(rows)) /\ id \in [G -> Z]
      /\ \A j \in G : rows[j].key = k
      /\ \A i, j \in G : id[i] = id[j] => i = j
      /\ q \in [{id[j] : j \in G} -> 1 .. MaxQuantity]
      /\ \A j \in G : q[id[j]] = Uncovered(s, rows, j)
  BY DEF StagedFrom
<1> USE <1>0
<1> SUFFICES Total(q) <= Beyond(DeclaredBy(rows, k, Len(rows)), Held(s, k))
  BY DEF AtMostBeyond
<1> DEFINE H == Held(s, k)
           B(n) == Beyond(DeclaredBy(rows, k, n), H)
           At(e) == CHOOSE j \in G : id[j] = e
           f == [u \in Units(q) |-> B(At(u[1]) - 1) + u[2]]
           last == Len(rows)
<1>1. last \in Nat
  BY SourceRows
<1>2. ASSUME NEW n \in 0 .. last, NEW m \in 0 .. n
      PROVE  B(m) \in Nat /\ B(n) \in Nat /\ B(m) <= B(n)
  <2>1. m \in 0 .. Len(rows) /\ n \in m .. Len(rows)
    BY <1>1
  <2>2. /\ DeclaredBy(rows, k, m) \in Nat /\ DeclaredBy(rows, k, n) \in Nat
        /\ DeclaredBy(rows, k, m) <= DeclaredBy(rows, k, n)
    BY <2>1, DeclaredGrows
  <2>3. /\ B(m) = IF DeclaredBy(rows, k, m) > H THEN DeclaredBy(rows, k, m) - H ELSE 0
        /\ B(n) = IF DeclaredBy(rows, k, n) > H THEN DeclaredBy(rows, k, n) - H ELSE 0
    BY <2>2, BeyondIs
  <2> HIDE DEF B, H
  <2>4. H \in Nat
    BY DEF H
  <2> QED
    BY <2>2, <2>3, <2>4
<1>3. ASSUME NEW j \in G
      PROVE  /\ j \in 1 .. last /\ j \in 0 .. last /\ j - 1 \in 0 .. last /\ At(id[j]) = j
             /\ q[id[j]] = B(j) - B(j - 1) /\ q[id[j]] \in 1 .. MaxQuantity
  <2>1. q[id[j]] = B(j) - B(j - 1)
    BY DEF Uncovered
  <2>2. At(id[j]) = j
    OBVIOUS
  <2> HIDE DEF B, At
  <2> QED
    BY <1>1, <2>1, <2>2
<1> HIDE DEF B, At, H, last
<1>4. ASSUME NEW u \in Units(q)
      PROVE  \E j \in G : /\ At(u[1]) = j /\ u = <<id[j], u[2]>> /\ u[2] \in Nat
                          /\ 1 <= u[2] /\ u[2] <= B(j) - B(j - 1)
  <2>1. PICK e \in {id[j] : j \in G} : u \in {e} \X (1 .. q[e])
    BY InUnits
  <2>2. PICK j \in G : e = id[j]
    BY <2>1
  <2>3. u = <<id[j], u[2]>> /\ u[1] = id[j] /\ u[2] \in 1 .. q[id[j]] /\ q[id[j]] \in Nat
    BY <1>3, <2>1, <2>2, BoundAssumption
  <2> QED
    BY <1>3, <2>3
<1>5. ASSUME NEW u \in Units(q)
      PROVE  f[u] \in 1 .. B(last)
  <2>1. PICK j \in G : /\ At(u[1]) = j /\ u[2] \in Nat /\ 1 <= u[2]
                       /\ u[2] <= B(j) - B(j - 1)
    BY <1>4
  <2>2. f[u] = B(j - 1) + u[2]
    BY <2>1
  <2>3. B(j - 1) \in Nat /\ B(j) \in Nat /\ B(j) <= B(last) /\ B(last) \in Nat
    <3>1. j \in 0 .. last /\ j - 1 \in 0 .. j /\ j \in 0 .. last /\ last \in 0 .. last
      BY <1>1, <1>3
    <3> QED
      BY <1>2, <3>1
  <2> HIDE DEF f
  <2> QED
    BY <2>1, <2>2, <2>3
<1>6. ASSUME NEW u \in Units(q), NEW v \in Units(q), f[u] = f[v] PROVE u = v
  <2>1. PICK i \in G : /\ At(u[1]) = i /\ u = <<id[i], u[2]>> /\ u[2] \in Nat
                       /\ 1 <= u[2] /\ u[2] <= B(i) - B(i - 1)
    BY <1>4
  <2>2. PICK j \in G : /\ At(v[1]) = j /\ v = <<id[j], v[2]>> /\ v[2] \in Nat
                       /\ 1 <= v[2] /\ v[2] <= B(j) - B(j - 1)
    BY <1>4
  <2>3. B(i - 1) + u[2] = B(j - 1) + v[2]
    BY <1>6, <2>1, <2>2
  <2>4. B(i) \in Nat /\ B(j) \in Nat /\ B(i - 1) \in Nat /\ B(j - 1) \in Nat
    BY <1>1, <1>2, <1>3
  <2>5. ~(i < j)
    <3>1. ASSUME i < j PROVE B(i) <= B(j - 1)
      BY <1>1, <1>2, <1>3, <3>1
    <3> QED
      BY <2>1, <2>2, <2>3, <2>4, <3>1
  <2>6. ~(j < i)
    <3>1. ASSUME j < i PROVE B(j) <= B(i - 1)
      BY <1>1, <1>2, <1>3, <3>1
    <3> QED
      BY <2>1, <2>2, <2>3, <2>4, <3>1
  <2>7. i = j
    BY <1>1, <1>3, <2>5, <2>6
  <2>8. u[2] = v[2]
    BY <2>1, <2>2, <2>3, <2>4, <2>7
  <2> QED
    BY <2>1, <2>2, <2>7, <2>8
<1>7. f \in Injection(Units(q), 1 .. B(last))
  <2>1. f \in [Units(q) -> 1 .. B(last)]
    BY <1>5
  <2> HIDE DEF f
  <2> QED
    BY <1>6, <2>1 DEF Injection, IsInjective
<1> HIDE DEF f
<1>8. B(last) \in Nat /\ IsFiniteSet(1 .. B(last)) /\ Cardinality(1 .. B(last)) = B(last)
  <2>1. PICK top \in Nat : top = B(last)
    BY <1>1, <1>2
  <2>2. /\ IsFiniteSet(1 .. top)
        /\ Cardinality(1 .. top) = IF 1 > top THEN 0 ELSE top - 1 + 1
    <3>1. 1 \in Int /\ top \in Int
      OBVIOUS
    <3> QED
      BY <3>1, FS_Interval
  <2>3. Cardinality(1 .. top) = top
    BY <2>2
  <2> QED
    BY <2>1, <2>2, <2>3
<1>9. Cardinality(Units(q)) <= B(last)
  BY <1>7, <1>8, FS_Injection
<1> QED
  BY <1>9 DEF Total, B, H, last


\* What an import holds of a key is what covers its lines.
LEMMA StandingHeld ==
    ASSUME StoreInv, NEW s, NEW k
    PROVE  /\ Standing(s, k) \subseteq EntryIds /\ IsFiniteSet(Standing(s, k))
           /\ [e \in Standing(s, k) |-> QuantityOf(e)] \in [Standing(s, k) -> 1 .. MaxQuantity]
           /\ Held(s, k) = Total([e \in Standing(s, k) |-> QuantityOf(e)])
           /\ Held(s, k) \in Nat
<1>1. \A e \in EntriesOfKey(s, k) : /\ e \in EntryIds /\ entry[e] # None
                                    /\ entry[e].state \in EntryStates
                                    /\ entry[e].content.quantity \in 1 .. MaxQuantity
  <2>1. \A e \in EntriesOfKey(s, k) : e \in EntryIds /\ entry[e] # None
    BY DEF EntriesOfKey, EntriesOf
  <2>2. \A e \in EntriesOfKey(s, k) : entry[e] \in EntryRows
    BY <2>1, EntryFacts
  <2> QED
    BY <2>1, <2>2 DEF EntryRows, Contents
<1>2. Standing(s, k) = Covering(s, k)
  BY <1>1 DEF Standing, Covering, Covers, InState, EntryStates
<1>3. Standing(s, k) \subseteq EntryIds
  BY <1>1 DEF Standing
<1>4. IsFiniteSet(Standing(s, k))
  BY <1>3, EntryIdsFinite, FS_Subset
<1> DEFINE f == [e \in Standing(s, k) |-> QuantityOf(e)]
<1>5. f \in [Standing(s, k) -> 1 .. MaxQuantity]
  BY <1>1 DEF Standing, QuantityOf
<1>6. Held(s, k) = Total(f)
  BY <1>2 DEF Held, QuantityOf
<1> HIDE DEF f
<1>7. Total(f) \in Nat
  BY <1>4, <1>5, UnitsFinite
<1> QED
  BY <1>3, <1>4, <1>5, <1>6, <1>7 DEF f

\* Rows of a list that stage something name entries of their own.
LEMMA ListNames ==
    ASSUME NEW s, NEW rows \in SourceBatches,
           NEW i \in StagingRows(s, rows), NEW j \in StagingRows(s, rows),
           SourceEntry(s, rows, i).id = SourceEntry(s, rows, j).id
    PROVE  i = j
<1>1. /\ i \in 1 .. Len(rows) /\ j \in 1 .. Len(rows) /\ Len(rows) \in Nat
      /\ rows[i].key = rows[j].key /\ Attempt(s, rows, i) = Attempt(s, rows, j)
  BY SourceRows DEF StagingRows, SourceEntry
<1> QED
  BY <1>1, AttemptsDiffer

\* What staging a list adds: one entry for each row that stages something.
LEMMA ListStages ==
    ASSUME StoreInv, NEW s \in Sessions, NEW source \in Sources, NEW rows \in SourceBatches,
           StageSourceLines(s, source, rows), StagingRows(s, rows) # {}
    PROVE  /\ \A j \in StagingRows(s, rows) :
                 LET e == SourceEntry(s, rows, j).id
                 IN  /\ e \in EntryIds /\ entry[e] = None /\ entry'[e] # None
                     /\ entry'[e].session = s /\ entry'[e].key = rows[j].key
                     /\ entry'[e].state = "pending"
                     /\ entry'[e].content.quantity = Uncovered(s, rows, j)
                     /\ Uncovered(s, rows, j) \in 1 .. MaxQuantity
           /\ \A e \in EntryIds :
                 \/ entry'[e] = entry[e]
                 \/ \E j \in StagingRows(s, rows) : e = SourceEntry(s, rows, j).id
<1> DEFINE fresh == StagingRows(s, rows)
           lines == Reconciled(s, rows)
<1>1. /\ DOMAIN rows = 1 .. Len(rows) /\ Len(rows) \in Nat /\ fresh \subseteq DOMAIN rows
      /\ \A j \in fresh : rows[j].key \in Keys
  BY SourceRows DEF StagingRows
<1>2. \A j \in fresh : lines[j] = SourceEntry(s, rows, j)
  BY <1>1 DEF Reconciled
<1>3. \A j \in fresh : SourceEntry(s, rows, j).id \in EntryIds
  BY <1>1 DEF StageSourceLines, EntryIds, SourceEntry
<1>4. InsertStagedEntries(s, source, lines, fresh)
  BY DEF StageSourceLines
<1>5. ASSUME NEW j \in fresh
      PROVE  LET e == SourceEntry(s, rows, j).id
             IN  /\ entry[e] = None /\ entry'[e] # None
                 /\ entry'[e].session = s /\ entry'[e].key = rows[j].key
                 /\ entry'[e].state = "pending"
                 /\ entry'[e].content.quantity = Uncovered(s, rows, j)
                 /\ Uncovered(s, rows, j) \in 1 .. MaxQuantity
  <2> DEFINE e == SourceEntry(s, rows, j).id
             row == CHOOSE i \in fresh : lines[i].id = e
             position == NextPosition(s) + Cardinality({i \in fresh : i < row})
  <2>1. row \in fresh /\ lines[row].id = e
    BY <1>2
  <2>2. row = j
    BY <1>2, <2>1, ListNames
  <2>3. /\ entry[e] = None
        /\ entry'[e] = NewEntry(s, position, lines[row].key,
                               lines[row].content, lines[row].candidates)
    BY <1>2, <1>3, <1>4 DEF InsertStagedEntries
  <2>4. position \in Nat \ {0}
    <3>1. IsFiniteSet(1 .. Len(rows)) /\ {i \in fresh : i < row} \in SUBSET (1 .. Len(rows))
      BY <1>1, FS_Interval
    <3>2. IsFiniteSet({i \in fresh : i < row})
      BY <3>1, FS_Subset
    <3>3. Cardinality({i \in fresh : i < row}) \in Nat
      BY <3>2, FS_CardinalityType
    <3> QED
      BY <3>3, NextPositionType
  <2> HIDE DEF position, row
  <2>5. lines[row] = SourceEntry(s, rows, j)
    BY <1>2, <2>2
  <2>6. Uncovered(s, rows, j) \in 1 .. MaxQuantity /\ rows[j].key \in Keys
    BY <1>1 DEF StageSourceLines
  <2>7. Published[rows[j].key] \in [printing : Printings \cup {None}, finish : Finishes \cup {None}]
    BY <2>6, CatalogAssumption
  <2>8. /\ lines[row].content \in Contents /\ lines[row].candidates \in SUBSET Candidates
        /\ lines[row].key = rows[j].key
        /\ lines[row].content.quantity = Uncovered(s, rows, j)
    BY <2>5, <2>6, <2>7 DEF SourceEntry, Contents
  <2>9. entry'[e] # None
    BY <2>3, <2>4, <2>6, <2>8, NewEntryType, NoneAssumption
  <2> QED
    BY <2>3, <2>6, <2>8, <2>9 DEF NewEntry
<1>6. ASSUME NEW e \in EntryIds, \A j \in fresh : e # SourceEntry(s, rows, j).id
      PROVE  entry'[e] = entry[e]
  <2>1. \A j \in fresh : lines[j].id # e
    BY <1>2, <1>6
  <2> QED
    BY <1>4, <2>1 DEF InsertStagedEntries
<1> QED
  BY <1>3, <1>5, <1>6

\* What other steps add has no source line.
LEMMA OthersUnkeyed ==
    ASSUME StoreInv, Next, NEW e \in EntryIds, entry[e] = None, entry'[e] # None
    PROVE  \/ entry'[e].key = None
           \/ \E s \in Sessions, source \in Sources, rows \in SourceBatches :
                 StageSourceLines(s, source, rows)
<1>1. Stage
  BY RowsKept
<1>2. ASSUME NEW t \in Sessions, NEW source, NEW batch \in LineBatches,
             StageEntries(t, source, batch)
      PROVE  entry'[e].key = None
  <2>1. \A i \in DOMAIN batch : batch[i].key = None
    <3>1. batch \in Seq([id : InputIds, key : {None}, content : Contents,
                         candidates : SUBSET Candidates])
      BY StagingAssumption
    <3> SUFFICES ASSUME NEW i \in DOMAIN batch PROVE batch[i].key = None
      OBVIOUS
    <3>2. i \in 1 .. Len(batch)
      BY <3>1
    <3>3. batch[i] \in [id : InputIds, key : {None}, content : Contents,
                        candidates : SUBSET Candidates]
      BY <3>1, <3>2, ElementOfSeq
    <3> QED
      BY <3>3
  <2>2. InsertStagedEntries(t, source, batch, Fresh(batch))
    BY <1>2 DEF StageEntries, OnlyClaim
  <2> DEFINE row == CHOOSE i \in Fresh(batch) : batch[i].id = e
  <2>3. PICK i \in Fresh(batch) : batch[i].id = e
    BY <2>2 DEF InsertStagedEntries
  <2>4. row \in Fresh(batch)
    BY <2>3
  <2>5. row \in DOMAIN batch
    BY <2>4 DEF Fresh
  <2>6. \E position : entry'[e] = NewEntry(t, position, batch[row].key,
                                        batch[row].content, batch[row].candidates)
    BY <2>2, <2>3 DEF InsertStagedEntries
  <2> HIDE DEF row
  <2> QED
    BY <2>1, <2>5, <2>6 DEF NewEntry
<1>3. ASSUME NEW t \in Sessions, NEW id \in InputIds, NEW reading \in Readings,
             StageCapture(t, id, reading)
      PROVE  entry'[e].key = None
  <2>1. CaptureAdmitted(t, id, reading)
    BY <1>3 DEF StageCapture, CaptureUnchanged, CaptureSuppressed, OnlyClaim
  <2>2. entry' = [entry EXCEPT ![id] =
            NewEntry(t, NextPosition(t), None, reading.content, reading.candidates)]
    BY <2>1 DEF CaptureAdmitted
  <2> QED
    BY <2>2 DEF NewEntry, StoreInv, TypeOK
<1> QED
  BY <1>1, <1>2, <1>3 DEF Stage


\* No entry comes to say more copies than it said.
RaisesNothing ==
    \A e \in EntryIds : entry[e] # None =>
        entry'[e].content.quantity <= entry[e].content.quantity

\* Steps that add no entry of a key leave what the import holds of it, or less.
LEMMA StandingShrinks ==
    ASSUME StoreInv, Next, RaisesNothing, NEW s, NEW k,
           \A e \in EntryIds : entry[e] = None /\ entry'[e] # None
                                  => entry'[e].session # s \/ entry'[e].key # k,
           NEW e \in Standing(s, k)'
    PROVE  /\ e \in Standing(s, k)
           /\ entry'[e].content.quantity \in 1 .. MaxQuantity
           /\ entry'[e].content.quantity <= QuantityOf(e)
<1>1. /\ e \in EntryIds /\ entry'[e] # None /\ entry'[e].session = s /\ entry'[e].key = k
      /\ entry'[e].state # "discarded"
  BY DEF Standing, EntriesOfKey, EntriesOf, InState
<1>2. entry[e] # None
  BY <1>1
<1>3. entry[e].session = s /\ entry[e].key = k
  BY <1>1, <1>2, RowsKept DEF Kept
<1>4. entry[e].state # "discarded"
  BY <1>1, <1>2, DecidedStays
<1>5. e \in Standing(s, k)
  BY <1>1, <1>2, <1>3, <1>4 DEF Standing, EntriesOfKey, EntriesOf, InState
<1>6. StoreInv'
  BY NextStoreInv
<1>7. entry'[e] \in EntryRows
  BY <1>1, <1>6 DEF StoreInv, TypeOK
<1>8. entry'[e].content.quantity \in 1 .. MaxQuantity
  BY <1>7 DEF EntryRows, Contents
<1> QED
  BY <1>1, <1>2, <1>5, <1>8 DEF RaisesNothing, QuantityOf

\* A list that is staged adds what it declares beyond what was held.
LEMMA StandingGrows ==
    ASSUME StoreInv, Next, NEW s \in Sessions, NEW k \in Keys, NEW source \in Sources,
           NEW rows \in SourceBatches, StageSourceLines(s, source, rows),
           StagingRows(s, rows) # {}
    PROVE  /\ Total([e \in Standing(s, k) |-> QuantityOf(e)]') \in Nat
           /\ Total([e \in Standing(s, k) |-> QuantityOf(e)]')
                 <= Held(s, k) + Beyond(DeclaredBy(rows, k, Len(rows)), Held(s, k))
<1> DEFINE fresh == StagingRows(s, rows)
           Id(j) == SourceEntry(s, rows, j).id
           G == {j \in fresh : rows[j].key = k}
           id == [j \in G |-> Id(j)]
           added == {id[j] : j \in G}
           before == Standing(s, k)
           f == [e \in before |-> QuantityOf(e)]
           q == [e \in added |-> entry'[e].content.quantity]
           g == [e \in Standing(s, k) |-> QuantityOf(e)]'
<1>1. /\ \A j \in fresh :
            /\ Id(j) \in EntryIds /\ entry[Id(j)] = None /\ entry'[Id(j)] # None
            /\ entry'[Id(j)].session = s /\ entry'[Id(j)].key = rows[j].key
            /\ entry'[Id(j)].state = "pending"
            /\ entry'[Id(j)].content.quantity = Uncovered(s, rows, j)
            /\ Uncovered(s, rows, j) \in 1 .. MaxQuantity
      /\ \A e \in EntryIds : entry'[e] = entry[e] \/ \E j \in fresh : e = Id(j)
  BY ListStages
<1>2. G \in SUBSET (1 .. Len(rows)) /\ Len(rows) \in Nat /\ G \subseteq fresh
  BY SourceRows DEF StagingRows
<1>3. \A i, j \in G : id[i] = id[j] => i = j
  BY <1>2, ListNames
<1>4. /\ before \subseteq EntryIds /\ IsFiniteSet(before)
      /\ f \in [before -> 1 .. MaxQuantity] /\ Held(s, k) = Total(f) /\ Held(s, k) \in Nat
  BY StandingHeld
<1>5. added \subseteq EntryIds /\ IsFiniteSet(added)
  <2>1. added \subseteq EntryIds
    BY <1>1
  <2> QED
    BY <2>1, EntryIdsFinite, FS_Subset
<1>6. before \cap added = {}
  BY <1>1 DEF Standing, EntriesOfKey, EntriesOf
<1>7. \A e \in added : /\ entry'[e] # None /\ entry'[e].session = s /\ entry'[e].key = k
                       /\ entry'[e].state = "pending"
                       /\ entry'[e].content.quantity \in 1 .. MaxQuantity
  <2> SUFFICES ASSUME NEW e \in added
               PROVE  /\ entry'[e] # None /\ entry'[e].session = s /\ entry'[e].key = k
                      /\ entry'[e].state = "pending"
                      /\ entry'[e].content.quantity \in 1 .. MaxQuantity
    OBVIOUS
  <2>1. PICK j \in fresh : e = Id(j) /\ rows[j].key = k
    OBVIOUS
  <2> HIDE DEF Id, fresh, added
  <2> QED
    BY <1>1, <2>1
<1>8. \A e \in EntryIds : entry'[e] # entry[e] /\ entry'[e] # None
                              /\ entry'[e].key = k => e \in added
  BY <1>1
<1>9. \A e \in before : entry'[e] = entry[e]
  <2>1. \A e \in before : e \in EntryIds /\ entry[e] # None
    BY DEF Standing, EntriesOfKey, EntriesOf
  <2> HIDE DEF before, Id
  <2> QED
    BY <1>1, <2>1
<1>10. \A j \in G : q[id[j]] = Uncovered(s, rows, j)
  BY <1>1
<1>11. q \in [added -> 1 .. MaxQuantity]
  BY <1>7
<1>12. Standing(s, k)' = before \cup added
  <2> HIDE DEF added
  <2>1. \A e \in EntryIds :
            e \in Standing(s, k)' <=>
               /\ entry'[e] # None /\ entry'[e].session = s /\ entry'[e].key = k
               /\ entry'[e].state # "discarded"
    BY DEF Standing, EntriesOfKey, EntriesOf, InState
  <2>2. \A e \in EntryIds :
            e \in before <=>
               /\ entry[e] # None /\ entry[e].session = s /\ entry[e].key = k
               /\ entry[e].state # "discarded"
    BY DEF Standing, EntriesOfKey, EntriesOf, InState
  <2>3. Standing(s, k)' \subseteq EntryIds
    BY DEF Standing, EntriesOfKey, EntriesOf
  <2> HIDE DEF before
  <2> QED
    BY <1>4, <1>5, <1>7, <1>8, <1>9, <2>1, <2>2, <2>3
<1>13. g = [e \in before \cup added |-> entry'[e].content.quantity]
  BY <1>12 DEF QuantityOf
<1>14. /\ g \in [before \cup added -> 1 .. MaxQuantity]
       /\ \A e \in before : g[e] = f[e]
       /\ \A e \in added : g[e] = q[e]
  <2>1. \A e \in before : entry'[e].content.quantity = f[e]
    BY <1>9 DEF QuantityOf
  <2> HIDE DEF before, added, f
  <2> QED
    BY <1>4, <1>7, <1>13, <2>1
<1>15. Total(q) <= Beyond(DeclaredBy(rows, k, Len(rows)), Held(s, k))
  <2>1. id \in [G -> EntryIds] /\ \A j \in G : rows[j].key = k
    BY <1>1
  <2> HIDE DEF G, id, q, added
  <2>2. q \in [{id[j] : j \in G} -> 1 .. MaxQuantity]
    BY <1>11 DEF added
  <2>3. StagedFrom(s, rows, k, G, EntryIds, id, q)
    BY <1>2, <1>3, <1>4, <1>10, <2>1, <2>2 DEF StagedFrom
  <2>4. AtMostBeyond(s, rows, k, q)
    BY ONLY <2>3, StagesBeyond
  <2> QED
    BY <2>4 DEF AtMostBeyond
<1> HIDE DEF before, added, f, q, g, G
<1>16. Total(g) = Total(f) + Total(q) /\ Total(q) \in Nat
  <2>1. /\ IsFiniteSet(before) /\ IsFiniteSet(added) /\ before \cap added = {}
        /\ f \in [before -> 1 .. MaxQuantity] /\ q \in [added -> 1 .. MaxQuantity]
        /\ g \in [before \cup added -> 1 .. MaxQuantity]
        /\ \A e \in before : g[e] = f[e]
        /\ \A e \in added : g[e] = q[e]
    BY <1>4, <1>5, <1>6, <1>11, <1>14
  <2>2. Total(g) = Total(f) + Total(q)
    BY ONLY <2>1, TotalAdds
  <2>3. Total(q) \in Nat
    BY ONLY <2>1, UnitsFinite
  <2> QED
    BY <2>2, <2>3
<1>17. Beyond(DeclaredBy(rows, k, Len(rows)), Held(s, k)) \in Nat
  <2>1. Len(rows) \in 0 .. Len(rows) /\ 0 \in 0 .. Len(rows)
    BY <1>2
  <2>2. DeclaredBy(rows, k, Len(rows)) \in Nat
    BY <1>2, <2>1, DeclaredGrows
  <2> QED
    BY <1>4, <2>2, BeyondIs
<1>18. Total(g) \in Nat
       /\ Total(g) <= Held(s, k) + Beyond(DeclaredBy(rows, k, Len(rows)), Held(s, k))
  BY <1>4, <1>15, <1>16, <1>17
<1> QED
  BY <1>18 DEF g

LEMMA DeclaredKept ==
    ASSUME StoreInv, NeverBeyondDeclared, Next, RaisesNothing
    PROVE  NeverBeyondDeclared'
<1> DEFINE Sum(s, k) == Total([e \in Standing(s, k) |-> QuantityOf(e)])
           Declared(b, k) == DeclaredBy(b, k, Len(b))
<1>1. \A s \in Sessions, k \in Keys : Standing(s, k) # {} =>
          \E b \in SourceBatches : Sum(s, k) <= Declared(b, k)
  BY DEF NeverBeyondDeclared, QuantityOf
<1>4. ASSUME NEW b \in SourceBatches, NEW k PROVE Declared(b, k) \in Nat
  <2>1. Len(b) \in Nat
    BY SourceRows
  <2>2. Len(b) \in 0 .. Len(b) /\ 0 \in 0 .. Len(b)
    BY <2>1
  <2> QED
    BY <2>1, <2>2, DeclaredGrows
<1>2. ASSUME NEW s \in Sessions, NEW k \in Keys, Standing(s, k)' # {},
             \A e \in EntryIds : entry[e] = None /\ entry'[e] # None
                                  => entry'[e].session # s \/ entry'[e].key # k
      PROVE  \E b \in SourceBatches : Sum(s, k)' <= Declared(b, k)
  <2> DEFINE before == Standing(s, k)
             later == Standing(s, k)'
             f == [e \in before |-> QuantityOf(e)]
             g == [e \in later |-> entry'[e].content.quantity]
  <2>1. \A e \in later : /\ e \in before
                         /\ entry'[e].content.quantity \in 1 .. MaxQuantity
                         /\ entry'[e].content.quantity <= QuantityOf(e)
    BY <1>2, StandingShrinks
  <2>2. IsFiniteSet(before) /\ f \in [before -> 1 .. MaxQuantity]
    BY StandingHeld
  <2>3. g \in [later -> 1 .. MaxQuantity] /\ later \subseteq before
        /\ \A e \in later : g[e] <= f[e]
    BY <2>1
  <2>4. Sum(s, k)' = Total(g)
    BY DEF QuantityOf, Total, Units
  <2>5. Sum(s, k) = Total(f)
    OBVIOUS
  <2>6. PICK b \in SourceBatches : Sum(s, k) <= Declared(b, k)
    BY <1>1, <1>2, <2>1
  <2>7. Declared(b, k) \in Nat
    BY <1>4
  <2> HIDE DEF before, later, f, g, Sum, Declared
  <2>8. Total(f) \in Nat /\ Total(g) \in Nat /\ Total(g) <= Total(f)
    BY <2>2, <2>3, TotalShrinks
  <2> QED
    BY <2>4, <2>5, <2>6, <2>7, <2>8
<1>3. ASSUME NEW t \in Sessions, NEW source \in Sources, NEW rows \in SourceBatches,
             StageSourceLines(t, source, rows), NEW s \in Sessions, NEW k \in Keys,
             Standing(s, k)' # {}
      PROVE  \E b \in SourceBatches : Sum(s, k)' <= Declared(b, k)
  <2>1. CASE StagingRows(t, rows) = {}
    <3>1. UNCHANGED entry
      BY <1>3, <2>1 DEF StageSourceLines, OnlyClaim
    <3> QED
      BY <1>2, <1>3, <3>1
  <2>2. CASE StagingRows(t, rows) # {} /\ s # t
    <3>1. \A e \in EntryIds : entry'[e] = entry[e] \/ entry'[e].session = t
      BY <1>3, <2>2, ListStages
    <3> QED
      BY <1>2, <1>3, <2>2, <3>1
  <2>3. CASE StagingRows(t, rows) # {} /\ s = t
    <3> DEFINE H == Held(s, k)
               D == Declared(rows, k)
               g == [e \in Standing(s, k) |-> QuantityOf(e)]'
    <3>1. Total(g) \in Nat /\ Total(g) <= H + Beyond(D, H)
      BY <1>3, <2>3, StandingGrows
    <3>2. H \in Nat /\ H = Sum(s, k) /\ (Standing(s, k) = {} => H = 0)
      <4>1. H \in Nat /\ H = Sum(s, k)
        BY StandingHeld
      <4>2. ASSUME Standing(s, k) = {} PROVE H = 0
        <5>1. Units([e \in Standing(s, k) |-> QuantityOf(e)]) = {}
          BY <4>2 DEF Units
        <5> QED
          BY <4>1, <5>1, FS_EmptySet DEF Total
      <4> QED
        BY <4>1, <4>2
    <3>3. \A b \in SourceBatches : Declared(b, k) \in Nat
      BY <1>4
    <3>4. Sum(s, k)' = Total(g)
      BY DEF Total, Units
    <3>5. Beyond(D, H) = IF D > H THEN D - H ELSE 0
      BY <3>2, <3>3, BeyondIs
    <3> HIDE DEF H, D, g, Sum, Declared
    <3>6. D \in Nat /\ (Standing(s, k) # {} => \E b \in SourceBatches : H <= Declared(b, k))
      BY <1>1, <3>2, <3>3 DEF D
    <3>7. Total(g) <= D \/ (Total(g) <= H /\ Standing(s, k) # {})
      BY <3>1, <3>2, <3>5, <3>6
    <3>8. CASE Total(g) <= D
      BY <3>4, <3>8 DEF D
    <3>9. CASE Total(g) <= H /\ Standing(s, k) # {}
      <4>1. PICK b \in SourceBatches : H <= Declared(b, k)
        BY <3>6, <3>9
      <4> QED
        BY <3>1, <3>2, <3>3, <3>4, <3>9, <4>1
    <3> QED
      BY <3>7, <3>8, <3>9
  <2> QED
    BY <2>1, <2>2, <2>3
<1>5. ASSUME NEW s \in Sessions, NEW k \in Keys, Standing(s, k)' # {}
      PROVE  \E b \in SourceBatches : Sum(s, k)' <= Declared(b, k)
  <2>1. None \notin Keys
    BY IdentityAssumption
  <2>2. ASSUME \A t \in Sessions, source \in Sources, rows \in SourceBatches :
                  ~StageSourceLines(t, source, rows)
        PROVE  \A e \in EntryIds : entry[e] = None /\ entry'[e] # None
                                      => entry'[e].session # s \/ entry'[e].key # k
    BY <2>1, <2>2, OthersUnkeyed
  <2> QED
    BY <1>2, <1>3, <1>5, <2>2
<1>6. \A b, k : (DeclaredBy(b, k, Len(b)))' = DeclaredBy(b, k, Len(b))
  BY DEF DeclaredBy, RowsOfKey, Total, Units
<1> QED
  BY <1>5, <1>6 DEF NeverBeyondDeclared, QuantityOf

\* However a list is repeated, reordered, partly discarded or partly confirmed,
\* its import never holds more of a line than one reading of the list declared,
\* as long as no review raises a quantity: one may keep or lower any, and give
\* the entry another card, printing or finish.
THEOREM HoldsNoMoreThanDeclared ==
    Spec /\ [][RaisesNothing]_vars => []NeverBeyondDeclared
<1>1. Init => NeverBeyondDeclared
  BY DEF Init, InitState, NeverBeyondDeclared, Standing, EntriesOfKey, EntriesOf
<1>2. StoreInv /\ NeverBeyondDeclared /\ [Next]_vars /\ [RaisesNothing]_vars
        => NeverBeyondDeclared'
  <2>1. ASSUME NeverBeyondDeclared, UNCHANGED vars PROVE NeverBeyondDeclared'
    <3>1. entry' = entry
      BY <2>1 DEF vars
    <3>2. \A s, k : Standing(s, k)' = Standing(s, k)
      BY <3>1 DEF Standing, EntriesOfKey, EntriesOf, InState
    <3>3. \A b, k : (DeclaredBy(b, k, Len(b)))' = DeclaredBy(b, k, Len(b))
      BY DEF DeclaredBy, RowsOfKey, Total, Units
    <3>4. \A s, k : (Total([e \in Standing(s, k) |-> entry[e].content.quantity]))'
                      = Total([e \in Standing(s, k) |-> entry[e].content.quantity])
      BY <3>1, <3>2 DEF Total, Units
    <3> QED
      BY <2>1, <3>2, <3>3, <3>4 DEF NeverBeyondDeclared
  <2> QED
    BY <2>1, DeclaredKept
<1> QED
  BY <1>1, <1>2, Inductive, PTL DEF Spec
--------
(* The order of a session's entries.                                       *)

\* No two entries of a session have one position.
PositionsDiffer ==
    \A e, f \in EntryIds :
        /\ entry[e] # None /\ entry[f] # None
        /\ entry[e].session = entry[f].session /\ entry[e].position = entry[f].position
        => e = f

\* Rows that are kept, and new ones that go after them in an order.
LEMMA PositionsAdded ==
    ASSUME StoreInv, PositionsDiffer, NEW s \in Sessions,
           \A e \in EntryIds : entry[e] # None => Kept(entry[e], entry'[e]),
           \A e \in EntryIds : entry[e] = None /\ entry'[e] # None =>
              entry'[e].session = s /\ entry'[e].position \in Nat /\ entry'[e].position >= NextPosition(s),
           \A e, f \in EntryIds :
              /\ entry[e] = None /\ entry'[e] # None /\ entry[f] = None /\ entry'[f] # None
              /\ entry'[e].position = entry'[f].position
              => e = f
    PROVE  PositionsDiffer'
<1> SUFFICES ASSUME NEW e \in EntryIds, NEW f \in EntryIds, entry'[e] # None, entry'[f] # None,
                    entry'[e].session = entry'[f].session,
                    entry'[e].position = entry'[f].position
             PROVE  e = f
  BY DEF PositionsDiffer
<1>1. ASSUME NEW x \in EntryIds, NEW y \in EntryIds, entry[x] # None, entry[y] = None,
             entry'[y] # None, entry'[x].session = entry'[y].session
      PROVE  entry'[x].position # entry'[y].position
  <2>1. /\ entry'[x].position = entry[x].position /\ x \in EntriesOf(s)
        /\ entry[x].position \in Nat
    BY <1>1, EntryFacts DEF Kept, EntriesOf
  <2>2. entry[x].position < NextPosition(s) /\ NextPosition(s) \in Nat
    BY <2>1, PositionsBelow, NextPositionType
  <2>3. entry'[y].position \in Nat /\ entry'[y].position >= NextPosition(s)
    BY <1>1
  <2> QED
    BY <2>1, <2>2, <2>3
<1>2. CASE entry[e] # None /\ entry[f] # None
  BY <1>2 DEF PositionsDiffer, Kept
<1> QED
  BY <1>1, <1>2

\* Lines are numbered in the order they were offered.
LEMMA LinesNumbered ==
    ASSUME NEW n \in Nat, NEW fresh \in SUBSET (1 .. n), NEW i \in fresh, NEW j \in fresh
    PROVE  LET Before(k) == {m \in fresh : m < k}
           IN  /\ Cardinality(Before(i)) \in Nat /\ Cardinality(Before(j)) \in Nat
               /\ Cardinality(Before(i)) = Cardinality(Before(j)) => i = j
<1>0. \A m \in fresh : m \in 1 .. n /\ m \in Int
  OBVIOUS
<1> DEFINE Before(k) == {m \in fresh : m < k}
<1>1. ASSUME NEW k \in fresh PROVE IsFiniteSet(Before(k)) /\ Cardinality(Before(k)) \in Nat
  <2>1. IsFiniteSet(1 .. n)
    BY FS_Interval
  <2>3. Before(k) \in SUBSET (1 .. n)
    BY <1>0
  <2>2. IsFiniteSet(Before(k))
    BY <2>1, <2>3, FS_Subset
  <2> QED
    BY <2>2, FS_CardinalityType
<1>2. ASSUME NEW k \in fresh, NEW l \in fresh, k < l,
             Cardinality(Before(k)) = Cardinality(Before(l))
      PROVE  FALSE
  <2>1. Before(k) \subseteq Before(l) /\ k \in Before(l) /\ k \notin Before(k)
    <3>1. k \in Int /\ l \in Int /\ ~(k < k)
      BY <1>0
    <3>2. ASSUME NEW m \in Before(k) PROVE m \in Before(l)
      <4>1. m \in fresh /\ m \in Int /\ m < k
        BY <1>0
      <4> QED
        BY <1>2, <3>1, <4>1
    <3> QED
      BY <1>2, <3>1, <3>2
  <2> HIDE DEF Before
  <2>2. Before(k) = Before(l)
    BY <1>1, <1>2, <2>1, FS_Subset
  <2> QED
    BY <2>1, <2>2
<1>3. i < j \/ j < i \/ i = j
  OBVIOUS
<1> QED
  BY <1>1, <1>2, <1>3

LEMMA LinesAdded ==
    ASSUME StoreInv, PositionsDiffer, Next, NEW s \in Sessions, NEW source, NEW lines,
           NEW n \in Nat, NEW fresh \in SUBSET (1 .. n),
           InsertStagedEntries(s, source, lines, fresh)
    PROVE  PositionsDiffer'
<1> DEFINE Before(k) == {m \in fresh : m < k}
           Row(e) == CHOOSE i \in fresh : lines[i].id = e
           Offered(e) == \E i \in fresh : lines[i].id = e
<1>1. \A e \in EntryIds : entry[e] # None => Kept(entry[e], entry'[e])
  BY RowsKept
<1>2. ASSUME NEW e \in EntryIds, entry[e] = None, entry'[e] # None
      PROVE  /\ Row(e) \in fresh /\ lines[Row(e)].id = e /\ entry'[e].session = s
             /\ entry'[e].position = NextPosition(s) + Cardinality(Before(Row(e)))
  <2>1. Offered(e)
    BY <1>2 DEF InsertStagedEntries
  <2>2. entry'[e] = NewEntry(s, NextPosition(s) + Cardinality(Before(Row(e))),
            lines[Row(e)].key, lines[Row(e)].content, lines[Row(e)].candidates)
    BY <2>1 DEF InsertStagedEntries
  <2>3. Row(e) \in fresh /\ lines[Row(e)].id = e
    BY <2>1
  <2> HIDE DEF Row, Before
  <2> QED
    BY <2>2, <2>3 DEF NewEntry
<1> HIDE DEF Row, Offered
<1>3. \A i, j \in fresh :
          /\ Cardinality(Before(i)) \in Nat /\ Cardinality(Before(j)) \in Nat
          /\ Cardinality(Before(i)) = Cardinality(Before(j)) => i = j
  BY LinesNumbered
<1> HIDE DEF Before
<1>4. NextPosition(s) \in Nat
  BY NextPositionType
<1>5. \A e \in EntryIds : entry[e] = None /\ entry'[e] # None =>
          entry'[e].session = s /\ entry'[e].position \in Nat /\ entry'[e].position >= NextPosition(s)
  BY <1>2, <1>3, <1>4
<1>6. ASSUME NEW e \in EntryIds, NEW f \in EntryIds, entry[e] = None, entry'[e] # None,
             entry[f] = None, entry'[f] # None, entry'[e].position = entry'[f].position
      PROVE  e = f
  <2>1. Cardinality(Before(Row(e))) = Cardinality(Before(Row(f)))
    <3>1. ASSUME NEW a \in Nat, NEW b \in Nat, NEW c \in Nat, c + a = c + b PROVE a = b
      BY <3>1
    <3>2. /\ Row(e) \in fresh /\ Row(f) \in fresh
          /\ NextPosition(s) + Cardinality(Before(Row(e)))
                = NextPosition(s) + Cardinality(Before(Row(f)))
      BY <1>2, <1>6
    <3>3. Cardinality(Before(Row(e))) \in Nat /\ Cardinality(Before(Row(f))) \in Nat
      BY <1>3, <3>2
    <3> QED
      BY ONLY <1>4, <3>1, <3>2, <3>3
  <2>2. Row(e) = Row(f)
    BY <1>2, <1>3, <1>6, <2>1
  <2> QED
    BY <1>2, <1>6, <2>2
<1> QED
  BY <1>1, <1>5, <1>6, PositionsAdded

LEMMA PositionsKept ==
    ASSUME StoreInv, PositionsDiffer, Next PROVE PositionsDiffer'
<1>1. \A e \in EntryIds : entry[e] # None => Kept(entry[e], entry'[e])
  BY RowsKept
<1>2. CASE \A e \in EntryIds : entry[e] = None => entry'[e] = None
  BY <1>1, <1>2 DEF PositionsDiffer, Kept
<1>3. ASSUME NEW s \in Sessions, NEW source \in SourceOf(s), NEW batch \in LineBatches,
             StageEntries(s, source, batch)
      PROVE  PositionsDiffer'
  <2>1. CASE OnlyClaim(s, source)
    BY <1>2, <2>1 DEF OnlyClaim
  <2>2. CASE ~OnlyClaim(s, source)
    <3>1. InsertStagedEntries(s, source, batch, Fresh(batch))
      BY <1>3, <2>2 DEF StageEntries
    <3>2. Len(batch) \in Nat /\ DOMAIN batch = 1 .. Len(batch)
      BY StagingAssumption
    <3>3. Fresh(batch) \in SUBSET (1 .. Len(batch))
      BY <3>2 DEF Fresh
    <3> QED
      BY <3>1, <3>2, <3>3, LinesAdded
  <2> QED
    BY <2>1, <2>2
<1>4. ASSUME NEW s \in Sessions, NEW source \in Sources, NEW rows \in SourceBatches,
             StageSourceLines(s, source, rows)
      PROVE  PositionsDiffer'
  <2>1. CASE OnlyClaim(s, source)
    BY <1>2, <2>1 DEF OnlyClaim
  <2>2. CASE ~OnlyClaim(s, source)
    <3>1. InsertStagedEntries(s, source, Reconciled(s, rows), StagingRows(s, rows))
      BY <1>4, <2>2 DEF StageSourceLines
    <3>2. Len(rows) \in Nat /\ DOMAIN rows = 1 .. Len(rows)
      BY StagingAssumption
    <3>3. StagingRows(s, rows) \in SUBSET (1 .. Len(rows))
      BY <3>2 DEF StagingRows
    <3> QED
      BY <3>1, <3>2, <3>3, LinesAdded
  <2> QED
    BY <2>1, <2>2
<1>5. ASSUME NEW s \in Sessions, NEW id \in InputIds, NEW reading \in Readings,
             StageCapture(s, id, reading)
      PROVE  PositionsDiffer'
  <2>1. CASE CaptureAdmitted(s, id, reading)
    <3>1. Accepts(s, id)
      BY <2>1, AcceptsCapture
    <3>2. /\ entry'[id].session = s /\ entry'[id].position = NextPosition(s)
          /\ \A e \in EntryIds : e # id => entry'[e] = entry[e]
      BY <3>1 DEF Accepts
    <3>3. NextPosition(s) \in Nat
      BY NextPositionType
    <3>4. \A e \in EntryIds : entry[e] = None /\ entry'[e] # None => e = id
      BY <3>2
    <3> QED
      BY <1>1, <3>2, <3>3, <3>4, PositionsAdded
  <2>2. CASE ~CaptureAdmitted(s, id, reading)
    BY <1>2, <1>5, <2>2 DEF StageCapture, CaptureUnchanged, CaptureSuppressed, OnlyClaim
  <2> QED
    BY <2>1, <2>2
<1>6. CASE Stage
  <2>1. \A s \in Sessions : Sources \cup {CaptureSource(s)} = SourceOf(s)
    BY DEF SourceOf
  <2> QED
    BY <1>3, <1>4, <1>5, <1>6, <2>1 DEF Stage
<1> QED
  BY <1>2, <1>6, RowsKept

\* The entries of a session are in one order: no two were ever given the same
\* position, whatever was staged at once or read again (nextPosition in
\* imports/staging.ts).
THEOREM PositionsUnique == Spec => []PositionsDiffer
<1>1. Init => PositionsDiffer
  BY DEF Init, InitState, PositionsDiffer
<1>2. StoreInv /\ PositionsDiffer /\ [Next]_vars => PositionsDiffer'
  <2>1. PositionsDiffer /\ UNCHANGED vars => PositionsDiffer'
    BY DEF vars, PositionsDiffer
  <2> QED
    BY <2>1, PositionsKept
<1> QED
  BY <1>1, <1>2, Inductive, PTL DEF Spec

--------
(* The list a page is part of.                                             *)

Listable == [id : EntryIds, row : EntryRows]

\* Every pending entry has a number, in the order of the positions.
LEMMA RowsNumbered ==
    ASSUME StoreInv, PositionsDiffer, NEW s \in Sessions
    PROVE  /\ PendingOf(s) \subseteq EntryIds /\ Cardinality(PendingOf(s)) \in Nat
           /\ \A e \in PendingOf(s) :
                 entry[e] \in EntryRows /\ RowNumber(s, e) \in 1 .. Cardinality(PendingOf(s))
           /\ \A e, f \in PendingOf(s) :
                 entry[e].position < entry[f].position => RowNumber(s, e) < RowNumber(s, f)
           /\ \A e, f \in PendingOf(s) : RowNumber(s, e) = RowNumber(s, f) => e = f
           /\ \A n \in 1 .. Cardinality(PendingOf(s)) : \E e \in PendingOf(s) : RowNumber(s, e) = n
<1> DEFINE P == PendingOf(s)
           Upto(e) == {f \in P : entry[f].position <= entry[e].position}
           C == Cardinality(P)
<1>1. P \subseteq EntryIds /\ IsFiniteSet(P) /\ C \in Nat
  <2>1. P \subseteq EntryIds
    BY DEF PendingOf, EntriesOf
  <2>2. IsFiniteSet(P)
    BY <2>1, EntryIdsFinite, FS_Subset
  <2> QED
    BY <2>1, <2>2, FS_CardinalityType
<1>2. \A e \in P : entry[e] \in EntryRows /\ entry[e].position \in Nat /\ entry[e].session = s
                    /\ entry[e] # None
  BY EntryFacts DEF PendingOf, EntriesOf
<1>3. \A e \in P : RowNumber(s, e) = Cardinality(Upto(e))
  BY DEF RowNumber
<1>4. \A e, f \in P : entry[e].position = entry[f].position => e = f
  BY <1>1, <1>2 DEF PositionsDiffer
<1> HIDE DEF P
<1>5. ASSUME NEW e \in P
      PROVE  IsFiniteSet(Upto(e)) /\ Cardinality(Upto(e)) \in 1 .. C
  <2>1. Upto(e) \subseteq P /\ e \in Upto(e)
    BY <1>2
  <2> HIDE DEF Upto
  <2>2. IsFiniteSet(Upto(e)) /\ Cardinality(Upto(e)) \in Nat /\ Cardinality(Upto(e)) <= C
    BY <1>1, <2>1, FS_Subset, FS_CardinalityType
  <2>3. Cardinality(Upto(e)) # 0
    BY <2>1, <2>2, FS_EmptySet
  <2> QED
    BY <1>1, <2>2, <2>3
<1>6. ASSUME NEW e \in P, NEW f \in P, entry[e].position < entry[f].position
      PROVE  Cardinality(Upto(e)) < Cardinality(Upto(f))
  <2>1. Upto(e) \subseteq Upto(f) /\ f \in Upto(f) /\ f \notin Upto(e)
    BY <1>2, <1>6
  <2> HIDE DEF Upto
  <2>2. Cardinality(Upto(e)) \in Nat /\ Cardinality(Upto(f)) \in Nat
        /\ IsFiniteSet(Upto(f)) /\ Cardinality(Upto(e)) <= Cardinality(Upto(f))
    BY <1>1, <1>5, <2>1, FS_Subset
  <2>3. Cardinality(Upto(e)) # Cardinality(Upto(f))
    BY <2>1, <2>2, FS_Subset
  <2> QED
    BY <2>2, <2>3
<1> HIDE DEF Upto
<1>7. \A e, f \in P : Cardinality(Upto(e)) = Cardinality(Upto(f)) => e = f
  <2> SUFFICES ASSUME NEW e \in P, NEW f \in P, Cardinality(Upto(e)) = Cardinality(Upto(f)), e # f
               PROVE  FALSE
    OBVIOUS
  <2>1. entry[e].position < entry[f].position \/ entry[f].position < entry[e].position
    BY <1>2, <1>4
  <2>2. Cardinality(Upto(e)) \in Nat
    BY <1>1, <1>5
  <2> QED
    BY <1>6, <2>1, <2>2
<1> DEFINE number == [e \in P |-> Cardinality(Upto(e))]
<1>8. number \in Surjection(P, 1 .. C)
  <2>1. number \in Injection(P, 1 .. C)
    BY <1>5, <1>7 DEF Injection, IsInjective
  <2>2. IsFiniteSet(1 .. C) /\ Cardinality(1 .. C) = C
    <3>1. 0 \in Int /\ 1 \in Int /\ C \in Int
      BY <1>1
    <3> HIDE DEF C
    <3>2. IsFiniteSet(1 .. C) /\ Cardinality(1 .. C) = IF 1 > C THEN 0 ELSE C - 1 + 1
      BY <3>1, FS_Interval
    <3> QED
      BY <1>1, <3>2
  <2> HIDE DEF number
  <2> QED
    BY <1>1, <2>1, <2>2, FS_Injection
<1>9. \A n \in 1 .. C : \E e \in P : Cardinality(Upto(e)) = n
  BY <1>8 DEF Surjection
<1> QED
  BY <1>1, <1>2, <1>3, <1>5, <1>6, <1>7, <1>9 DEF P

\* The list holds every pending entry once, as it is, in the order of their
\* positions.
ListedInOrder(s) ==
    LET list == Listed(s)
    IN  /\ \A n \in DOMAIN list :
              list[n].id \in PendingOf(s) /\ list[n].row = entry[list[n].id]
        /\ \A e \in PendingOf(s) : \E n \in DOMAIN list : list[n].id = e
        /\ \A m, n \in DOMAIN list :
              m < n => entry[list[m].id].position < entry[list[n].id].position

LEMMA ListedFacts ==
    ASSUME StoreInv, PositionsDiffer, NEW s \in Sessions
    PROVE  /\ Listed(s) \in Seq(Listable) /\ Len(Listed(s)) = Cardinality(PendingOf(s))
           /\ ListedInOrder(s)
<1> DEFINE P == PendingOf(s)
           C == Cardinality(P)
           Nth(n) == CHOOSE e \in P : RowNumber(s, e) = n
<1>1. /\ P \subseteq EntryIds /\ C \in Nat
      /\ \A e \in P : entry[e] \in EntryRows /\ RowNumber(s, e) \in 1 .. C
      /\ \A e, f \in P : entry[e].position < entry[f].position => RowNumber(s, e) < RowNumber(s, f)
      /\ \A e, f \in P : RowNumber(s, e) = RowNumber(s, f) => e = f
      /\ \A n \in 1 .. C : \E e \in P : RowNumber(s, e) = n
  BY RowsNumbered
<1>2. Listed(s) = [n \in 1 .. C |-> [id |-> Nth(n), row |-> entry[Nth(n)]]]
  BY DEF Listed
<1>3. \A n \in 1 .. C : Nth(n) \in P /\ RowNumber(s, Nth(n)) = n
  BY <1>1
<1> HIDE DEF P, C, Nth
<1>4. \A n \in 1 .. C : Listed(s)[n] = [id |-> Nth(n), row |-> entry[Nth(n)]]
                        /\ Listed(s)[n] \in Listable
  BY <1>1, <1>2, <1>3 DEF Listable
<1>5. Listed(s) \in [1 .. C -> Listable]
  BY <1>2, <1>4
<1>6. Listed(s) \in Seq(Listable) /\ Len(Listed(s)) = C /\ DOMAIN Listed(s) = 1 .. C
  BY <1>1, <1>5
<1>7. ASSUME NEW n \in 1 .. C
      PROVE  Listed(s)[n].id = Nth(n) /\ Listed(s)[n].row = entry[Nth(n)]
  <2>1. Listed(s)[n] = [id |-> Nth(n), row |-> entry[Nth(n)]]
    BY <1>4
  <2> QED
    BY <2>1
<1>8. \A e \in P : Nth(RowNumber(s, e)) = e
  BY <1>1, <1>3
<1>9. ASSUME NEW m \in 1 .. C, NEW n \in 1 .. C, m < n
      PROVE  entry[Nth(m)].position < entry[Nth(n)].position
  <2>1. Nth(m) \in P /\ Nth(n) \in P /\ RowNumber(s, Nth(m)) = m /\ RowNumber(s, Nth(n)) = n
    BY <1>3
  <2>2. entry[Nth(m)].position \in Nat /\ entry[Nth(n)].position \in Nat
    BY <1>1, <2>1 DEF EntryRows
  <2>3. ~(entry[Nth(n)].position < entry[Nth(m)].position)
    <3>1. m \in Int /\ n \in Int /\ ~(n < m)
      BY <1>9
    <3> QED
      BY <1>1, <2>1, <3>1
  <2>4. entry[Nth(n)].position # entry[Nth(m)].position
    <3>1. m # n /\ Nth(m) # Nth(n)
      BY <1>9, <2>1
    <3> QED
      BY <1>1, <2>1, <3>1 DEF PositionsDiffer, P, PendingOf, EntriesOf
  <2> QED
    BY <2>2, <2>3, <2>4
<1>10. ListedInOrder(s)
  BY <1>1, <1>3, <1>6, <1>7, <1>8, <1>9 DEF ListedInOrder, P
<1> QED
  BY <1>6, <1>10 DEF C, P

\* Whatever was staged, reviewed and confirmed, an import lists every pending
\* entry once, as it is, in the order of their positions (entryPageStatement in
\* imports/reads.ts).
THEOREM ListsInOrder == Spec => [](\A s \in Sessions : ListedInOrder(s))
<1>1. StoreInv /\ PositionsDiffer => \A s \in Sessions : ListedInOrder(s)
  BY ListedFacts
<1> QED
  BY <1>1, Inductive, PositionsUnique, PTL

--------
(* Pages of an import's entries.                                           *)

\* A list begins with some items.
Begins(items, list) ==
    Len(items) <= Len(list) /\ \A n \in 1 .. Len(items) : items[n] = list[n]

\* What a page being read holds: the pages it joined begin the list of the
\* revision they carry, and the statements of this one continue it, if nothing
\* was published between them.
PageAgrees(q) ==
    /\ q.read \in 0 .. PageSize
    /\ q.token \in (0 .. revision) \cup {None} /\ q.seen \in (0 .. revision) \cup {None}
    /\ q.token = None => q.listed = <<>>
    /\ q.token = revision => Begins(q.listed, Listed(q.session))
    /\ q.seen = None => q.entries = <<>> /\ q.read = 0
    /\ q.seen = revision /\ q.token \in {None, revision} =>
          Begins(q.listed \o q.entries, Listed(q.session)) /\ Len(q.entries) = q.read

ListAgrees(q) ==
    /\ q.session \in Sessions /\ q.token \in 0 .. revision
    /\ q.token = revision => q.listed = Listed(q.session)

PageRecords ==
    [at : {"page"}, session : Sessions, listed : Seq(Listable), token : Nat \cup {None},
     read : Nat, entries : Seq(Listable), seen : Nat \cup {None}]

ListingAgrees(q) ==
    \/ q.at \in {"idle", "conflict", "not-found"}
    \/ q \in PageRecords /\ PageAgrees(q)
    \/ q.at = "complete" /\ ListAgrees(q)

ReadInv == OutcomesInv /\ PositionsDiffer /\ ListingAgrees(listing)

LEMMA LeastOfTwo ==
    ASSUME NEW a \in Nat, NEW b \in Nat
    PROVE  Min({a, b}) = IF a <= b THEN a ELSE b
<1> DEFINE least == IF a <= b THEN a ELSE b
<1>1. least \in {a, b} /\ \A y \in {a, b} : least <= y
  OBVIOUS
<1>2. \A x \in {a, b} : (\A y \in {a, b} : x <= y) => x = least
  OBVIOUS
<1> HIDE DEF least
<1>3. Min({a, b}) \in {a, b} /\ \A y \in {a, b} : Min({a, b}) <= y
  BY <1>1 DEF Min
<1>4. Min({a, b}) = least
  BY <1>2, <1>3
<1> QED
  BY <1>4 DEF least

\* One statement's rows of a list.
LEMMA PartOf ==
    ASSUME NEW S, NEW all \in Seq(S), NEW o \in Nat, NEW k \in Nat, k <= Len(all)
    PROVE  /\ SubSeq(all, o + 1, k) \in Seq(S)
           /\ Len(SubSeq(all, o + 1, k)) = IF o < k THEN k - o ELSE 0
           /\ \A n \in 1 .. k - o : SubSeq(all, o + 1, k)[n] = all[o + n]
<1> DEFINE m == o + 1
           page == SubSeq(all, m, k)
<1>1. m \in Int /\ k \in Int /\ \A i \in m .. k : all[i] \in S
  OBVIOUS
<1>2. /\ page \in Seq(S) /\ Len(page) = IF m <= k THEN k - m + 1 ELSE 0
      /\ \A i \in 1 .. k - m + 1 : page[i] = all[m + i - 1]
  <2> HIDE DEF m
  <2> QED
    BY ONLY <1>1, SubSeqProperties DEF page
<1>3. /\ (m <= k) = (o < k) /\ k - m + 1 = k - o
      /\ \A n \in 1 .. k - o : m + n - 1 = o + n
  OBVIOUS
<1> HIDE DEF page
<1>4. Len(page) = IF o < k THEN k - o ELSE 0
  BY <1>2, <1>3
<1>5. ASSUME NEW n \in 1 .. k - o PROVE page[n] = all[o + n]
  BY <1>2, <1>3
<1> QED
  BY <1>2, <1>4, <1>5 DEF page

LEMMA StatementReads ==
    ASSUME StoreInv, PositionsDiffer, NEW s \in Sessions, NEW o \in Nat, NEW size \in Nat
    PROVE  LET found == Statement(s, o, size)
               left == IF o < Len(Listed(s)) THEN Len(Listed(s)) - o ELSE 0
           IN  /\ found \in Seq(Listable)
               /\ Len(found) = IF size <= left THEN size ELSE left
               /\ \A n \in 1 .. Len(found) : found[n] = Listed(s)[o + n]
<1> DEFINE whole == Listed(s)
           N == Len(whole)
           top == o + size
           k == Min({top, N})
           found == SubSeq(whole, o + 1, k)
<1>1. whole \in Seq(Listable) /\ N \in Nat /\ top \in Nat
  BY ListedFacts
<1>2. k = IF top <= N THEN top ELSE N
  <2> HIDE DEF top, N
  <2> QED
    BY <1>1, LeastOfTwo
<1>3. N = Len(whole) /\ top = o + size /\ Statement(s, o, size) = found
  BY DEF Statement
<1> HIDE DEF k, N, top, whole
<1>4. k \in Nat /\ k <= Len(whole)
  BY <1>1, <1>2, <1>3
<1>5. /\ found \in Seq(Listable) /\ Len(found) = (IF o < k THEN k - o ELSE 0)
      /\ \A n \in 1 .. k - o : found[n] = whole[o + n]
  BY <1>1, <1>4, PartOf
<1> HIDE DEF found
<1>6. Len(found) = LET left == IF o < N THEN N - o ELSE 0 IN IF size <= left THEN size ELSE left
  BY <1>1, <1>2, <1>3, <1>5
<1>7. \A n \in 1 .. Len(found) : n \in 1 .. k - o
  BY <1>4, <1>5
<1> QED
  BY <1>3, <1>5, <1>6, <1>7 DEF whole

\* Rows that follow what begins a list continue it.
LEMMA BeginsMore ==
    ASSUME NEW S, NEW list \in Seq(S), NEW items \in Seq(S), NEW more \in Seq(S),
           Begins(items, list), Len(items) + Len(more) <= Len(list),
           \A n \in 1 .. Len(more) : more[n] = list[Len(items) + n]
    PROVE  Begins(items \o more, list) /\ Len(items \o more) = Len(items) + Len(more)
<1> DEFINE j == items \o more
           a == Len(items)
           b == Len(more)
<1>1. /\ j \in Seq(S) /\ Len(j) = a + b
      /\ \A n \in 1 .. a + b : j[n] = IF n <= a THEN items[n] ELSE more[n - a]
  BY ConcatProperties
<1>2. a \in Nat /\ b \in Nat /\ a + b <= Len(list)
  OBVIOUS
<1>3. /\ \A n \in 1 .. a : items[n] = list[n]
      /\ \A n \in 1 .. b : more[n] = list[a + n]
  BY DEF Begins
<1> HIDE DEF j, a, b
<1>4. ASSUME NEW n \in 1 .. a + b PROVE j[n] = list[n]
  <2>1. CASE n <= a
    <3>1. n \in 1 .. a
      BY <1>2, <2>1
    <3> QED
      BY <1>1, <1>3, <2>1, <3>1
  <2>2. CASE ~(n <= a)
    <3>1. n - a \in 1 .. b /\ a + (n - a) = n
      BY <1>2, <2>2
    <3> QED
      BY <1>1, <1>3, <2>2, <3>1
  <2> QED
    BY <2>1, <2>2
<1> QED
  BY <1>1, <1>2, <1>4 DEF Begins, j, a, b

\* The first rows of what continues a list continue it.
LEMMA BeginsFirst ==
    ASSUME NEW S, NEW list \in Seq(S), NEW items \in Seq(S), NEW more \in Seq(S), NEW k \in Nat,
           Begins(items \o more, list), k <= Len(more)
    PROVE  /\ SubSeq(more, 1, k) \in Seq(S)
           /\ items \o SubSeq(more, 1, k) \in Seq(S)
           /\ Begins(items \o SubSeq(more, 1, k), list)
<1> DEFINE part == SubSeq(more, 0 + 1, k)
           j == items \o more
<1>1. /\ part \in Seq(S) /\ Len(part) = (IF 0 < k THEN k - 0 ELSE 0)
      /\ \A n \in 1 .. k - 0 : part[n] = more[0 + n]
  BY PartOf
<1>2. /\ j \in Seq(S) /\ Len(j) = Len(items) + Len(more)
      /\ \A n \in 1 .. Len(items) + Len(more) :
            j[n] = IF n <= Len(items) THEN items[n] ELSE more[n - Len(items)]
  BY ConcatProperties
<1>3. Len(part) = k /\ \A n \in 1 .. k : part[n] = more[n]
  BY <1>1
<1>4. part = SubSeq(more, 1, k)
  OBVIOUS
<1>5. Len(j) <= Len(list) /\ \A n \in 1 .. Len(j) : j[n] = list[n]
  BY DEF Begins
<1> HIDE DEF part, j
<1>6. Begins(items, list)
  <2>1. \A n \in 1 .. Len(items) : n \in 1 .. Len(items) + Len(more) /\ n <= Len(items)
    OBVIOUS
  <2>2. \A n \in 1 .. Len(items) : items[n] = list[n]
    BY <1>2, <1>5, <2>1
  <2> QED
    BY <1>2, <1>5, <2>2 DEF Begins
<1>7. \A n \in 1 .. k : part[n] = list[Len(items) + n]
  <2> SUFFICES ASSUME NEW n \in 1 .. k PROVE part[n] = list[Len(items) + n]
    OBVIOUS
  <2>1. /\ Len(items) + n \in 1 .. Len(items) + Len(more) /\ ~(Len(items) + n <= Len(items))
        /\ Len(items) + n - Len(items) = n
    OBVIOUS
  <2> QED
    BY <1>2, <1>3, <1>5, <2>1
<1>8. Len(items) + Len(part) <= Len(list)
  BY <1>2, <1>3, <1>5
<1>9. Begins(items \o part, list)
  BY <1>1, <1>3, <1>6, <1>7, <1>8, BeginsMore
<1> QED
  BY <1>1, <1>4, <1>9, ConcatProperties

LEMMA BeginsAll ==
    ASSUME NEW S, NEW list \in Seq(S), NEW items \in Seq(S), Begins(items, list),
           Len(items) = Len(list)
    PROVE  items = list
BY SeqEqual DEF Begins

LEMMA ListedKept == ASSUME UNCHANGED entry, NEW s PROVE Listed(s)' = Listed(s)
<1>1. PendingOf(s)' = PendingOf(s)
  BY DEF PendingOf, EntriesOf
<1>2. \A e : RowNumber(s, e)' = RowNumber(s, e)
  BY <1>1 DEF RowNumber
<1> QED
  BY <1>1, <1>2 DEF Listed

\* A page that starts where its list begins, at this revision or at none.
LEMMA ContinuedAgrees ==
    ASSUME revision \in Nat, NEW s \in Sessions, NEW l \in Seq(Listable),
           NEW t \in (0 .. revision) \cup {None},
           t = None => l = <<>>, t = revision => Begins(l, Listed(s))
    PROVE  Continued(s, l, t) \in PageRecords /\ PageAgrees(Continued(s, l, t))
<1>1. PageSize \in Nat /\ None \notin Nat
  BY ReadAssumption
<1>2. t \in Nat \cup {None} /\ <<>> \in Seq(Listable)
  OBVIOUS
<1>3. Continued(s, l, t) \in PageRecords
  BY <1>2 DEF Continued, PageRecords
<1> QED
  BY <1>1, <1>3 DEF Continued, PageAgrees

LEMMA Rejoined ==
    ASSUME NEW a \in Seq(Listable), NEW b \in Seq(Listable), NEW c \in Seq(Listable)
    PROVE  (a \o b) \o c = a \o (b \o c)
BY ConcatAssociative

\* How many rows a list has from some place.
From(list, o) == IF o < Len(list) THEN Len(list) - o ELSE 0

LEMMA JoinsPage ==
    ASSUME revision \in Nat, NEW q \in PageRecords, PageAgrees(q), ~Changed(q.seen),
           NEW whole \in Seq(Listable), whole = Listed(q.session),
           NEW size \in Nat \ {0}, q.read + size <= Limit, NEW found \in Seq(Listable),
           Len(found) = IF size <= From(whole, Len(q.listed) + q.read) THEN size
                        ELSE From(whole, Len(q.listed) + q.read),
           \A n \in 1 .. Len(found) : found[n] = whole[Len(q.listed) + q.read + n],
           NEW page \in PageRecords,
           page.session = q.session, page.listed = q.listed, page.token = q.token,
           page.read = q.read + size, page.entries = q.entries \o found, page.seen = revision
    PROVE  ListingAgrees(IF Len(found) < size \/ page.read = Limit THEN Paginated(page) ELSE page)
<1> DEFINE N == Len(whole)
           o == Len(q.listed) + q.read
           left == From(whole, o)
<1>1. /\ PageSize \in Nat \ {0} /\ None \notin Nat /\ Limit = PageSize + 1 /\ revision \in Nat
  BY ReadAssumption DEF Limit
<1>2. /\ q.session \in Sessions /\ q.listed \in Seq(Listable) /\ q.entries \in Seq(Listable)
      /\ q.read \in Nat /\ q.token \in Nat \cup {None}
  BY DEF PageRecords
<1>3. q.read \in 0 .. PageSize
  BY DEF PageAgrees
<1>4. size \in Nat \ {0} /\ q.read + size \in Nat /\ q.read + size <= Limit
  BY <1>2
<1>5. whole \in Seq(Listable) /\ N \in Nat
  OBVIOUS
<1>6. /\ o \in Nat /\ o = Len(q.listed) + q.read /\ N = Len(whole)
      /\ left = IF o < N THEN N - o ELSE 0
  BY <1>2 DEF From
<1>7. /\ found \in Seq(Listable) /\ Len(found) = IF size <= left THEN size ELSE left
      /\ \A n \in 1 .. Len(found) : found[n] = whole[o + n]
  OBVIOUS
<1> DEFINE es == q.entries \o found
           n == q.read + size
<1> HIDE DEF N, o, left
<1>8. /\ es \in Seq(Listable) /\ Len(es) = Len(q.entries) + Len(found)
      /\ es = q.entries \o found /\ n = q.read + size /\ n \in Nat
  BY <1>2, <1>4, <1>7, ConcatProperties
<1>9. /\ page \in PageRecords
      /\ page.session = q.session /\ page.listed = q.listed /\ page.token = q.token
      /\ page.read = n /\ page.entries = es /\ page.seen = revision
  OBVIOUS
<1> HIDE DEF es, n
\* What this statement read continues the list, at this revision.
<1>10. ASSUME q.token \in {None, revision}
       PROVE  /\ Begins(q.listed \o es, whole)
              /\ Len(q.listed \o es) = o + Len(found)
              /\ Len(q.entries) = q.read /\ o <= N
  <2>1. Begins(q.listed, whole)
    <3>1. CASE q.token = revision
      BY <3>1 DEF PageAgrees
    <3>2. CASE q.token = None
      <4>1. q.listed = <<>>
        BY <3>2 DEF PageAgrees
      <4> QED
        BY <1>5, <4>1 DEF Begins
    <3> QED
      BY <1>10, <3>1, <3>2
  <2>2. Begins(q.listed \o q.entries, whole) /\ Len(q.entries) = q.read
    <3>1. CASE q.seen = None
      <4>1. q.entries = <<>> /\ q.read = 0
        BY <3>1 DEF PageAgrees
      <4>2. q.listed \o q.entries = q.listed
        BY <1>2, <4>1, ConcatEmptySeq
      <4> QED
        BY <2>1, <4>1, <4>2
    <3>2. CASE q.seen # None
      BY <1>10, <3>2 DEF PageAgrees, Changed
    <3> QED
      BY <3>1, <3>2
  <2> DEFINE before == q.listed \o q.entries
  <2>3. before \in Seq(Listable) /\ Len(before) = o
    <3>1. before \in Seq(Listable) /\ Len(before) = Len(q.listed) + Len(q.entries)
      BY <1>2, ConcatProperties
    <3> HIDE DEF before
    <3> QED
      BY <1>6, <2>2, <3>1
  <2>4. before \o found = q.listed \o es
    <3>1. before \o found = q.listed \o (q.entries \o found)
      BY <1>2, Rejoined
    <3> QED
      BY <1>8, <3>1
  <2>5. Begins(before, whole)
    BY <2>2
  <2> HIDE DEF before
  <2>6. o <= N
    BY <1>6, <2>3, <2>5 DEF Begins
  <2>7. Len(found) \in Nat /\ o + Len(found) <= N
    BY <1>4, <1>5, <1>6, <1>7, <2>6
  <2>8. Begins(before \o found, whole) /\ Len(before \o found) = o + Len(found)
    <3>1. Len(before) + Len(found) <= Len(whole)
      BY <1>6, <2>3, <2>7
    <3>2. \A i \in 1 .. Len(found) : found[i] = whole[Len(before) + i]
      BY <1>7, <2>3
    <3>3. Begins(before \o found, whole) /\ Len(before \o found) = Len(before) + Len(found)
      BY <1>5, <1>7, <2>3, <2>5, <3>1, <3>2, BeginsMore
    <3> QED
      BY <2>3, <3>3
  <2> QED
    BY <2>2, <2>4, <2>6, <2>8
<1>11. CASE ~(Len(found) < size \/ page.read = Limit)
  <2>1. Len(found) = size /\ n \in 0 .. PageSize
    <3>1. Len(found) \in Nat /\ Len(found) <= size
      BY <1>4, <1>5, <1>6, <1>7
    <3>2. n # Limit /\ Len(found) = size
      BY <1>4, <1>9, <1>11, <3>1
    <3> QED
      BY <1>1, <1>4, <1>8, <3>2
  <2>2. /\ q.token \in (0 .. revision) \cup {None} /\ q.token = None => q.listed = <<>>
        /\ q.token = revision => Begins(q.listed, whole)
    BY DEF PageAgrees
  <2>3. q.token \in {None, revision} => Begins(q.listed \o es, whole) /\ Len(es) = n
    BY <1>8, <1>10, <2>1
  <2>4. revision # None /\ revision \in 0 .. revision
    BY <1>1
  <2>5. PageAgrees(page)
    BY <1>9, <2>1, <2>2, <2>3, <2>4 DEF PageAgrees
  <2> QED
    BY <1>9, <1>11, <2>5 DEF ListingAgrees
<1>12. CASE Len(found) < size \/ page.read = Limit
  <2>1. CASE page.token # None /\ page.token # page.seen
    BY <1>12, <2>1 DEF Paginated, ListingAgrees
  <2>2. CASE ~(page.token # None /\ page.token # page.seen)
    <3>1. q.token \in {None, revision}
      BY <1>9, <2>2
    <3>2. Begins(q.listed \o es, whole) /\ Len(q.listed \o es) = o + Len(found)
          /\ Len(q.entries) = q.read /\ o <= N
      BY <1>10, <3>1
    <3>3. CASE Len(es) > PageSize
      <4> DEFINE l == q.listed \o SubSeq(es, 1, PageSize)
      <4>1. l \in Seq(Listable) /\ Begins(l, whole)
        <5>1. PageSize \in Nat /\ PageSize <= Len(es) /\ es \in Seq(Listable)
          BY <1>1, <1>8, <3>3
        <5> QED
          BY <1>2, <1>5, <3>2, <5>1, BeginsFirst
      <4>2. Paginated(page) = Continued(q.session, l, revision)
        BY <1>9, <2>2, <3>3 DEF Paginated
      <4>3. Continued(q.session, l, revision) \in PageRecords
            /\ PageAgrees(Continued(q.session, l, revision))
        <5> HIDE DEF l
        <5>1. revision \in (0 .. revision) \cup {None} /\ revision # None
          BY <1>1
        <5>2. Begins(l, Listed(q.session))
          BY <4>1
        <5> QED
          BY <1>1, <1>2, <4>1, <5>1, <5>2, ContinuedAgrees
      <4> QED
        BY <1>12, <4>2, <4>3 DEF ListingAgrees
    <3>4. CASE ~(Len(es) > PageSize)
      <4>1. Paginated(page) = [at |-> "complete", session |-> q.session,
                               token |-> revision, listed |-> q.listed \o es]
        BY <1>9, <2>2, <3>4 DEF Paginated
      <4>2. Len(found) < size
        <5>1. Len(found) \in Nat
          BY <1>7
        <5>2. CASE n = Limit
          BY <1>1, <1>2, <1>4, <1>8, <3>2, <3>4, <5>1, <5>2
        <5>3. CASE n # Limit
          BY <1>9, <1>12, <5>3
        <5> QED
          BY <5>2, <5>3
      <4>3. o + Len(found) = N
        BY <1>4, <1>5, <1>6, <1>7, <3>2, <4>2
      <4>4. q.listed \o es \in Seq(Listable)
        BY <1>2, <1>8, ConcatProperties
      <4>5. q.listed \o es = whole
        BY <1>5, <1>6, <3>2, <4>3, <4>4, BeginsAll
      <4>6. revision \in 0 .. revision
        BY <1>1
      <4> QED
        BY <1>2, <1>12, <4>1, <4>5, <4>6 DEF ListingAgrees, ListAgrees
    <3> QED
      BY <3>3, <3>4
  <2> QED
    BY <2>1, <2>2
<1> QED
  BY <1>11, <1>12

LEMMA ReadsPage ==
    ASSUME ReadInv, ReadEntries, listing \in PageRecords, PageAgrees(listing),
           session[listing.session] # None, ~Changed(listing.seen)
    PROVE  ListingAgrees(listing')
<1>1. PICK q \in PageRecords : q = listing
  OBVIOUS
<1>2. PICK size : size = Min({EntriesPerRead, Limit - q.read})
  OBVIOUS
<1>3. PICK found : found = Statement(q.session, Len(q.listed) + q.read, size)
  OBVIOUS
<1>4. PICK page : page = [q EXCEPT !.read = @ + size, !.entries = @ \o found, !.seen = revision]
  OBVIOUS
<1>5. listing' = IF Len(found) < size \/ page.read = Limit THEN Paginated(page) ELSE page
  BY <1>1, <1>2, <1>3, <1>4 DEF ReadEntries
<1>6. /\ PageSize \in Nat \ {0} /\ EntriesPerRead \in Nat \ {0} /\ Limit = PageSize + 1
      /\ revision \in Nat
  BY ReadAssumption, BoundAssumption DEF Limit, ReadInv, OutcomesInv, StoreInv, TypeOK
<1>7. /\ q.session \in Sessions /\ q.listed \in Seq(Listable) /\ q.entries \in Seq(Listable)
      /\ q.read \in Nat
  BY DEF PageRecords
<1>8. q.read \in 0 .. PageSize /\ PageAgrees(q) /\ ~Changed(q.seen)
  BY <1>1 DEF PageAgrees
<1>9. size \in Nat \ {0} /\ q.read + size \in Nat /\ q.read + size <= Limit
  <2>1. Limit - q.read \in Nat \ {0}
    BY <1>6, <1>8
  <2>2. size = IF EntriesPerRead <= Limit - q.read THEN EntriesPerRead ELSE Limit - q.read
    BY <1>2, <1>6, <2>1, LeastOfTwo
  <2> QED
    BY <1>6, <1>7, <2>1, <2>2
<1>10. PICK whole : whole = Listed(q.session)
  OBVIOUS
<1>11. whole \in Seq(Listable) /\ StoreInv /\ PositionsDiffer
  BY <1>7, <1>10, ListedFacts DEF ReadInv, OutcomesInv
<1>12. PICK o \in Nat : o = Len(q.listed) + q.read
  BY <1>7
<1>13. /\ found \in Seq(Listable)
       /\ Len(found) = IF size <= From(whole, o) THEN size ELSE From(whole, o)
       /\ \A n \in 1 .. Len(found) : found[n] = whole[o + n]
  <2>1. found = Statement(q.session, o, size) /\ size \in Nat
    BY <1>3, <1>9, <1>12
  <2>2. LET statement == Statement(q.session, o, size)
            left == IF o < Len(Listed(q.session)) THEN Len(Listed(q.session)) - o ELSE 0
        IN  /\ statement \in Seq(Listable)
            /\ Len(statement) = IF size <= left THEN size ELSE left
            /\ \A n \in 1 .. Len(statement) : statement[n] = Listed(q.session)[o + n]
    BY <1>7, <1>11, <2>1, StatementReads
  <2> QED
    BY <1>10, <2>1, <2>2 DEF From
<1>14. /\ page \in PageRecords
       /\ page.session = q.session /\ page.listed = q.listed /\ page.token = q.token
       /\ page.read = q.read + size /\ page.entries = q.entries \o found /\ page.seen = revision
  <2>1. PICK n \in Nat : n = q.read + size
    BY <1>9
  <2>2. q.entries \o found \in Seq(Listable)
    BY <1>7, <1>13, ConcatProperties
  <2>3. PICK es \in Seq(Listable) : es = q.entries \o found
    BY <2>2
  <2>4. PICK rv \in Nat : rv = revision
    BY <1>6
  <2>5. page = [q EXCEPT !.read = n, !.entries = es, !.seen = rv]
    BY <1>4, <2>1, <2>3, <2>4
  <2>6. /\ page \in PageRecords
        /\ page.session = q.session /\ page.listed = q.listed /\ page.token = q.token
        /\ page.read = n /\ page.entries = es /\ page.seen = rv
    BY <2>5 DEF PageRecords
  <2> QED
    BY <2>1, <2>3, <2>4, <2>6
<1>15. ListingAgrees(IF Len(found) < size \/ page.read = Limit THEN Paginated(page) ELSE page)
  <2>1. PICK fs \in Seq(Listable) : fs = found
    BY <1>13
  <2>2. PICK p \in PageRecords : p = page
    BY <1>14
  <2>3. PICK n \in Nat \ {0} : n = size
    BY <1>9
  <2>4. PICK all \in Seq(Listable) : all = whole
    BY <1>11
  <2>5. /\ revision \in Nat /\ PageAgrees(q) /\ ~Changed(q.seen) /\ all = Listed(q.session)
        /\ q.read + n <= Limit
        /\ Len(fs) = IF n <= From(all, Len(q.listed) + q.read) THEN n
                     ELSE From(all, Len(q.listed) + q.read)
        /\ \A i \in 1 .. Len(fs) : fs[i] = all[Len(q.listed) + q.read + i]
        /\ p.session = q.session /\ p.listed = q.listed /\ p.token = q.token
        /\ p.read = q.read + n /\ p.entries = q.entries \o fs /\ p.seen = revision
    BY <1>6, <1>8, <1>9, <1>10, <1>12, <1>13, <1>14, <2>1, <2>2, <2>3, <2>4
  <2>6. ListingAgrees(IF Len(fs) < n \/ p.read = Limit THEN Paginated(p) ELSE p)
    BY ONLY <2>5, JoinsPage
  <2> QED
    BY <2>1, <2>2, <2>3, <2>6
<1> QED
  BY <1>5, <1>15

\* What a consumer holds agrees while nothing it lists changes.
LEMMA ListingStays ==
    ASSUME UNCHANGED <<entry, revision>>, NEW q, ListingAgrees(q)
    PROVE  ListingAgrees(q)'
<1>1. \A s : Listed(s)' = Listed(s)
  BY ListedKept
<1> QED
  BY <1>1 DEF ListingAgrees, PageAgrees, ListAgrees

\* A change publishes another revision than the ones a consumer carries.
LEMMA ListingAges ==
    ASSUME revision \in Nat, revision' = revision + 1, NEW q, ListingAgrees(q)
    PROVE  ListingAgrees(q)'
<1>1. None \notin Nat
  BY ReadAssumption
<1>2. \A t \in (0 .. revision) \cup {None} : t \in (0 .. revision') \cup {None} /\ t # revision'
  BY <1>1
<1>3. \A t \in 0 .. revision : t \in 0 .. revision' /\ t # revision'
  OBVIOUS
<1>4. CASE q \in PageRecords /\ PageAgrees(q)
  BY <1>2, <1>4 DEF ListingAgrees, PageAgrees
<1>5. CASE q.at = "complete" /\ ListAgrees(q)
  BY <1>3, <1>5 DEF ListingAgrees, ListAgrees
<1> QED
  BY <1>4, <1>5 DEF ListingAgrees

LEMMA NextReadInv == ReadInv /\ [ReadNext]_readVars => ReadInv'
<1> SUFFICES ASSUME ReadInv, [ReadNext]_readVars PROVE ReadInv'
  OBVIOUS
<1>1. revision \in Nat
  BY BoundAssumption DEF ReadInv, OutcomesInv, StoreInv, TypeOK
<1>2. [Next]_vars
  BY DEF ReadNext, readVars, Start, ReadEntries
<1>3. OutcomesInv' /\ PositionsDiffer'
  <2>1. CASE Next
    BY <2>1, NextOutcomesInv, PositionsKept DEF ReadInv, OutcomesInv
  <2>2. CASE UNCHANGED vars
    BY <2>2, NextOutcomesInv DEF ReadInv, PositionsDiffer, vars
  <2> QED
    BY <1>2, <2>1, <2>2
<1>4. UNCHANGED <<entry, revision>> \/ revision' = revision + 1
  BY <1>2, StepPublishes DEF ReadInv, OutcomesInv, Publishes, vars
<1>5. CASE UNCHANGED listing
  <2>1. ListingAgrees(listing)'
    <3>1. PICK q : q = listing
      OBVIOUS
    <3>2. ListingAgrees(q)'
      BY <1>1, <1>4, <3>1, ListingStays, ListingAges DEF ReadInv
    <3> QED
      BY <1>5, <3>1, <3>2
  <2> QED
    BY <1>3, <2>1 DEF ReadInv
<1>6. ASSUME UNCHANGED vars, ListingAgrees(listing') PROVE ReadInv'
  <2>1. PICK q : q = listing'
    OBVIOUS
  <2>2. ListingAgrees(q)'
    BY <1>6, <2>1, ListingStays DEF vars
  <2> QED
    BY <1>3, <2>1, <2>2 DEF ReadInv
<1>7. ASSUME NEW s \in Sessions, Start(s) PROVE ReadInv'
  <2>1. <<>> \in Seq(Listable)
    OBVIOUS
  <2>2. Continued(s, <<>>, None) \in PageRecords /\ PageAgrees(Continued(s, <<>>, None))
    BY <1>1, <2>1, ReadAssumption, ContinuedAgrees
  <2>3. ListingAgrees(Continued(s, <<>>, None))
    BY <2>2 DEF ListingAgrees
  <2> QED
    BY <1>6, <1>7, <2>3 DEF Start
<1>8. CASE ReadEntries
  <2>1. listing.at = "page" /\ UNCHANGED vars
    BY <1>8 DEF ReadEntries
  <2>2. listing \in PageRecords /\ PageAgrees(listing)
    BY <2>1 DEF ReadInv, ListingAgrees
  <2>3. CASE session[listing.session] = None
    BY <1>6, <1>8, <2>1, <2>3 DEF ReadEntries, ListingAgrees
  <2>4. CASE session[listing.session] # None /\ Changed(listing.seen)
    BY <1>6, <1>8, <2>1, <2>4 DEF ReadEntries, ListingAgrees
  <2>5. CASE session[listing.session] # None /\ ~Changed(listing.seen)
    BY <1>6, <1>8, <2>1, <2>2, <2>5, ReadsPage
  <2> QED
    BY <2>3, <2>4, <2>5
<1> QED
  BY <1>5, <1>7, <1>8 DEF ReadNext, readVars

\* A consumer's pages are the list's first ones, at the revision it carries
\* (listImportEntries in import-reads.ts).
THEOREM ReadsInductive == ReadSpec => []ReadInv
<1>1. ReadInit => ReadInv
  <2>1. Init => OutcomesInv /\ PositionsDiffer
    BY InitOutcomesInv DEF Init, InitState, PositionsDiffer
  <2>2. listing = NotReading => ListingAgrees(listing)
    BY DEF NotReading, ListingAgrees
  <2> QED
    BY <2>1, <2>2 DEF ReadInit, ReadInv
<1> QED
  BY <1>1, NextReadInv, PTL DEF ReadSpec

\* The pages a consumer joined, each read by several statements beside the
\* changes of the import, are the import as it is, while the account's
\* revision is the one they carry.
THEOREM ListsOneState == ReadSpec => []ListedOneState
<1>1. ReadInv => ListedOneState
  <2> SUFFICES ASSUME ReadInv, listing.at \in {"page", "complete"}, listing.token = revision
               PROVE  /\ IsPrefix(listing.listed, Listed(listing.session))
                      /\ listing.at = "complete" => listing.listed = Listed(listing.session)
    BY DEF ListedOneState
  <2> DEFINE l == listing.listed
             whole == Listed(listing.session)
  <2>1. listing.session \in Sessions
    BY DEF ReadInv, ListingAgrees, PageRecords, ListAgrees
  <2>2. whole \in Seq(Listable)
    BY <2>1, ListedFacts DEF ReadInv, OutcomesInv
  <2>3. CASE listing.at = "complete"
    <3>1. l = whole
      BY <2>3 DEF ReadInv, ListingAgrees, ListAgrees, PageRecords
    <3> QED
      BY <2>2, <3>1 DEF IsPrefix
  <2>4. CASE listing.at = "page"
    <3>1. l \in Seq(Listable) /\ Begins(l, whole)
      BY <2>4 DEF ReadInv, ListingAgrees, PageAgrees, PageRecords
    <3> HIDE DEF l, whole
    <3>2. PICK k \in Nat : k = Len(l)
      BY <3>1
    <3> DEFINE part == SubSeq(whole, 0 + 1, k)
    <3>3. k <= Len(whole) /\ \A n \in 1 .. k : l[n] = whole[n]
      BY <3>1, <3>2 DEF Begins
    <3>4. /\ part \in Seq(Listable) /\ Len(part) = (IF 0 < k THEN k - 0 ELSE 0)
          /\ \A n \in 1 .. k - 0 : part[n] = whole[0 + n]
      BY <2>2, <3>3, PartOf
    <3>5. Len(part) = Len(l) /\ \A n \in 1 .. Len(l) : part[n] = l[n]
      BY <3>2, <3>3, <3>4
    <3>6. part = SubSeq(whole, 1, Len(l))
      BY <3>2
    <3> HIDE DEF part
    <3>7. part = l
      BY <3>1, <3>4, <3>5, SeqEqual
    <3>8. SubSeq(l, 1, Len(l)) = l
      BY <3>1, SubSeqFull
    <3>9. IsPrefix(l, whole)
      BY <3>2, <3>3, <3>6, <3>7, <3>8 DEF IsPrefix
    <3> QED
      BY <2>4, <3>9 DEF l, whole
  <2> QED
    BY <2>3, <2>4
<1> QED
  BY <1>1, ReadsInductive, PTL
=============================================================================
