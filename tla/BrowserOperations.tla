-------------------------- MODULE BrowserOperations --------------------------
(***************************************************************************)
(* The browser operation facade of UserCards                               *)
(* (src/usercards/internal/browser/operations.ts): the attempts of one     *)
(* account, in the page that presents it, in the browsing session's        *)
(* storage and at the server.  A request keeps travelling after its caller *)
(* gave it up or its page closed, and may be served then.                  *)
(***************************************************************************)
EXTENDS Integers, FiniteSets, FiniteSetsExt

CONSTANTS
    None,           \* null, or an attempt that does not exist
    Requests,       \* what a consumer may submit: [kind, key, input]
    MaxAttempts,    \* bound on the attempts composed, reattached ones included
    MaxEpochs       \* bound on the times the account signs in

Kinds == {"confirm", "stage", "source", "change", "create", "discard"}

\* The operations whose unfinished attempts survive a reload.
RetainedKinds == {"confirm", "stage", "source"}

Serials == 1 .. MaxAttempts
Established == {"committed", "rejected"}
Outcomes == Established \cup {"pending", "unknown"}

ASSUME RequestAssumption ==
    /\ \A r \in Requests : DOMAIN r = {"kind", "key", "input"} /\ r.kind \in Kinds
    /\ {MaxAttempts, MaxEpochs} \subseteq Nat

VARIABLES
    attempt,    \* the handles of this page: [Serials -> attempts or None]
    begun,      \* how many attempts were composed
    retained,   \* the scope's `attempts`: unfinished ones that can be resumed
    epoch,      \* the scope being served; an earlier one was released
    stored,     \* the account's record in the browsing session's storage
    refusing,   \* whether that storage may refuse a write
    late,       \* requests whose caller is gone, still on their way
    applied,    \* what the server did: [id, input, kind, by]
    closed      \* requests reported as established, or explicitly abandoned

vars == <<attempt, begun, retained, epoch, stored, refusing, late, applied, closed>>

\* `phase` is what the attempt's in-flight slot runs, `reply` what its call
\* brought back, and `answers` the inputs whose submitters hold this handle.
Attempts ==
    [kind : Kinds, key : {r.key : r \in Requests} \cup Serials,
     input : {r.input : r \in Requests} \cup {None}, op : Serials, epoch : 0 .. MaxEpochs,
     outcome : Outcomes, uncertain : BOOLEAN, disposed : BOOLEAN,
     phase : {"idle", "write", "verify", "recover"},
     reply : {None, "ok", "refused", "failed", "recorded", "absent"},
     answers : SUBSET ({r.input : r \in Requests} \cup {None})]

ASSUME AttemptAssumption == None \notin Attempts \cup {"ok", "refused", "failed", "recorded", "absent"}

\* The identity the server knows a request by.  A source import and a
\* confirmation carry the facade's; staging and revisions name their records.
ServerId(a) == IF a.kind \in {"confirm", "source", "create"} THEN a.op ELSE a.key

Message(h, a) == [id |-> ServerId(a), input |-> a.input, kind |-> a.kind, by |-> h]

Begun == {h \in Serials : attempt[h] # None}
Travelling(a) == a.phase = "write" /\ a.reply = None

\* An attempt of a live scope that was not disposed.
Live(a) == a.epoch = epoch /\ ~a.disposed

--------
(* The scope's records.                                                    *)

StoredRecord(a) == [kind |-> a.kind, key |-> a.key, input |-> a.input, op |-> a.op]

\* Slip: only an attempt that failed is kept.
KeepSlip(attempts, handles) ==
    stored' = {StoredRecord(attempts[h]) : h \in {h \in handles : attempts[h].uncertain}}

\* writeStoredAttempts: every retained attempt, unless storage refuses.
Keep(attempts, handles) ==
    \/ stored' = {StoredRecord(attempts[h]) : h \in handles}
    \/ refusing /\ UNCHANGED stored

Closing(handles) == {[id |-> ServerId(attempt[h]), input |-> attempt[h].input] : h \in handles}

NewAttempt(r, op) ==
    [kind |-> r.kind, key |-> r.key, input |-> r.input, op |-> op, epoch |-> epoch,
     outcome |-> "pending", uncertain |-> FALSE, disposed |-> FALSE,
     phase |-> "write", reply |-> None, answers |-> {r.input}]

\* tracked, mode begin or transient: kept, then dispatched in the same step.
Begin(r, op) ==
    /\ begun < MaxAttempts
    /\ begun' = begun + 1
    /\ attempt' = [attempt EXCEPT ![begun + 1] = NewAttempt(r, op)]
    /\ IF r.kind \in RetainedKinds
       THEN /\ retained' = retained \cup {begun + 1}
            /\ Keep(attempt', retained')
       ELSE UNCHANGED <<retained, stored>>
    /\ UNCHANGED <<epoch, refusing, late, applied, closed>>

\* Slip: a disposed attempt can still take the slot.
MayRunSlip(a) ==
    a.epoch = epoch /\ a.outcome \notin Established /\ a.phase = "idle"

\* runExclusive: the scope is live, nothing is established and no other
\* write or recorded read of this attempt is in flight.
MayRun(a) ==
    Live(a) /\ a.outcome \notin Established /\ a.phase = "idle"

Run(a, phase) == [a EXCEPT !.outcome = "pending", !.phase = phase]

\* A caller that finds the slot taken observes what is already running.
Dispatched(a) == IF MayRun(a) THEN Run(a, "write") ELSE a

--------
(* Submissions.                                                            *)

\* A retained attempt of one identity is resumed by its own input only; any
\* other input under it is refused without a dispatch.
Resumes(h, r) ==
    attempt[h].kind = r.kind /\ attempt[h].key = r.key /\ attempt[h].input = r.input

Resume(h, r) ==
    /\ attempt' = [attempt EXCEPT
           ![h] = [Dispatched(attempt[h]) EXCEPT !.answers = @ \cup {r.input}]]
    /\ UNCHANGED <<begun, retained, epoch, stored, refusing, late, applied, closed>>

\* Slip: a submission looks for an attempt of its own input.
SameIdentitySlip(r) ==
    {h \in retained : attempt[h].kind = r.kind /\ attempt[h].input = r.input}

SameIdentity(r) == {h \in retained : attempt[h].kind = r.kind /\ attempt[h].key = r.key}

\* resumeOrBegin
Submit(r) ==
    /\ r.kind \in {"confirm", "stage"}
    /\ \/ \E h \in SameIdentity(r) : Resumes(h, r) /\ Resume(h, r)
       \/ SameIdentity(r) = {} /\ Begin(r, begun + 1)

BeginSourceImport(r) == r.kind = "source" /\ Begin(r, begun + 1)

\* The imports a visitor may reopen or discard: begun here, or in the account.
KnownImports ==
    {attempt[h].op : h \in {h \in Begun : attempt[h].kind = "source"}}
      \cup {m.id : m \in {m \in applied : m.kind = "source"}}

ReopenSourceImport(r, op) ==
    /\ r.kind = "source" /\ op \in KnownImports
    /\ LET same == {h \in retained : attempt[h].kind = "source" /\ attempt[h].op = op}
       IN  \/ \E h \in same : attempt[h].input = r.input /\ Resume(h, r)
           \/ same = {} /\ Begin(r, op)

\* A revision-bound change and a creation are transient: nothing is retained.
Change(r) == r.kind \in {"change", "create"} /\ Begin(r, begun + 1)

DiscardImportSession(op) ==
    /\ op \in KnownImports
    /\ Begin([kind |-> "discard", key |-> op, input |-> None], begun + 1)

\* The provider gives each creation a fresh identity, so none is repeated.
Retries(a) == a.kind # "create"

Retry(h) ==
    /\ h \in Begun /\ MayRun(attempt[h]) /\ Retries(attempt[h])
    /\ attempt' = [attempt EXCEPT ![h] = Run(@, "write")]
    /\ UNCHANGED <<begun, retained, epoch, stored, refusing, late, applied, closed>>

\* A confirmation reads its receipt; staging is replayed; the rest is left
\* to the consumer's own reads.
Recover(h) ==
    /\ h \in Begun /\ MayRun(attempt[h]) /\ attempt[h].kind \in RetainedKinds
    /\ attempt' = [attempt EXCEPT
           ![h] = Run(@, IF @.kind = "confirm" THEN "recover" ELSE "write")]
    /\ UNCHANGED <<begun, retained, epoch, stored, refusing, late, applied, closed>>

--------
(* The server and the transport.                                           *)

Known(m) == \E a \in applied : a.id = m.id /\ a.input = m.input /\ a.kind = m.kind
Conflicts(m) ==
    /\ m.kind \in {"confirm", "stage"}
    /\ \E a \in applied : a.id = m.id /\ a.kind = m.kind /\ a.input # m.input

\* A retained operation replays what it recorded; a change quotes a revision
\* that its first application moved.
Serves(m) == ~Conflicts(m) /\ (Known(m) => m.kind \in RetainedKinds)

Apply(m) == applied' = IF Known(m) THEN applied ELSE applied \cup {m}

\* The server handles a write: it applies it, refuses it or fails.
Serve(h) ==
    LET m == Message(h, attempt[h])
    IN  /\ h \in Begun /\ Travelling(attempt[h])
        /\ \/ /\ Serves(m) /\ Apply(m)
              /\ attempt' = [attempt EXCEPT ![h].reply = "ok"]
           \/ \E reply \in {"refused", "failed"} :
                 attempt' = [attempt EXCEPT ![h].reply = reply] /\ UNCHANGED applied
        /\ UNCHANGED <<begun, retained, epoch, stored, refusing, late, closed>>

\* recoverImportOperation answers from the receipts recorded at that moment.
ServeRead(h) ==
    LET answer == IF Known(Message(h, attempt[h])) THEN "recorded" ELSE "absent"
    IN  /\ h \in Begun
        /\ attempt[h].phase \in {"verify", "recover"} /\ attempt[h].reply = None
        /\ attempt' = [attempt EXCEPT ![h].reply = answer]
        /\ UNCHANGED <<begun, retained, epoch, stored, refusing, late, applied, closed>>

\* The call is cancelled, times out or loses its response; a write that was
\* on its way still is.
Lose(h) ==
    /\ h \in Begun /\ attempt[h].phase # "idle" /\ attempt[h].reply # "failed"
    /\ late' = IF Travelling(attempt[h]) THEN late \cup {Message(h, attempt[h])} ELSE late
    /\ attempt' = [attempt EXCEPT ![h].reply = "failed"]
    /\ UNCHANGED <<begun, retained, epoch, stored, refusing, applied, closed>>

\* A request nobody waits for is served, or never arrives.
ServeLate(m) ==
    /\ m \in late
    /\ late' = late \ {m}
    /\ (Serves(m) /\ Apply(m)) \/ UNCHANGED applied
    /\ UNCHANGED <<attempt, begun, retained, epoch, stored, refusing, closed>>

--------
(* What an attempt makes of its call's answer.                             *)

\* Slip: a call without an answer leaves its attempt waiting.
UnresolvedSlip(a) == [a EXCEPT !.phase = "idle", !.reply = None, !.uncertain = TRUE]

Unresolved(a) ==
    [a EXCEPT !.phase = "idle", !.reply = None, !.uncertain = TRUE, !.outcome = "unknown"]

Establish(a, outcome) ==
    [a EXCEPT !.phase = "idle", !.reply = None, !.uncertain = FALSE, !.outcome = outcome]

Disposed(a) == [a EXCEPT !.disposed = TRUE, !.outcome = "unknown"]

\* forgetSourceImport: what a committed discard of an import abandons.
Abandoned(h) ==
    IF attempt[h].kind = "discard" /\ attempt[h].reply = "ok"
    THEN {g \in retained : attempt[g].kind = "source" /\ attempt[g].op = attempt[h].key}
    ELSE {}

\* established: the attempt leaves what its scope retains.
ReleasedBy(h) == Abandoned(h) \cup {h}

\* A definite refusal establishes nothing about an earlier uncertain dispatch.
Rejects(a) == a.reply = "absent" \/ (a.reply = "refused" /\ ~a.uncertain)

Commits(a) == a.reply \in {"ok", "recorded"}

\* A failed confirmation reads its recorded outcome before it reports.
Verifies(a) == a.kind = "confirm" /\ a.phase = "write"

Hears(a) == ~a.disposed

Answered(h) == h \in Begun /\ attempt[h].reply # None

Settle(h) ==
    LET a == attempt[h]
        dropped == ReleasedBy(h)
    IN  /\ Answered(h) /\ Hears(a) /\ (Commits(a) \/ Rejects(a))
        /\ attempt' = [g \in Serials |->
               IF g = h THEN Establish(a, IF Commits(a) THEN "committed" ELSE "rejected")
               ELSE IF g \in Abandoned(h) THEN Disposed(attempt[g]) ELSE attempt[g]]
        /\ retained' = retained \ dropped
        /\ IF retained' = retained THEN UNCHANGED stored ELSE Keep(attempt', retained')
        /\ closed' = closed \cup Closing(dropped)
        /\ UNCHANGED <<begun, epoch, refusing, late, applied>>

Doubt(h) ==
    LET a == attempt[h]
    IN  /\ Answered(h) /\ Hears(a) /\ ~Commits(a) /\ ~Rejects(a)
        /\ attempt' = [attempt EXCEPT
               ![h] = IF Verifies(a) THEN [a EXCEPT !.phase = "verify", !.reply = None]
                      ELSE Unresolved(a)]
        /\ UNCHANGED <<begun, retained, epoch, stored, refusing, late, applied, closed>>

\* The answer of a disposed attempt is dropped.
Ignore(h) ==
    /\ Answered(h) /\ ~Hears(attempt[h])
    /\ attempt' = [attempt EXCEPT ![h] = [@ EXCEPT !.phase = "idle", !.reply = None]]
    /\ UNCHANGED <<begun, retained, epoch, stored, refusing, late, applied, closed>>

--------
(* The account ends, and the page reloads.                                 *)

\* release: every outstanding handle is fenced; a later access of the account
\* composes a fresh scope.
Release ==
    /\ epoch < MaxEpochs
    /\ epoch' = epoch + 1
    /\ attempt' = [h \in Serials |->
           IF attempt[h] = None \/ attempt[h].outcome \in Established THEN attempt[h]
           ELSE Disposed(attempt[h])]
    /\ retained' = {}
    /\ stored' = {} \/ (refusing /\ UNCHANGED stored)
    /\ closed' = closed \cup Closing(retained)
    /\ UNCHANGED <<begun, refusing, late, applied>>

\* A stored attempt never reported to this page.
Reattached(r) ==
    [kind |-> r.kind, key |-> r.key, input |-> r.input, op |-> r.op, epoch |-> epoch,
     outcome |-> "unknown", uncertain |-> TRUE, disposed |-> FALSE,
     phase |-> "idle", reply |-> None, answers |-> {r.input}]

\* The page closes at any point and the account's scope is composed again.
Reload ==
    LET Serial(r) == begun + Cardinality({q \in stored : q.op <= r.op})
    IN  /\ begun + Cardinality(stored) <= MaxAttempts
        /\ Begun # {}
        /\ begun' = begun + Cardinality(stored)
        /\ retained' = (begun + 1) .. begun'
        /\ attempt' = [h \in Serials |->
               IF h \in retained' THEN Reattached(CHOOSE r \in stored : Serial(r) = h)
               ELSE None]
        /\ late' = late \cup {Message(h, attempt[h]) :
                                h \in {h \in Begun : Travelling(attempt[h])}}
        /\ UNCHANGED <<epoch, stored, refusing, applied, closed>>

--------

Init ==
    /\ attempt = [h \in Serials |-> None]
    /\ begun = 0
    /\ retained = {}
    /\ epoch = 0
    /\ stored = {}
    /\ refusing \in BOOLEAN
    /\ late = {}
    /\ applied = {}
    /\ closed = {}

Consumer ==
    \/ \E r \in Requests :
          \/ Submit(r)
          \/ BeginSourceImport(r)
          \/ \E op \in Serials : ReopenSourceImport(r, op)
          \/ Change(r)
    \/ \E op \in Serials : DiscardImportSession(op)
    \/ \E h \in Serials : Retry(h) \/ Recover(h)

Transport ==
    \/ \E h \in Serials : Serve(h) \/ ServeRead(h) \/ Lose(h)
    \/ \E m \in late : ServeLate(m)

Report == \E h \in Serials : Settle(h) \/ Doubt(h) \/ Ignore(h)

Next == Consumer \/ Transport \/ Report \/ Release \/ Reload

Spec == Init /\ [][Next]_vars

\* A call that was sent is answered or given up, and its promise resumes its
\* attempt: the transport settles every call it started.
FairSpec ==
    /\ Spec
    /\ \A h \in Serials :
         /\ WF_vars(Serve(h) \/ ServeRead(h) \/ Lose(h))
         /\ WF_vars(Settle(h) \/ Doubt(h) \/ Ignore(h))

--------

\* The scope retains exactly its own unfinished attempts of retained kinds.
TypeOK ==
    /\ attempt \in [Serials -> Attempts \cup {None}]
    /\ begun \in 0 .. MaxAttempts
    /\ epoch \in 0 .. MaxEpochs
    /\ retained = {h \in Begun : /\ attempt[h].kind \in RetainedKinds
                                /\ Live(attempt[h])
                                /\ attempt[h].outcome \notin Established}
    /\ \A m \in late \cup applied :
          /\ DOMAIN m = {"id", "input", "kind", "by"}
          /\ m.kind \in Kinds /\ m.by \in 1 .. begun

\* A submission that repeats an unfinished staging or confirmation reaches
\* the operation already begun: the scope never holds two of one identity, and
\* a handle answers for the values its holder presented, since changed input
\* under a retained identity conflicts instead of reporting the older outcome.
OneAttemptPerIdentity ==
    /\ \A g, h \in retained :
          /\ attempt[g].op = attempt[h].op => g = h
          /\ attempt[g].kind = attempt[h].kind /\ attempt[g].kind # "source"
               /\ attempt[g].key = attempt[h].key => g = h
    /\ \A h \in Begun : attempt[h].answers = {attempt[h].input}

\* Work of a retained kind the server did, or may still do, was reported,
\* was abandoned by its owner, or is kept under its identity and input where
\* a reload finds it (storage that accepts what it is given).
UnreportedWorkIsKept ==
    LET travelling == {Message(h, attempt[h]) : h \in {h \in Begun : Travelling(attempt[h])}}
    IN  \A m \in applied \cup late \cup travelling :
            m.kind \in RetainedKinds /\ ~refusing =>
                [id |-> m.id, input |-> m.input] \in
                    closed \cup {[id |-> ServerId(r), input |-> r.input] : r \in stored}

\* A refusal the facade reports as definite is: no dispatch of the rejected
\* attempt took effect or is still on its way, though earlier dispatches may
\* have been lost (confirmations also reject what has no recorded outcome).
RefusedDidNotApply ==
    \A h \in Begun :
        attempt[h].outcome = "rejected" /\ attempt[h].kind # "confirm" =>
            \A m \in applied \cup late : m.by # h

\* What the facade says of every rejected operation, confirmations included:
\* it did not apply, nothing was created.
RejectedDidNotApply ==
    \A h \in Begun :
        attempt[h].outcome = "rejected" => \A m \in applied : m.by # h

\* An outcome once established, and the doubt a disposed attempt was left in,
\* is what its handle reports from then on, whatever answers arrive later.
ReportedOutcomeFinal ==
    [][\A h \in Serials :
          attempt[h] # None /\ attempt'[h] # None
            /\ (attempt[h].outcome \in Established \/ attempt[h].disposed)
              => attempt'[h].outcome = attempt[h].outcome]_vars

\* Nothing of an ended account or a discarded import is sent or read again,
\* by a retry or by the verification of a failure that arrives afterwards, and
\* a creation, which the provider gives a fresh identity, is never sent twice.
Fenced ==
    [][\A h \in Serials :
          attempt[h] # None /\ attempt'[h] # None
            /\ attempt'[h].phase \notin {"idle", attempt[h].phase}
              => Live(attempt[h]) /\ attempt[h].kind # "create"]_vars

\* What is settled is never reopened: a reported outcome stands, and nothing
\* ended, discarded or unrepeatable is sent again.
NeverReopened == ReportedOutcomeFinal /\ Fenced

\* An observer of a pending operation always hears of it.
PendingReports ==
    \A h \in Serials :
        attempt[h] # None /\ attempt[h].outcome = "pending"
            ~> attempt[h] = None \/ attempt[h].outcome # "pending"

\* An identity works at most once: for one holder, and not at all when refused.
AtMostOnce == OneAttemptPerIdentity /\ RefusedDidNotApply
=============================================================================
