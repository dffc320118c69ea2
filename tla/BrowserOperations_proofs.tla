------------------------ MODULE BrowserOperations_proofs ------------------------
(***************************************************************************)
(* What the browser's operation facade promises, for any requests, any     *)
(* number of attempts and any number of sign-ins: work of a retained kind  *)
(* is kept until it is reported, an identity works at most once, and what  *)
(* is settled is never reopened.                                           *)
(*                                                                         *)
(* The argument is about what the page, the browsing session's storage and *)
(* the requests still on their way know of one another: an attempt that is *)
(* not retained was closed (Covered), storage that accepts what it is      *)
(* given holds exactly what is retained (StoredAll), and an attempt that   *)
(* did or may still do something is in doubt until it commits (Doubted).   *)
(***************************************************************************)
EXTENDS BrowserOperations, FiniteSetTheorems, TLAPS

InputKeys == {r.key : r \in Requests} \cup Serials
InputValues == {r.input : r \in Requests} \cup {None}

StoredRows == [kind : RetainedKinds, key : InputKeys, input : InputValues, op : Serials]

Identity(r) == [id |-> ServerId(r), input |-> r.input]

--------
(* The inductive invariant.                                                *)

Types ==
    /\ attempt \in [Serials -> Attempts \cup {None}]
    /\ begun \in 0 .. MaxAttempts /\ epoch \in 0 .. MaxEpochs
    /\ stored \subseteq StoredRows /\ IsFiniteSet(stored)

\* How one attempt's fields go together: what is established or disposed is
\* at rest, and only a confirmation reads its receipt.
Sound(a) ==
    /\ a.op <= begun
    /\ a.answers = {a.input}
    /\ a.disposed => a.outcome = "unknown"
    /\ a.outcome \in Established => a.phase = "idle" /\ a.reply = None /\ ~a.uncertain
    /\ a.outcome \notin Established /\ ~a.disposed => a.epoch = epoch
    /\ a.phase \in {"verify", "recover"} \/ a.reply \in {"absent", "recorded"} =>
          a.kind = "confirm"

AttemptsSound == \A h \in Begun : h <= begun /\ Sound(attempt[h])

IsRetained(a) == a.kind \in RetainedKinds /\ Live(a) /\ a.outcome \notin Established

RetainedAgree == retained = {h \in Begun : IsRetained(attempt[h])}

\* Two records of one operation, or of one identity.
Overlap(a, b) ==
    \/ a.op = b.op
    \/ a.kind = b.kind /\ a.kind # "source" /\ a.key = b.key

RetainedDiffer == \A g, h \in retained : Overlap(attempt[g], attempt[h]) => g = h
StoredDiffer ==
    /\ \A r \in stored : r.op <= begun
    /\ \A q, r \in stored : Overlap(q, r) => q = r

\* The operations an import is known by belong to imports.
ImportOps ==
    {attempt[h].op : h \in {g \in Begun : attempt[g].kind = "source"}}
      \cup {r.op : r \in {q \in stored : q.kind = "source"}}
      \cup {m.id : m \in {n \in applied \cup late : n.kind = "source"}}

ImportsAgree ==
    /\ \A n \in ImportOps : n \in Serials /\ n <= begun
    /\ \A h \in Begun : attempt[h].op \in ImportOps => attempt[h].kind = "source"
    /\ \A r \in stored : r.op \in ImportOps => r.kind = "source"

\* A request comes from an attempt that was begun.
MessagesAgree == \A m \in applied \cup late : m.by \in 1 .. begun

\* An attempt that did something, or whose request still may, knows that it
\* might have.
Doubted ==
    \A h \in Begun : (\E m \in applied \cup late : m.by = h) =>
        \/ attempt[h].kind = "confirm" \/ attempt[h].disposed \/ attempt[h].uncertain
        \/ attempt[h].outcome = "committed" \/ attempt[h].reply \in {"ok", "failed"}

\* Work of a retained kind is retained or was closed.
Covered ==
    \A h \in Begun : attempt[h].kind \in RetainedKinds =>
        h \in retained \/ Identity(attempt[h]) \in closed

StoredAll == ~refusing => stored = {StoredRecord(attempt[h]) : h \in retained}

WorkKept ==
    ~refusing => \A m \in applied \cup late : m.kind \in RetainedKinds =>
        [id |-> m.id, input |-> m.input] \in closed \cup {Identity(r) : r \in stored}

FacadeInv ==
    /\ Types /\ AttemptsSound /\ RetainedAgree /\ RetainedDiffer /\ StoredDiffer
    /\ ImportsAgree /\ MessagesAgree /\ Doubted /\ Covered /\ StoredAll /\ WorkKept

--------
(* What the operations make of an attempt.                                 *)

\* Whether an attempt knows that it may have done something.
InDoubt(a) ==
    \/ a.kind = "confirm" \/ a.disposed \/ a.uncertain
    \/ a.outcome = "committed" \/ a.reply \in {"ok", "failed"}

\* What no step on its way to an outcome changes of an attempt.
SameAttempt(a, b) ==
    /\ b.kind = a.kind /\ b.key = a.key /\ b.input = a.input /\ b.op = a.op
    /\ b.epoch = a.epoch /\ b.disposed = a.disposed /\ b.answers = a.answers

Replies == {None, "ok", "refused", "failed", "recorded", "absent"}

\* An attempt is a record and not None.
LEMMA AttemptIsOne == None \notin Attempts
BY AttemptAssumption

\* A new run of an attempt that may run is an attempt like it.
LEMMA RunAttempt ==
    ASSUME NEW a \in Attempts, Sound(a), MayRun(a),
           NEW phase \in {"write", "recover"}, phase = "recover" => a.kind = "confirm"
    PROVE  /\ Run(a, phase) \in Attempts /\ SameAttempt(a, Run(a, phase))
           /\ Sound(Run(a, phase)) /\ Run(a, phase).outcome = "pending"
           /\ InDoubt(a) => InDoubt(Run(a, phase))
<1> DEFINE b == Run(a, phase)
<1>1. /\ b \in Attempts /\ SameAttempt(a, b)
      /\ b.outcome = "pending" /\ b.phase = phase
      /\ b.uncertain = a.uncertain /\ b.reply = a.reply
  BY DEF Attempts, Run, SameAttempt, Outcomes
<1>2. a.outcome \notin Established /\ ~a.disposed
  BY DEF MayRun, Live
<1>3. Sound(b)
  BY <1>1, <1>2 DEF Sound, SameAttempt, Established
<1>4. InDoubt(a) => InDoubt(b)
  BY <1>1, <1>2 DEF InDoubt, SameAttempt, Established
<1> QED BY <1>1, <1>3, <1>4

Heard(a, phase, reply) == [a EXCEPT !.phase = phase, !.reply = reply]

\* A reply is heard by an attempt on its way.
LEMMA ReplyAttempt ==
    ASSUME NEW a \in Attempts, Sound(a), NEW phase \in {"write", "verify", "recover", "idle"},
           NEW reply \in Replies,
           phase # "idle" => a.phase # "idle",
           phase \in {"verify", "recover"} \/ reply \in {"absent", "recorded"} => a.kind = "confirm",
           a.outcome \in Established => reply = None /\ phase = "idle"
    PROVE  LET b == Heard(a, phase, reply)
           IN  /\ b \in Attempts /\ SameAttempt(a, b) /\ Sound(b)
               /\ b.outcome = a.outcome /\ b.uncertain = a.uncertain
               /\ b.phase = phase /\ b.reply = reply
<1> DEFINE b == Heard(a, phase, reply)
<1>1. /\ b \in Attempts /\ SameAttempt(a, b)
      /\ b.outcome = a.outcome /\ b.uncertain = a.uncertain
      /\ b.phase = phase /\ b.reply = reply
  BY DEF Attempts, SameAttempt, Replies, Heard
<1>2. Sound(b)
  BY <1>1 DEF Sound, SameAttempt
<1> QED BY <1>1, <1>2

\* The outcomes an answer is turned into.
LEMMA EstablishAttempt ==
    ASSUME NEW a \in Attempts, Sound(a), ~a.disposed, NEW outcome \in Established
    PROVE  LET b == Establish(a, outcome)
           IN  /\ b \in Attempts /\ SameAttempt(a, b) /\ Sound(b)
               /\ b.outcome = outcome /\ ~b.uncertain /\ b.reply = None
<1> DEFINE b == Establish(a, outcome)
<1>1. /\ b \in Attempts /\ SameAttempt(a, b)
      /\ b.outcome = outcome /\ b.reply = None /\ b.phase = "idle"
  BY DEF Attempts, Establish, SameAttempt, Outcomes
<1>2. ~b.uncertain
  BY DEF Attempts, Establish
<1>3. Sound(b)
  BY <1>1, <1>2, AttemptAssumption DEF Sound, SameAttempt
<1> QED BY <1>1, <1>2, <1>3

LEMMA UnresolvedAttempt ==
    ASSUME NEW a \in Attempts, Sound(a), a.outcome \notin Established
    PROVE  LET b == Unresolved(a)
           IN  /\ b \in Attempts /\ SameAttempt(a, b) /\ Sound(b)
               /\ b.outcome = "unknown" /\ b.uncertain
<1> DEFINE b == Unresolved(a)
<1>1. /\ b \in Attempts /\ SameAttempt(a, b)
      /\ b.outcome = "unknown" /\ b.reply = None /\ b.phase = "idle"
  BY DEF Attempts, Unresolved, SameAttempt, Outcomes
<1>2. b.uncertain
  BY DEF Attempts, Unresolved
<1>3. Sound(b)
  BY <1>1, <1>2, AttemptAssumption DEF Sound, SameAttempt, Established
<1> QED BY <1>1, <1>2, <1>3

LEMMA DisposedAttempt ==
    ASSUME NEW a \in Attempts, Sound(a), a.outcome \notin Established
    PROVE  LET b == Disposed(a)
           IN  /\ b \in Attempts /\ Sound(b) /\ b.disposed
               /\ b.outcome = "unknown" /\ b.phase = a.phase /\ b.op = a.op
               /\ b.kind = a.kind /\ b.key = a.key /\ b.input = a.input
<1> DEFINE b == Disposed(a)
<1>1. /\ b \in Attempts
      /\ b.outcome = "unknown" /\ b.reply = a.reply /\ b.phase = a.phase
      /\ b.kind = a.kind /\ b.key = a.key /\ b.input = a.input /\ b.op = a.op
      /\ b.epoch = a.epoch /\ b.answers = a.answers
  BY DEF Attempts, Disposed, Outcomes
<1>2. b.disposed
  BY DEF Attempts, Disposed
<1>3. Sound(b)
  BY <1>1, <1>2 DEF Sound, Established
<1> QED BY <1>1, <1>2, <1>3

--------
(* Steps of one attempt.                                                   *)

\* An attempt of the page is an attempt, and what the invariant says of it.
LEMMA BegunAttempt ==
    ASSUME FacadeInv, NEW h \in Begun
    PROVE  /\ h \in Serials /\ attempt[h] \in Attempts /\ h <= begun /\ Sound(attempt[h])
           /\ attempt \in [Serials -> Attempts \cup {None}]
           /\ (h \in retained <=> IsRetained(attempt[h]))
BY DEF FacadeInv, Types, AttemptsSound, RetainedAgree, Begun

\* A retained attempt is stored where storage accepts what it is given.
LEMMA RetainedIsStored ==
    ASSUME FacadeInv, ~refusing, NEW h \in retained
    PROVE  \E r \in stored : Identity(r) = Identity(attempt[h])
<1>1. StoredRecord(attempt[h]) \in stored
  BY DEF FacadeInv, StoredAll
<1>2. Identity(StoredRecord(attempt[h])) = Identity(attempt[h])
  BY DEF Identity, ServerId, StoredRecord
<1> QED BY <1>1, <1>2

\* What a step does that moves one attempt towards its outcome, and may send
\* its request.
OneStep(h, b) ==
    /\ attempt' = [attempt EXCEPT ![h] = b]
    /\ b \in Attempts /\ SameAttempt(attempt[h], b) /\ Sound(b)
    /\ (b.outcome \in Established) <=> (attempt[h].outcome \in Established)
    /\ applied' \cup late' \subseteq applied \cup late \cup {Message(h, attempt[h])}
    /\ UNCHANGED <<begun, retained, epoch, stored, refusing, closed>>

LEMMA OneStepKeeps ==
    ASSUME FacadeInv, NEW h \in Begun, NEW b, OneStep(h, b),
           \/ InDoubt(b)
           \/ (InDoubt(attempt[h]) => InDoubt(b)) /\ applied' \cup late' \subseteq applied \cup late
    PROVE  FacadeInv'
<1> DEFINE a == attempt[h]
           m == Message(h, a)
<1>1. /\ h \in Serials /\ a \in Attempts /\ h <= begun /\ Sound(a)
      /\ attempt \in [Serials -> Attempts \cup {None}]
      /\ (h \in retained <=> IsRetained(a))
  BY BegunAttempt
<1>2. /\ attempt' \in [Serials -> Attempts \cup {None}]
      /\ attempt'[h] = b
      /\ \A g \in Serials : g # h => attempt'[g] = attempt[g]
  BY <1>1 DEF OneStep
<1>3. b # None /\ a # None
  BY <1>1, AttemptIsOne DEF OneStep
<1>4. Begun' = Begun
  BY <1>1, <1>2, <1>3 DEF Begun
<1>5. /\ b.kind = a.kind /\ b.key = a.key /\ b.input = a.input /\ b.op = a.op
      /\ b.epoch = a.epoch /\ b.disposed = a.disposed /\ b.answers = a.answers
  BY DEF OneStep, SameAttempt
<1>6. /\ begun' = begun /\ retained' = retained /\ epoch' = epoch /\ stored' = stored
      /\ refusing' = refusing /\ closed' = closed
  BY DEF OneStep
<1>7. \A g \in Begun : /\ attempt'[g].kind = attempt[g].kind /\ attempt'[g].key = attempt[g].key
                       /\ attempt'[g].op = attempt[g].op /\ attempt'[g].input = attempt[g].input
                       /\ (IsRetained(attempt[g])' <=> IsRetained(attempt[g]))
  <2> TAKE g \in Begun
  <2>1. CASE g = h
    <3>1. (b.outcome \in Established) <=> (a.outcome \in Established)
      BY DEF OneStep
    <3> QED BY <2>1, <3>1, <1>2, <1>5, <1>6 DEF IsRetained, Live
  <2>2. CASE g # h
    BY <2>2, <1>2, <1>6 DEF Begun, IsRetained, Live
  <2> QED BY <2>1, <2>2
<1>8. m.kind = a.kind /\ m.input = a.input /\ m.by = h /\ m.id = ServerId(a)
  BY DEF Message
<1>t. Types'
  BY <1>2, <1>6 DEF FacadeInv, Types
<1>a. AttemptsSound'
  <2> SUFFICES ASSUME NEW g \in Begun
               PROVE  g <= begun /\ Sound(attempt[g])'
    BY <1>4, <1>6 DEF AttemptsSound
  <2>1. Sound(b) /\ Sound(attempt[g]) /\ g <= begun
    BY DEF OneStep, FacadeInv, AttemptsSound
  <2>2. attempt'[g] = b \/ attempt'[g] = attempt[g]
    BY <1>2 DEF Begun
  <2> QED BY <2>1, <2>2, <1>6 DEF Sound
<1>r. RetainedAgree'
  BY <1>4, <1>6, <1>7 DEF FacadeInv, RetainedAgree
<1>d. RetainedDiffer'
  <2>1. retained \subseteq Begun
    BY DEF FacadeInv, RetainedAgree
  <2> QED BY <2>1, <1>6, <1>7 DEF FacadeInv, RetainedDiffer, Overlap
<1>s. StoredDiffer'
  BY <1>6 DEF FacadeInv, StoredDiffer
<1>i. ImportsAgree'
  <2>1. {attempt'[x].op : x \in {g \in Begun' : attempt'[g].kind = "source"}}
          = {attempt[x].op : x \in {g \in Begun : attempt[g].kind = "source"}}
    BY <1>4, <1>7
  <2>2. m.kind = "source" => m.id = a.op
    BY <1>8 DEF ServerId
  <2>3. m.kind = "source" => m.id \in {attempt[x].op : x \in {g \in Begun : attempt[g].kind = "source"}}
    BY <2>2, <1>8
  <2>4. {n.id : n \in {n \in applied' \cup late' : n.kind = "source"}}
          \subseteq {n.id : n \in {n \in applied \cup late : n.kind = "source"}}
             \cup {attempt[x].op : x \in {g \in Begun : attempt[g].kind = "source"}}
    BY <2>3 DEF OneStep
  <2>5. ImportOps' \subseteq ImportOps
    BY <2>1, <2>4, <1>6 DEF ImportOps
  <2> QED BY <2>5, <1>4, <1>6, <1>7 DEF FacadeInv, ImportsAgree
<1>m. MessagesAgree'
  BY <1>1, <1>6, <1>8 DEF FacadeInv, MessagesAgree, OneStep, Serials
<1>o. Doubted'
  <2> SUFFICES ASSUME NEW g \in Begun, NEW n \in applied' \cup late', n.by = g
               PROVE  InDoubt(attempt'[g])
    BY <1>4 DEF Doubted, InDoubt
  <2>1. CASE g = h /\ InDoubt(b)
    BY <2>1, <1>2
  <2>2. CASE g = h /\ ~InDoubt(b)
    <3>1. n \in applied \cup late /\ (InDoubt(a) => InDoubt(b))
      BY <2>2
    <3>2. InDoubt(a)
      BY <3>1, <2>2 DEF FacadeInv, Doubted, InDoubt
    <3> QED BY <3>1, <3>2, <2>2
  <2>3. CASE g # h
    <3>1. n \in applied \cup late
      BY <2>3, <1>8 DEF OneStep
    <3>2. attempt'[g] = attempt[g]
      BY <2>3, <1>2 DEF Begun
    <3>3. InDoubt(attempt[g])
      BY <3>1 DEF FacadeInv, Doubted, InDoubt
    <3> QED BY <3>2, <3>3
  <2> QED BY <2>1, <2>2, <2>3
<1>c. Covered'
  BY <1>4, <1>6, <1>7 DEF FacadeInv, Covered, Identity, ServerId
<1>l. StoredAll'
  <2>1. retained \subseteq Begun
    BY DEF FacadeInv, RetainedAgree
  <2> QED BY <2>1, <1>6, <1>7 DEF FacadeInv, StoredAll, StoredRecord
<1>w. WorkKept'
  <2> SUFFICES ASSUME ~refusing, NEW n \in applied' \cup late', n.kind \in RetainedKinds
               PROVE  [id |-> n.id, input |-> n.input] \in closed \cup {Identity(r) : r \in stored}
    BY <1>6 DEF WorkKept, Identity
  <2>1. CASE n \in applied \cup late
    BY <2>1 DEF FacadeInv, WorkKept
  <2>2. CASE n = m
    <3>1. [id |-> n.id, input |-> n.input] = Identity(a)
      BY <2>2, <1>8 DEF Identity
    <3>2. h \in retained \/ Identity(a) \in closed
      BY <2>2, <1>8 DEF FacadeInv, Covered
    <3> QED BY <3>1, <3>2, RetainedIsStored
  <2> QED BY <2>1, <2>2 DEF OneStep
<1> QED BY <1>t, <1>a, <1>r, <1>d, <1>s, <1>i, <1>m, <1>o, <1>c, <1>l, <1>w DEF FacadeInv

--------
(* What storage is given.                                                  *)

Rows(attempts, handles) == {StoredRecord(attempts[h]) : h \in handles}

LEMMA RowsDiffer ==
    ASSUME NEW attempts, NEW handles,
           \A g, h \in handles : Overlap(attempts[g], attempts[h]) => g = h
    PROVE  \A q, r \in Rows(attempts, handles) : Overlap(q, r) => q = r
<1> SUFFICES ASSUME NEW g \in handles, NEW h \in handles,
                    Overlap(StoredRecord(attempts[g]), StoredRecord(attempts[h]))
             PROVE  g = h
  BY DEF Rows
<1>1. Overlap(attempts[g], attempts[h])
  BY DEF Overlap, StoredRecord
<1> QED BY <1>1

LEMMA RowsFinite ==
    ASSUME NEW attempts, NEW handles, IsFiniteSet(handles)
    PROVE  IsFiniteSet(Rows(attempts, handles))
<1> DEFINE f == [h \in handles |-> StoredRecord(attempts[h])]
<1>1. f \in Surjection(handles, Rows(attempts, handles))
  BY DEF Surjection, Rows
<1> QED BY <1>1, FS_Surjection

\* Attempts that may be kept, and well-formed records of them.
Keepable(attempts, handles, bound) ==
    /\ attempts \in [Serials -> Attempts \cup {None}] /\ handles \subseteq Serials /\ bound \in Nat
    /\ \A h \in handles : attempts[h] # None /\ attempts[h].kind \in RetainedKinds
                            /\ attempts[h].op <= bound
    /\ \A g, h \in handles : Overlap(attempts[g], attempts[h]) => g = h

WellKept(rows, bound) ==
    /\ rows \subseteq StoredRows /\ IsFiniteSet(rows)
    /\ \A r \in rows : r.op <= bound
    /\ \A q, r \in rows : Overlap(q, r) => q = r

\* A scope that keeps what it retains, or cannot, leaves well-formed records.
LEMMA KeepingRows ==
    ASSUME NEW attempts, NEW handles, NEW bound, NEW rows, NEW old,
           Keepable(attempts, handles, bound), WellKept(old, bound),
           rows = Rows(attempts, handles) \/ rows = old
    PROVE  WellKept(rows, bound)
<1>1. IsFiniteSet(handles)
  <2>1. IsFiniteSet(Serials)
    BY FS_Interval, RequestAssumption DEF Serials
  <2> QED BY <2>1, FS_Subset DEF Keepable
<1>2. \A h \in handles : /\ StoredRecord(attempts[h]) \in StoredRows
                         /\ StoredRecord(attempts[h]).op <= bound
  BY DEF Keepable, StoredRecord, StoredRows, Attempts, InputKeys, InputValues
<1>3. CASE rows = Rows(attempts, handles)
  <2>1. IsFiniteSet(rows)
    BY <1>1, <1>3, RowsFinite
  <2>2. \A q, r \in rows : Overlap(q, r) => q = r
    BY <1>3, RowsDiffer DEF Keepable
  <2> QED BY <2>1, <2>2, <1>2, <1>3 DEF Rows, WellKept
<1>4. CASE rows = old
  BY <1>4
<1> QED BY <1>3, <1>4

--------
(* A new attempt.                                                          *)

LEMMA BeginKeeps ==
    ASSUME FacadeInv,
           NEW r, r.kind \in Kinds, r.key \in InputKeys, r.input \in InputValues,
           NEW op, Begin(r, op),
           \/ op = begun + 1
           \/ r.kind = "source" /\ op \in ImportOps /\ \A h \in retained : attempt[h].op # op,
           r.kind \in {"confirm", "stage"} => SameIdentity(r) = {}
    PROVE  FacadeInv'
<1> DEFINE b == NewAttempt(r, op)
           new == begun + 1
<1> USE RequestAssumption
<1>1. /\ begun \in Nat /\ new \in Serials /\ begun' = new /\ new \in 0 .. MaxAttempts
      /\ epoch' = epoch /\ refusing' = refusing /\ late' = late /\ applied' = applied
      /\ closed' = closed
  BY DEF Begin, FacadeInv, Types, Serials
<1>2. op \in Serials /\ op <= new
  <2>1. op \in ImportOps => op \in Serials /\ op <= begun
    BY DEF FacadeInv, ImportsAgree
  <2> QED BY <2>1, <1>1 DEF Serials
<1>3. /\ attempt \in [Serials -> Attempts \cup {None}]
      /\ \A g \in Begun : g \in Serials /\ g <= begun /\ attempt[g] \in Attempts /\ Sound(attempt[g])
      /\ new \notin Begun
  BY <1>1, BegunAttempt DEF FacadeInv, Types
<1>4. /\ b \in Attempts /\ b # None
      /\ b.kind = r.kind /\ b.key = r.key /\ b.input = r.input /\ b.op = op
      /\ b.epoch = epoch /\ b.outcome = "pending" /\ b.phase = "write" /\ b.reply = None
      /\ b.answers = {b.input}
  <2>1. b \in Attempts
    BY <1>2 DEF NewAttempt, Attempts, InputKeys, InputValues, Outcomes, FacadeInv, Types
  <2> QED BY <2>1, AttemptIsOne DEF NewAttempt
<1>5. ~b.disposed
  BY DEF NewAttempt
<1>6. /\ attempt' \in [Serials -> Attempts \cup {None}]
      /\ attempt'[new] = b
      /\ \A g \in Serials : g # new => attempt'[g] = attempt[g]
  BY <1>1, <1>3, <1>4 DEF Begin
<1>7. Begun' = Begun \cup {new} /\ \A g \in Begun : g # new /\ attempt'[g] = attempt[g]
  BY <1>1, <1>3, <1>4, <1>6 DEF Begun
<1>8. /\ retained \subseteq Begun
      /\ retained' = IF r.kind \in RetainedKinds THEN retained \cup {new} ELSE retained
  BY DEF FacadeInv, RetainedAgree, Begin
<1>a. AttemptsSound'
  <2> SUFFICES ASSUME NEW g \in Begun'
               PROVE  g <= new /\ Sound(attempt[g])'
    BY <1>1 DEF AttemptsSound
  <2>1. CASE g = new
    BY <2>1, <1>1, <1>2, <1>4, <1>5, <1>6, AttemptAssumption DEF Sound, Established
  <2>2. CASE g \in Begun
    <3>1. Sound(attempt[g]) /\ attempt[g].op \in Serials
      BY <2>2, <1>3 DEF Attempts
    <3>2. attempt[g].op <= new
      BY <3>1, <1>1 DEF Sound, Serials
    <3> QED BY <2>2, <3>1, <3>2, <1>1, <1>3, <1>7 DEF Sound, Serials
  <2> QED BY <2>1, <2>2, <1>7
<1>r. RetainedAgree'
  <2>1. \A g \in Begun : IsRetained(attempt[g])' <=> IsRetained(attempt[g])
    BY <1>1, <1>7 DEF IsRetained, Live
  <2>4. \A g \in Begun' : g \in retained' <=> IsRetained(attempt[g])'
    <3> SUFFICES ASSUME NEW g \in Begun'
                 PROVE  g \in retained' <=> IsRetained(attempt[g])'
      OBVIOUS
    <3>1. CASE g = new
      <4>1. IsRetained(attempt[g])' <=> r.kind \in RetainedKinds
        BY <3>1, <1>1, <1>4, <1>5, <1>6 DEF IsRetained, Live, Established
      <4> QED BY <3>1, <4>1, <1>3, <1>8
    <3>2. CASE g \in Begun
      BY <3>2, <2>1, <1>7, <1>8 DEF FacadeInv, RetainedAgree
    <3> QED BY <3>1, <3>2, <1>7
  <2> QED BY <2>4, <1>7, <1>8 DEF RetainedAgree
<1>o. \A g \in retained : ~Overlap(attempt[g], b) \/ r.kind \notin RetainedKinds
  <2> SUFFICES ASSUME NEW g \in retained, r.kind \in RetainedKinds
               PROVE  ~Overlap(attempt[g], b)
    OBVIOUS
  <2>1. attempt[g].op # op
    <3>1. attempt[g].op <= begun /\ attempt[g].op \in Serials
      BY <1>3, <1>8 DEF Sound, Attempts
    <3> QED BY <3>1, <1>1 DEF Serials
  <2>2. ~(attempt[g].kind = r.kind /\ r.kind # "source" /\ attempt[g].key = r.key)
    BY DEF SameIdentity, RetainedKinds
  <2> QED BY <2>1, <2>2, <1>4 DEF Overlap
<1>d. RetainedDiffer'
  <2> SUFFICES ASSUME NEW g \in retained', NEW h \in retained',
                      Overlap(attempt'[g], attempt'[h])
               PROVE  g = h
    BY DEF RetainedDiffer, Overlap
  <2>1. CASE g \in retained /\ h \in retained
    BY <2>1, <1>7, <1>8 DEF FacadeInv, RetainedDiffer
  <2>2. CASE g = new /\ h \in retained /\ r.kind \in RetainedKinds
    BY <2>2, <1>o, <1>6, <1>7, <1>8 DEF Overlap
  <2>3. CASE h = new /\ g \in retained /\ r.kind \in RetainedKinds
    BY <2>3, <1>o, <1>6, <1>7, <1>8 DEF Overlap
  <2> QED BY <2>1, <2>2, <2>3, <1>8
<1>k. /\ stored' = Rows(attempt', retained') \/ stored' = stored
      /\ ~refusing => stored' = Rows(attempt', retained') /\ stored \subseteq stored'
  <2>1. Rows(attempt', retained) = Rows(attempt, retained)
    BY <1>7, <1>8 DEF Rows
  <2>2. ~refusing => stored = Rows(attempt, retained)
    BY DEF FacadeInv, StoredAll, Rows
  <2>3. CASE r.kind \in RetainedKinds
    <3>1. stored' = Rows(attempt', retained') \/ (refusing /\ stored' = stored)
      BY <2>3 DEF Begin, Keep, Rows
    <3>2. Rows(attempt', retained) \subseteq Rows(attempt', retained')
      BY <1>8 DEF Rows
    <3> QED BY <3>1, <3>2, <2>1, <2>2
  <2>4. CASE r.kind \notin RetainedKinds
    <3>1. stored' = stored /\ retained' = retained
      BY <2>4 DEF Begin
    <3> QED BY <3>1, <2>1, <2>2
  <2> QED BY <2>3, <2>4
<1>s. stored' \subseteq StoredRows /\ IsFiniteSet(stored') /\ StoredDiffer'
  <2>1. \A h \in retained' : /\ h \in Serials /\ attempt'[h] # None /\ attempt'[h].op <= new
                             /\ attempt'[h].kind \in RetainedKinds
    BY <1>a, <1>r, <1>1 DEF AttemptsSound, Sound, RetainedAgree, IsRetained, Begun
  <2>2. \A g, h \in retained' : Overlap(attempt'[g], attempt'[h]) => g = h
    BY <1>d DEF RetainedDiffer, Overlap
  <2>3. \A x \in stored : x.op <= new
    BY <1>1 DEF FacadeInv, StoredDiffer, Types, StoredRows, Serials
  <2>4. WellKept(stored, new)
    BY <2>3 DEF FacadeInv, Types, StoredDiffer, WellKept
  <2>5. Keepable(attempt', retained', new)
    BY <2>1, <2>2, <1>1, <1>6 DEF Keepable
  <2>6. WellKept(stored', new)
    BY <2>4, <2>5, <1>k, KeepingRows
  <2> QED BY <2>6, <1>1 DEF StoredDiffer, Overlap, WellKept
<1>t. Types'
  BY <1>1, <1>6, <1>s DEF FacadeInv, Types
<1>i. ImportsAgree'
  <2>0. /\ \A n \in ImportOps : n \in Serials /\ n <= begun
        /\ \A h \in Begun : attempt[h].op \in ImportOps => attempt[h].kind = "source"
        /\ \A x \in stored : x.op \in ImportOps => x.kind = "source"
    BY DEF FacadeInv, ImportsAgree
  <2>1. {attempt'[x].op : x \in {g \in Begun' : attempt'[g].kind = "source"}}
          = {attempt[x].op : x \in {g \in Begun : attempt[g].kind = "source"}}
               \cup (IF r.kind = "source" THEN {op} ELSE {})
    BY <1>4, <1>6, <1>7
  <2>2. {x.op : x \in {q \in stored' : q.kind = "source"}}
          \subseteq {x.op : x \in {q \in stored : q.kind = "source"}} \cup
             {attempt'[x].op : x \in {g \in Begun' : attempt'[g].kind = "source"}}
    <3>1. CASE stored' = Rows(attempt', retained')
      <4>1. retained' \subseteq Begun'
        BY <1>r DEF RetainedAgree
      <4> QED BY <3>1, <4>1 DEF Rows, StoredRecord
    <3> QED BY <3>1, <1>k
  <2>3. ImportOps' \subseteq ImportOps \cup (IF r.kind = "source" THEN {op} ELSE {})
    BY <2>1, <2>2, <1>1 DEF ImportOps
  <2>4. \A n \in ImportOps' : n \in Serials /\ n <= new
    BY <2>0, <2>3, <1>1, <1>2 DEF Serials
  <2>5. \A h \in Begun' : attempt'[h].op \in ImportOps' => attempt'[h].kind = "source"
    <3> SUFFICES ASSUME NEW h \in Begun', attempt'[h].op \in ImportOps', attempt'[h].kind # "source"
                 PROVE  FALSE
      OBVIOUS
    <3>1. CASE h = new
      <4>1. op \in ImportOps /\ op = begun + 1
        BY <3>1, <2>3, <1>4, <1>6
      <4> QED BY <4>1, <2>0, <1>1
    <3>2. CASE h \in Begun
      <4>1. attempt[h].op <= begun /\ attempt[h].op \in Serials /\ attempt'[h] = attempt[h]
        BY <3>2, <1>3, <1>7 DEF Sound, Attempts
      <4>2. attempt[h].op \in ImportOps
        BY <4>1, <2>3, <1>1 DEF Serials
      <4> QED BY <4>1, <4>2, <3>2, <2>0
    <3> QED BY <3>1, <3>2, <1>7
  <2>6. \A x \in stored' : x.op \in ImportOps' => x.kind = "source"
    <3> SUFFICES ASSUME NEW x \in stored', x.op \in ImportOps'
                 PROVE  x.kind = "source"
      OBVIOUS
    <3>1. CASE stored' = Rows(attempt', retained')
      <4>1. PICK h \in retained' : x = StoredRecord(attempt'[h])
        BY <3>1 DEF Rows
      <4>2. h \in Begun' /\ x.op = attempt'[h].op /\ x.kind = attempt'[h].kind
        BY <4>1, <1>r DEF RetainedAgree, StoredRecord
      <4> QED BY <4>2, <2>5
    <3>2. CASE stored' = stored
      <4>1. x.op <= begun /\ x.op \in Serials
        BY <3>2 DEF FacadeInv, StoredDiffer, Types, StoredRows
      <4>2. x.op \in ImportOps
        BY <4>1, <2>3, <1>1 DEF Serials
      <4> QED BY <4>2, <3>2, <2>0
    <3> QED BY <3>1, <3>2, <1>k
  <2> QED BY <2>4, <2>5, <2>6, <1>1 DEF ImportsAgree
<1>m. MessagesAgree'
  BY <1>1 DEF FacadeInv, MessagesAgree
<1>u. Doubted'
  <2> SUFFICES ASSUME NEW g \in Begun', NEW n \in applied \cup late, n.by = g
               PROVE  InDoubt(attempt'[g])
    BY <1>1 DEF Doubted, InDoubt
  <2>1. g \in Begun
    BY <1>1, <1>7 DEF FacadeInv, MessagesAgree
  <2>2. InDoubt(attempt[g])
    BY <2>1 DEF FacadeInv, Doubted, InDoubt
  <2> QED BY <2>1, <2>2, <1>7
<1>c. Covered'
  <2> SUFFICES ASSUME NEW g \in Begun', attempt'[g].kind \in RetainedKinds
               PROVE  g \in retained' \/ Identity(attempt'[g]) \in closed
    BY <1>1 DEF Covered, Identity, ServerId
  <2>1. CASE g = new
    BY <2>1, <1>4, <1>6, <1>8
  <2>2. CASE g \in Begun
    BY <2>2, <1>7, <1>8 DEF FacadeInv, Covered
  <2> QED BY <2>1, <2>2, <1>7
<1>l. StoredAll'
  BY <1>k, <1>1 DEF StoredAll, Rows
<1>w. WorkKept'
  BY <1>k, <1>1 DEF FacadeInv, WorkKept, Identity, ServerId
<1> QED BY <1>t, <1>a, <1>r, <1>d, <1>s, <1>i, <1>m, <1>u, <1>c, <1>l, <1>w DEF FacadeInv

--------
(* Attempts that leave their scope.                                        *)

\* Some attempts are settled or given up; what is not retained any more was
\* closed.
Leaving ==
    /\ attempt' \in [Serials -> Attempts \cup {None}] /\ Begun' = Begun
    /\ \A g \in Begun :
          /\ Sound(attempt[g])'
          /\ attempt'[g].kind = attempt[g].kind /\ attempt'[g].key = attempt[g].key
          /\ attempt'[g].op = attempt[g].op /\ attempt'[g].input = attempt[g].input
          /\ (\E m \in applied \cup late : m.by = g) /\ InDoubt(attempt[g]) =>
                InDoubt(attempt'[g])
    /\ retained' = {g \in Begun : IsRetained(attempt[g])'} /\ retained' \subseteq retained
    /\ stored' = Rows(attempt', retained') \/ stored' = stored
    /\ ~refusing => stored' = Rows(attempt', retained')
    /\ closed \subseteq closed'
    /\ \A g \in retained \ retained' : Identity(attempt[g]) \in closed'
    /\ epoch' \in 0 .. MaxEpochs
    /\ UNCHANGED <<begun, refusing, late, applied>>

LEMMA LeavingKeeps == FacadeInv /\ Leaving => FacadeInv'
<1> SUFFICES ASSUME FacadeInv, Leaving
             PROVE  FacadeInv'
  OBVIOUS
<1>1. /\ begun' = begun /\ refusing' = refusing /\ late' = late /\ applied' = applied
      /\ Begun' = Begun /\ attempt' \in [Serials -> Attempts \cup {None}]
      /\ epoch' \in 0 .. MaxEpochs /\ closed \subseteq closed'
      /\ retained' \subseteq retained
      /\ \A g \in retained \ retained' : Identity(attempt[g]) \in closed'
  BY DEF Leaving
<1>2. retained \subseteq Begun /\ \A g \in Begun : g \in Serials /\ g <= begun
  BY BegunAttempt DEF FacadeInv, RetainedAgree
<1>3. \A g \in Begun :
        /\ attempt'[g].kind = attempt[g].kind /\ attempt'[g].key = attempt[g].key
        /\ attempt'[g].op = attempt[g].op /\ attempt'[g].input = attempt[g].input
  BY DEF Leaving
<1>4. /\ stored' = Rows(attempt', retained') \/ stored' = stored
      /\ ~refusing => stored' = Rows(attempt', retained')
  BY DEF Leaving
<1>a. AttemptsSound'
  BY <1>1, <1>2 DEF AttemptsSound, Leaving
<1>r. RetainedAgree'
  BY <1>1 DEF RetainedAgree, Leaving
<1>d. RetainedDiffer'
  BY <1>1, <1>2, <1>3 DEF FacadeInv, RetainedDiffer, Overlap
<1>k. Rows(attempt', retained') \subseteq Rows(attempt, retained)
  BY <1>1, <1>2, <1>3 DEF Rows, StoredRecord
<1>s. stored' \subseteq StoredRows /\ IsFiniteSet(stored') /\ StoredDiffer'
  <2>1. \A h \in retained' : /\ h \in Serials /\ attempt'[h] # None /\ attempt'[h].op <= begun
                             /\ attempt'[h].kind \in RetainedKinds
    BY <1>a, <1>r, <1>1 DEF AttemptsSound, Sound, RetainedAgree, IsRetained, Begun
  <2>2. \A g, h \in retained' : Overlap(attempt'[g], attempt'[h]) => g = h
    BY <1>d DEF RetainedDiffer, Overlap
  <2>3. WellKept(stored, begun)
    BY DEF FacadeInv, Types, StoredDiffer, WellKept
  <2>4. Keepable(attempt', retained', begun)
    BY <2>1, <2>2, <1>1, RequestAssumption DEF Keepable, FacadeInv, Types
  <2>5. WellKept(stored', begun)
    BY <2>3, <2>4, <1>4, KeepingRows
  <2> QED BY <2>5, <1>1 DEF StoredDiffer, Overlap, WellKept
<1>t. Types'
  BY <1>1, <1>s DEF FacadeInv, Types
<1>i. ImportsAgree'
  <2>1. {attempt'[x].op : x \in {g \in Begun' : attempt'[g].kind = "source"}}
          = {attempt[x].op : x \in {g \in Begun : attempt[g].kind = "source"}}
    BY <1>1, <1>3
  <2>2. {x.op : x \in {q \in stored' : q.kind = "source"}}
          \subseteq {x.op : x \in {q \in stored : q.kind = "source"}} \cup
             {attempt[x].op : x \in {g \in Begun : attempt[g].kind = "source"}}
    BY <1>k, <1>2, <1>4 DEF Rows, StoredRecord
  <2>3. ImportOps' \subseteq ImportOps
    BY <2>1, <2>2, <1>1 DEF ImportOps
  <2>4. \A x \in stored' : x \in stored \/
           \E h \in Begun : x.op = attempt[h].op /\ x.kind = attempt[h].kind
    BY <1>k, <1>2, <1>4 DEF Rows, StoredRecord
  <2> QED BY <2>3, <2>4, <1>1, <1>3 DEF FacadeInv, ImportsAgree
<1>m. MessagesAgree'
  BY <1>1 DEF FacadeInv, MessagesAgree
<1>u. Doubted'
  <2> SUFFICES ASSUME NEW g \in Begun, NEW n \in applied \cup late, n.by = g
               PROVE  InDoubt(attempt'[g])
    BY <1>1 DEF Doubted, InDoubt
  <2>1. InDoubt(attempt[g])
    BY DEF FacadeInv, Doubted, InDoubt
  <2> QED BY <2>1 DEF Leaving
<1>n. \A g \in Begun : Identity(attempt'[g]) = Identity(attempt[g])
  BY <1>3 DEF Identity, ServerId
<1>c. Covered'
  <2> SUFFICES ASSUME NEW g \in Begun, attempt'[g].kind \in RetainedKinds
               PROVE  g \in retained' \/ Identity(attempt'[g]) \in closed'
    BY <1>1 DEF Covered, Identity, ServerId
  <2>1. g \in retained \/ Identity(attempt[g]) \in closed
    BY <1>3 DEF FacadeInv, Covered
  <2> QED BY <2>1, <1>n, <1>1, <1>3
<1>l. StoredAll'
  BY <1>1, <1>4 DEF StoredAll, Rows
<1>w. WorkKept'
  <2> SUFFICES ASSUME ~refusing, NEW n \in applied \cup late, n.kind \in RetainedKinds
               PROVE  \/ [id |-> n.id, input |-> n.input] \in closed'
                      \/ \E r \in stored' : [id |-> n.id, input |-> n.input] = Identity(r)
    BY <1>1 DEF WorkKept, Identity, ServerId
  <2> DEFINE i == [id |-> n.id, input |-> n.input]
  <2>1. CASE i \in closed
    BY <2>1, <1>1
  <2>2. CASE \E r \in stored : i = Identity(r)
    <3>1. PICK r \in stored : i = Identity(r)
      BY <2>2
    <3>2. PICK g \in retained : r = StoredRecord(attempt[g])
      BY DEF FacadeInv, StoredAll
    <3>3. i = Identity(attempt[g])
      BY <3>1, <3>2 DEF Identity, ServerId, StoredRecord
    <3>4. CASE g \in retained'
      <4>1. StoredRecord(attempt'[g]) \in stored'
        BY <3>4, <1>4 DEF Rows
      <4>2. Identity(StoredRecord(attempt'[g])) = Identity(attempt'[g])
        BY DEF Identity, ServerId, StoredRecord
      <4> QED BY <4>1, <4>2, <3>3, <1>n, <1>2
    <3>5. CASE g \notin retained'
      BY <3>5, <3>3, <1>1
    <3> QED BY <3>4, <3>5
  <2>3. i \in closed \cup {Identity(r) : r \in stored}
    BY DEF FacadeInv, WorkKept
  <2> QED BY <2>1, <2>2, <2>3
<1> QED BY <1>t, <1>a, <1>r, <1>d, <1>s, <1>i, <1>m, <1>u, <1>c, <1>l, <1>w DEF FacadeInv

LEMMA SettleKeeps ==
    ASSUME FacadeInv, NEW h \in Serials, Settle(h)
    PROVE  FacadeInv'
<1> DEFINE a == attempt[h]
           outcome == IF Commits(a) THEN "committed" ELSE "rejected"
           b == Establish(a, outcome)
<1>1. /\ h \in Begun /\ a.reply # None /\ ~a.disposed /\ outcome \in Established
      /\ Commits(a) \/ Rejects(a)
      /\ attempt' = [g \in Serials |->
            IF g = h THEN b ELSE IF g \in Abandoned(h) THEN Disposed(attempt[g]) ELSE attempt[g]]
      /\ retained' = retained \ ReleasedBy(h)
      /\ IF retained' = retained THEN stored' = stored ELSE Keep(attempt', retained')
      /\ closed' = closed \cup Closing(ReleasedBy(h))
      /\ begun' = begun /\ epoch' = epoch /\ refusing' = refusing /\ late' = late
      /\ applied' = applied
  BY DEF Settle, Answered, Hears, Established
<1>2. /\ attempt \in [Serials -> Attempts \cup {None}]
      /\ \A g \in Begun : /\ g \in Serials /\ g <= begun /\ attempt[g] \in Attempts
                          /\ Sound(attempt[g])
                          /\ (g \in retained <=> IsRetained(attempt[g]))
  BY <1>1, BegunAttempt
<1>3. retained \subseteq Begun /\ Abandoned(h) \subseteq retained
  BY DEF FacadeInv, RetainedAgree, Abandoned
<1>4. a.outcome \notin Established
  BY <1>1, <1>2 DEF Sound
<1>5. /\ b \in Attempts /\ SameAttempt(a, b) /\ Sound(b)
      /\ b.outcome = outcome /\ ~b.uncertain /\ b.reply = None
  BY <1>1, <1>2, EstablishAttempt
<1>6. \A g \in Abandoned(h) :
        LET c == Disposed(attempt[g])
        IN  /\ c \in Attempts /\ Sound(c) /\ c.disposed /\ c.outcome = "unknown"
            /\ c.kind = attempt[g].kind /\ c.key = attempt[g].key
            /\ c.op = attempt[g].op /\ c.input = attempt[g].input
  <2> SUFFICES ASSUME NEW g \in Abandoned(h)
               PROVE  LET c == Disposed(attempt[g])
                      IN  /\ c \in Attempts /\ Sound(c) /\ c.disposed /\ c.outcome = "unknown"
                          /\ c.kind = attempt[g].kind /\ c.key = attempt[g].key
                          /\ c.op = attempt[g].op /\ c.input = attempt[g].input
    OBVIOUS
  <2>1. attempt[g] \in Attempts /\ Sound(attempt[g]) /\ attempt[g].outcome \notin Established
    BY <1>2, <1>3 DEF IsRetained
  <2> QED BY <2>1, DisposedAttempt
<1> HIDE DEF outcome, b
<1>7. \A g \in Serials : attempt'[g] = IF g = h THEN b ELSE IF g \in Abandoned(h)
                                      THEN Disposed(attempt[g]) ELSE attempt[g]
  BY <1>1
<1>8. /\ attempt' \in [Serials -> Attempts \cup {None}]
      /\ \A g \in Serials : attempt'[g] = None <=> attempt[g] = None
  <2>1. \A g \in Serials : /\ attempt'[g] \in Attempts \cup {None}
                           /\ (attempt'[g] = None <=> attempt[g] = None)
    BY <1>1, <1>2, <1>3, <1>5, <1>6, <1>7, AttemptIsOne
  <2> QED BY <2>1, <1>1
<1>9. Begun' = Begun
  BY <1>8 DEF Begun
<1>10. \A g \in Begun :
         /\ Sound(attempt[g])'
         /\ attempt'[g].kind = attempt[g].kind /\ attempt'[g].key = attempt[g].key
         /\ attempt'[g].op = attempt[g].op /\ attempt'[g].input = attempt[g].input
  <2> SUFFICES ASSUME NEW g \in Begun
               PROVE  /\ Sound(attempt'[g])
                      /\ attempt'[g].kind = attempt[g].kind /\ attempt'[g].key = attempt[g].key
                      /\ attempt'[g].op = attempt[g].op /\ attempt'[g].input = attempt[g].input
    BY <1>1 DEF Sound
  <2>1. CASE g = h
    BY <2>1, <1>5, <1>7, <1>2 DEF SameAttempt
  <2>2. CASE g # h /\ g \in Abandoned(h)
    BY <2>2, <1>6, <1>7, <1>2
  <2>3. CASE g # h /\ g \notin Abandoned(h)
    BY <2>3, <1>7, <1>2
  <2> QED BY <2>1, <2>2, <2>3
<1>11. \A g \in Begun : (\E m \in applied \cup late : m.by = g) /\ InDoubt(attempt[g]) =>
          InDoubt(attempt'[g])
  <2> SUFFICES ASSUME NEW g \in Begun, InDoubt(attempt[g])
               PROVE  InDoubt(attempt'[g])
    OBVIOUS
  <2>1. CASE g = h /\ Commits(a)
    BY <2>1, <1>5, <1>7, <1>2 DEF InDoubt, outcome
  <2>2. CASE g = h /\ ~Commits(a)
    <3>1. a.kind = "confirm"
      <4>1. CASE a.reply = "absent"
        BY <4>1, <1>1, <1>2 DEF Sound
      <4>2. CASE a.reply = "refused" /\ ~a.uncertain
        BY <4>2, <2>2, <1>1, <1>4 DEF InDoubt, Established
      <4> QED BY <4>1, <4>2, <2>2, <1>1 DEF Rejects
    <3> QED BY <3>1, <2>2, <1>10 DEF InDoubt
  <2>3. CASE g # h /\ g \in Abandoned(h)
    BY <2>3, <1>6, <1>7, <1>2 DEF InDoubt
  <2>4. CASE g # h /\ g \notin Abandoned(h)
    BY <2>4, <1>7, <1>2
  <2> QED BY <2>1, <2>2, <2>3, <2>4
<1>12. retained' = {g \in Begun : IsRetained(attempt[g])'}
  <2> SUFFICES ASSUME NEW g \in Begun
               PROVE  g \in retained' <=> IsRetained(attempt[g])'
    BY <1>1, <1>3
  <2>1. CASE g = h
    <3>1. attempt'[g].outcome \in Established /\ g \notin retained'
      BY <2>1, <1>1, <1>5, <1>7, <1>2 DEF ReleasedBy
    <3> QED BY <3>1 DEF IsRetained
  <2>2. CASE g # h /\ g \in Abandoned(h)
    <3>1. attempt'[g].disposed /\ g \notin retained'
      BY <2>2, <1>1, <1>6, <1>7, <1>2 DEF ReleasedBy
    <3> QED BY <3>1 DEF IsRetained, Live
  <2>3. CASE g # h /\ g \notin Abandoned(h)
    <3>1. attempt'[g] = attempt[g] /\ (g \in retained' <=> g \in retained)
      BY <2>3, <1>1, <1>7, <1>2 DEF ReleasedBy
    <3> QED BY <3>1, <1>1, <1>2 DEF IsRetained, Live
  <2> QED BY <2>1, <2>2, <2>3
<1>13. /\ retained' \subseteq retained
       /\ \A g \in retained \ retained' : Identity(attempt[g]) \in closed'
  BY <1>1 DEF Closing, Identity
<1>14. /\ stored' = Rows(attempt', retained') \/ stored' = stored
       /\ ~refusing => stored' = Rows(attempt', retained')
  <2>1. CASE retained' = retained
    <3>1. Rows(attempt', retained) = Rows(attempt, retained)
      BY <1>3, <1>10 DEF Rows, StoredRecord
    <3>2. ~refusing => stored = Rows(attempt, retained)
      BY DEF FacadeInv, StoredAll, Rows
    <3> QED BY <2>1, <3>1, <3>2, <1>1
  <2>2. CASE retained' # retained
    BY <2>2, <1>1 DEF Keep, Rows
  <2> QED BY <2>1, <2>2
<1>15. closed \subseteq closed' /\ epoch' \in 0 .. MaxEpochs
  BY <1>1 DEF FacadeInv, Types
<1>16. UNCHANGED <<begun, refusing, late, applied>>
  BY <1>1
<1> QED BY <1>8, <1>9, <1>10, <1>11, <1>12, <1>13, <1>14, <1>15, <1>16, LeavingKeeps DEF Leaving

LEMMA ReleaseKeeps ==
    ASSUME FacadeInv, Release
    PROVE  FacadeInv'
<1>1. /\ epoch' = epoch + 1 /\ epoch' \in 0 .. MaxEpochs /\ epoch' # epoch
      /\ attempt' = [h \in Serials |->
            IF attempt[h] = None \/ attempt[h].outcome \in Established THEN attempt[h]
            ELSE Disposed(attempt[h])]
      /\ retained' = {}
      /\ stored' = {} \/ (refusing /\ stored' = stored)
      /\ closed' = closed \cup Closing(retained)
      /\ begun' = begun /\ refusing' = refusing /\ late' = late /\ applied' = applied
  BY RequestAssumption DEF Release, FacadeInv, Types
<1>2. \A g \in Begun : /\ g \in Serials /\ attempt[g] \in Attempts /\ Sound(attempt[g])
  BY BegunAttempt
<1>3. \A g \in Begun : attempt[g].outcome \notin Established =>
        LET c == Disposed(attempt[g])
        IN  /\ c \in Attempts /\ Sound(c) /\ c.disposed /\ c.outcome = "unknown"
            /\ c.kind = attempt[g].kind /\ c.key = attempt[g].key
            /\ c.op = attempt[g].op /\ c.input = attempt[g].input
  BY <1>2, DisposedAttempt
<1>4. \A g \in Serials : attempt'[g] =
        IF attempt[g] = None \/ attempt[g].outcome \in Established THEN attempt[g]
        ELSE Disposed(attempt[g])
  BY <1>1
<1>5. /\ attempt' \in [Serials -> Attempts \cup {None}] /\ Begun' = Begun
  <2>1. \A g \in Serials : /\ attempt'[g] \in Attempts \cup {None}
                           /\ (attempt'[g] = None <=> attempt[g] = None)
    BY <1>2, <1>3, <1>4, AttemptIsOne DEF Begun, FacadeInv, Types
  <2> QED BY <2>1, <1>1 DEF Begun
<1>6. \A g \in Begun :
        /\ Sound(attempt[g])'
        /\ attempt'[g].kind = attempt[g].kind /\ attempt'[g].key = attempt[g].key
        /\ attempt'[g].op = attempt[g].op /\ attempt'[g].input = attempt[g].input
        /\ (\E m \in applied \cup late : m.by = g) /\ InDoubt(attempt[g]) => InDoubt(attempt'[g])
        /\ ~IsRetained(attempt[g])'
  <2> TAKE g \in Begun
  <2>1. CASE attempt[g].outcome \in Established
    <3>1. attempt'[g] = attempt[g]
      BY <2>1, <1>2, <1>4
    <3>2. Sound(attempt[g])'
      BY <2>1, <3>1, <1>1, <1>2 DEF Sound
    <3> QED BY <2>1, <3>1, <3>2 DEF IsRetained
  <2>2. CASE attempt[g].outcome \notin Established
    <3>1. attempt'[g] = Disposed(attempt[g])
      BY <2>2, <1>2, <1>4 DEF Begun
    <3>2. /\ Sound(attempt'[g]) /\ attempt'[g].disposed /\ attempt'[g].outcome = "unknown"
          /\ attempt'[g].kind = attempt[g].kind /\ attempt'[g].key = attempt[g].key
          /\ attempt'[g].op = attempt[g].op /\ attempt'[g].input = attempt[g].input
      BY <3>1, <2>2, <1>3
    <3>3. Sound(attempt[g])'
      BY <3>2, <1>1 DEF Sound
    <3> QED BY <3>2, <3>3 DEF IsRetained, Live, InDoubt
  <2> QED BY <2>1, <2>2
<1>7. retained' = {g \in Begun : IsRetained(attempt[g])'} /\ retained' \subseteq retained
  BY <1>1, <1>6
<1>8. /\ stored' = Rows(attempt', retained') \/ stored' = stored
      /\ ~refusing => stored' = Rows(attempt', retained')
  BY <1>1 DEF Rows
<1>9. closed \subseteq closed' /\ \A g \in retained \ retained' : Identity(attempt[g]) \in closed'
  BY <1>1 DEF Closing, Identity
<1> QED BY <1>1, <1>5, <1>6, <1>7, <1>8, <1>9, LeavingKeeps DEF Leaving

--------
(* The page reloads.                                                       *)

Rank(r) == Cardinality({q \in stored : q.op <= r.op})

\* The stored records are numbered without gaps: their operations differ.
LEMMA RankIsOneToOne ==
    ASSUME FacadeInv
    PROVE  LET count == Cardinality(stored)
           IN  /\ count \in Nat
               /\ \A r \in stored : Rank(r) \in 1 .. count
               /\ \A q, r \in stored : Rank(q) = Rank(r) => q = r
               /\ \A n \in 1 .. count : \E r \in stored : Rank(r) = n
<1> DEFINE count == Cardinality(stored)
           Below(r) == {q \in stored : q.op <= r.op}
<1>1. /\ stored \subseteq StoredRows /\ IsFiniteSet(stored)
      /\ \A q, r \in stored : q.op = r.op => q = r
  BY DEF FacadeInv, Types, StoredDiffer, Overlap
<1>2. count \in Nat
  BY <1>1, FS_CardinalityType
<1>3. \A r \in stored : r.op \in Nat
  BY <1>1 DEF StoredRows, Serials
<1>4. \A r \in stored : /\ r \in Below(r) /\ IsFiniteSet(Below(r))
                        /\ Rank(r) \in Nat /\ Rank(r) <= count /\ Rank(r) # 0
  <2> TAKE r \in stored
  <2>1. r \in Below(r)
    BY <1>3
  <2>2. Below(r) \in SUBSET stored
    OBVIOUS
  <2>3. IsFiniteSet(Below(r)) /\ Cardinality(Below(r)) <= count
    BY <2>2, <1>1, FS_Subset
  <2>4. Cardinality(Below(r)) \in Nat
    BY <2>3, FS_CardinalityType
  <2>5. Cardinality(Below(r)) # 0
    BY <2>1, <2>3, FS_EmptySet
  <2> QED BY <2>1, <2>3, <2>4, <2>5 DEF Rank
<1>r. \A r \in stored : Rank(r) \in 1 .. count
  <2> SUFFICES ASSUME NEW r \in stored
               PROVE  Rank(r) \in 1 .. count
    OBVIOUS
  <2>1. Rank(r) \in Nat /\ Rank(r) <= count /\ Rank(r) # 0
    BY <1>4
  <2> HIDE DEF count
  <2> QED BY <2>1, <1>2
<1>5. \A q, r \in stored : q.op < r.op => Rank(q) # Rank(r)
  <2> SUFFICES ASSUME NEW q \in stored, NEW r \in stored, q.op < r.op, Rank(q) = Rank(r)
               PROVE  FALSE
    OBVIOUS
  <2>1. Below(q) \in SUBSET Below(r)
    BY <1>3
  <2>2. Cardinality(Below(q)) = Cardinality(Below(r))
    BY DEF Rank
  <2>3. Below(r) = Below(q)
    BY <2>1, <2>2, <1>4, FS_Subset
  <2>4. r \in Below(q)
    BY <2>3, <1>4
  <2> QED BY <2>4, <1>3
<1>6. \A q, r \in stored : Rank(q) = Rank(r) => q = r
  <2> SUFFICES ASSUME NEW q \in stored, NEW r \in stored, Rank(q) = Rank(r)
               PROVE  q = r
    OBVIOUS
  <2>1. q.op = r.op
    BY <1>3, <1>5
  <2> QED BY <2>1, <1>1
<1>7. \A n \in 1 .. count : \E r \in stored : Rank(r) = n
  <2> DEFINE rank == [r \in stored |-> Rank(r)]
  <2>1. \A r \in stored : rank[r] = Rank(r) /\ Rank(r) \in 1 .. count
    BY <1>r
  <2>2. rank \in Injection(stored, 1 .. count)
    BY <2>1, <1>6 DEF Injection, IsInjective
  <2>3. IsFiniteSet(1 .. count) /\ Cardinality(1 .. count) = count
    BY <1>2, FS_Interval
  <2>4. rank \in Surjection(stored, 1 .. count)
    BY <2>2, <2>3, FS_Injection
  <2>5. \A n \in 1 .. count : \E r \in stored : rank[r] = n
    BY <2>4 DEF Surjection
  <2> QED BY <2>5
<1> QED BY <1>2, <1>r, <1>6, <1>7

\* A record of the account's storage becomes an attempt that may have run.
LEMMA ReattachedAttempt ==
    ASSUME FacadeInv, NEW r \in stored
    PROVE  LET b == Reattached(r)
           IN  /\ b \in Attempts /\ Sound(b) /\ IsRetained(b) /\ InDoubt(b)
               /\ StoredRecord(b) = r
               /\ b.kind = r.kind /\ b.key = r.key /\ b.input = r.input /\ b.op = r.op
<1> DEFINE b == Reattached(r)
<1>1. r \in StoredRows /\ r.op <= begun /\ epoch \in 0 .. MaxEpochs
  BY DEF FacadeInv, Types, StoredDiffer
<1>2. /\ b \in Attempts
      /\ b.kind = r.kind /\ b.key = r.key /\ b.input = r.input /\ b.op = r.op
      /\ b.epoch = epoch /\ b.outcome = "unknown" /\ b.phase = "idle" /\ b.reply = None
      /\ b.answers = {r.input}
  BY <1>1 DEF Reattached, StoredRows, Attempts, InputKeys, InputValues, RetainedKinds, Kinds,
              Outcomes
<1>3. b.uncertain /\ ~b.disposed
  BY DEF Reattached
<1>4. Sound(b)
  BY <1>1, <1>2, <1>3, AttemptAssumption DEF Sound, Established
<1>5. IsRetained(b) /\ InDoubt(b)
  BY <1>1, <1>2, <1>3 DEF IsRetained, Live, Established, InDoubt, StoredRows
<1>6. StoredRecord(b) = r
  BY <1>1, <1>2 DEF StoredRecord, StoredRows
<1> QED BY <1>2, <1>4, <1>5, <1>6

LEMMA ReloadKeeps ==
    ASSUME FacadeInv, Reload
    PROVE  FacadeInv'
<1> DEFINE count == Cardinality(stored)
           travelling == {Message(h, attempt[h]) : h \in {h \in Begun : Travelling(attempt[h])}}
           Row(h) == CHOOSE r \in stored : begun + Rank(r) = h
<1>1. /\ begun + count <= MaxAttempts /\ begun' = begun + count
      /\ retained' = (begun + 1) .. begun'
      /\ attempt' = [h \in Serials |-> IF h \in retained' THEN Reattached(Row(h)) ELSE None]
      /\ late' = late \cup travelling
      /\ epoch' = epoch /\ stored' = stored /\ refusing' = refusing /\ applied' = applied
      /\ closed' = closed
  BY DEF Reload, Rank
<1>2. /\ count \in Nat
      /\ \A r \in stored : Rank(r) \in 1 .. count
      /\ \A q, r \in stored : Rank(q) = Rank(r) => q = r
      /\ \A n \in 1 .. count : \E r \in stored : Rank(r) = n
  BY RankIsOneToOne
<1>3. begun \in Nat /\ begun' \in 0 .. MaxAttempts /\ begun <= begun'
  BY <1>1, <1>2, RequestAssumption DEF FacadeInv, Types
<1>4. \A h \in retained' : h \in Serials /\ Row(h) \in stored /\ begun + Rank(Row(h)) = h
  <2> TAKE h \in retained'
  <2>1. h \in Serials /\ h - begun \in 1 .. count
    BY <1>1, <1>2, <1>3, RequestAssumption DEF Serials
  <2>2. PICK r \in stored : Rank(r) = h - begun
    BY <2>1, <1>2
  <2>3. begun + Rank(r) = h
    BY <2>1, <2>2, <1>2, <1>3 DEF Serials
  <2>4. \E q \in stored : begun + Rank(q) = h
    BY <2>3
  <2> QED BY <2>1, <2>4
<1>5. \A r \in stored : begun + Rank(r) \in retained' /\ Row(begun + Rank(r)) = r
  <2> TAKE r \in stored
  <2>1. begun + Rank(r) \in retained'
    BY <1>1, <1>2, <1>3
  <2>2. /\ Row(begun + Rank(r)) \in stored
        /\ begun + Rank(Row(begun + Rank(r))) = begun + Rank(r)
    BY <2>1, <1>4
  <2>3. Rank(Row(begun + Rank(r))) = Rank(r)
    BY <2>2, <1>2, <1>3
  <2> QED BY <2>1, <2>2, <2>3, <1>2
<1>6. \A h \in retained' :
        /\ attempt'[h] = Reattached(Row(h)) /\ attempt'[h] # None
        /\ attempt'[h] \in Attempts /\ Sound(attempt'[h]) /\ IsRetained(attempt'[h])
        /\ InDoubt(attempt'[h]) /\ StoredRecord(attempt'[h]) = Row(h)
        /\ attempt'[h].kind = Row(h).kind /\ attempt'[h].key = Row(h).key
        /\ attempt'[h].op = Row(h).op /\ attempt'[h].input = Row(h).input
  <2> TAKE h \in retained'
  <2>1. attempt'[h] = Reattached(Row(h)) /\ Row(h) \in stored
    BY <1>1, <1>4
  <2> HIDE DEF Row
  <2> QED BY <2>1, ReattachedAttempt, AttemptIsOne
<1> HIDE DEF Row
<1>7. Begun' = retained' /\ attempt' \in [Serials -> Attempts \cup {None}]
  <2>1. \A h \in Serials : h \notin retained' => attempt'[h] = None
    BY <1>1
  <2>2. \A h \in Serials : attempt'[h] \in Attempts \cup {None}
    BY <2>1, <1>6
  <2>3. attempt' \in [Serials -> Attempts \cup {None}]
    BY <2>2, <1>1
  <2>4. \A h \in Serials : h \in retained' <=> attempt'[h] # None
    BY <2>1, <1>6
  <2> QED BY <2>3, <2>4, <1>4 DEF Begun
<1>8. \A h \in Begun : h \in 1 .. begun /\ attempt[h] # None
  BY <1>3, BegunAttempt DEF Serials, Begun
<1>t. Types'
  BY <1>1, <1>3, <1>7 DEF FacadeInv, Types
<1>a. AttemptsSound'
  <2> SUFFICES ASSUME NEW h \in retained'
               PROVE  h <= begun' /\ Sound(attempt[h])'
    BY <1>7 DEF AttemptsSound
  <2>1. h <= begun' /\ Sound(attempt'[h])
    BY <1>1, <1>3, <1>6
  <2>a. attempt'[h].op \in Nat
    BY <1>6 DEF Attempts, Serials
  <2>2. attempt'[h].op <= begun'
    BY <2>1, <2>a, <1>3 DEF Sound
  <2> QED BY <2>1, <2>2, <1>1 DEF Sound
<1>r. RetainedAgree'
  <2>1. \A h \in retained' : IsRetained(attempt[h])'
    BY <1>1, <1>6 DEF IsRetained, Live
  <2> QED BY <2>1, <1>7 DEF RetainedAgree
<1>d. RetainedDiffer'
  <2> SUFFICES ASSUME NEW g \in retained', NEW h \in retained',
                      Overlap(attempt'[g], attempt'[h])
               PROVE  g = h
    BY DEF RetainedDiffer, Overlap
  <2>1. Overlap(Row(g), Row(h))
    BY <1>6 DEF Overlap
  <2>2. Row(g) = Row(h)
    BY <2>1, <1>4 DEF FacadeInv, StoredDiffer
  <2> QED BY <2>2, <1>4
<1>s. StoredDiffer'
  <2>1. \A r \in stored : r.op \in Nat /\ r.op <= begun
    BY DEF FacadeInv, StoredDiffer, Types, StoredRows, Serials
  <2> QED BY <2>1, <1>1, <1>3 DEF FacadeInv, StoredDiffer
<1>i. ImportsAgree'
  <2>1. \A h \in Begun' : /\ attempt'[h].op = Row(h).op /\ attempt'[h].kind = Row(h).kind
                          /\ Row(h) \in stored
    BY <1>4, <1>6, <1>7
  <2>2. {attempt'[x].op : x \in {g \in Begun' : attempt'[g].kind = "source"}}
          \subseteq {x.op : x \in {q \in stored : q.kind = "source"}}
    BY <2>1
  <2>3. {n.id : n \in {n \in travelling : n.kind = "source"}}
          \subseteq {attempt[x].op : x \in {g \in Begun : attempt[g].kind = "source"}}
    BY DEF Message, ServerId
  <2>4. ImportOps' \subseteq ImportOps
    BY <2>2, <2>3, <1>1, ZenonT(60) DEF ImportOps
  <2>5. \A n \in ImportOps : n \in Serials /\ n <= begun'
    BY <1>3 DEF FacadeInv, ImportsAgree, Serials
  <2> QED BY <2>1, <2>4, <2>5, <1>1 DEF FacadeInv, ImportsAgree
<1>m. MessagesAgree'
  <2>1. \A m \in travelling : m.by \in 1 .. begun
    BY <1>8 DEF Message
  <2>2. \A m \in applied \cup late : m.by \in 1 .. begun
    BY DEF FacadeInv, MessagesAgree
  <2>3. \A m \in applied' \cup late' : m.by \in 1 .. begun'
    BY <2>1, <2>2, <1>1, <1>3
  <2> QED BY <2>3 DEF MessagesAgree
<1>u. Doubted'
  BY <1>6, <1>7 DEF Doubted, InDoubt
<1>c. Covered'
  BY <1>7 DEF Covered
<1>l. StoredAll'
  <2>1. stored = {StoredRecord(attempt'[h]) : h \in retained'}
    BY <1>4, <1>5, <1>6
  <2> QED BY <2>1, <1>1 DEF StoredAll
<1>w. WorkKept'
  <2> SUFFICES ASSUME ~refusing, NEW n \in applied' \cup late', n.kind \in RetainedKinds
               PROVE  \/ [id |-> n.id, input |-> n.input] \in closed
                      \/ \E r \in stored : [id |-> n.id, input |-> n.input] = Identity(r)
    BY <1>1 DEF WorkKept, Identity, ServerId
  <2>1. CASE n \in applied \cup late
    BY <2>1 DEF FacadeInv, WorkKept
  <2>2. CASE n \in travelling
    <3>1. PICK h \in Begun : n = Message(h, attempt[h])
      BY <2>2
    <3>2. [id |-> n.id, input |-> n.input] = Identity(attempt[h]) /\ attempt[h].kind \in RetainedKinds
      BY <3>1 DEF Message, Identity
    <3>3. h \in retained \/ Identity(attempt[h]) \in closed
      BY <3>2 DEF FacadeInv, Covered
    <3> QED BY <3>2, <3>3, RetainedIsStored
  <2> QED BY <2>1, <2>2, <1>1
<1> QED BY <1>t, <1>a, <1>r, <1>d, <1>s, <1>i, <1>m, <1>u, <1>c, <1>l, <1>w DEF FacadeInv

--------
(* The steps of one attempt, one by one.                                   *)

LEMMA ResumeKeeps ==
    ASSUME FacadeInv, NEW h \in retained, NEW r, attempt[h].input = r.input, Resume(h, r)
    PROVE  FacadeInv'
<1> DEFINE a == attempt[h]
           c == Dispatched(a)
           b == [c EXCEPT !.answers = @ \cup {r.input}]
<1>0. h \in Begun
  BY DEF FacadeInv, RetainedAgree
<1>e. attempt' = [attempt EXCEPT ![h] = b]
  BY DEF Resume
<1>1. /\ h \in Serials /\ a \in Attempts /\ Sound(a) /\ a.answers = {a.input}
      /\ a.input = r.input /\ IsRetained(a)
  BY <1>0, BegunAttempt DEF Sound
<1>2. /\ c \in Attempts /\ SameAttempt(a, c) /\ Sound(c)
      /\ c.outcome \notin Established /\ (InDoubt(a) => InDoubt(c))
  <2>1. CASE MayRun(a)
    BY <2>1, <1>1, RunAttempt DEF Dispatched, Established
  <2>2. CASE ~MayRun(a)
    BY <2>2, <1>1 DEF Dispatched, SameAttempt, IsRetained
  <2> QED BY <2>1, <2>2
<1> HIDE DEF c
<1>3. b = c
  <2>1. c.answers \cup {r.input} = c.answers
    BY <1>1, <1>2 DEF SameAttempt
  <2>2. c = [c EXCEPT !.answers = c.answers]
    BY <1>2 DEF Attempts
  <2> QED BY <2>1, <2>2
<1>4. OneStep(h, c)
  <2>1. /\ attempt' = [attempt EXCEPT ![h] = c]
        /\ UNCHANGED <<begun, retained, epoch, stored, refusing, late, applied, closed>>
    BY <1>3, <1>e DEF Resume
  <2>2. a.outcome \notin Established
    BY <1>1 DEF IsRetained
  <2> QED BY <2>1, <2>2, <1>2 DEF OneStep
<1> QED BY <1>0, <1>2, <1>4, OneStepKeeps DEF OneStep, Resume

LEMMA RetryKeeps ==
    ASSUME FacadeInv, NEW h \in Serials, Retry(h) \/ Recover(h)
    PROVE  FacadeInv'
<1> DEFINE a == attempt[h]
<1>1. h \in Begun /\ MayRun(a)
  BY DEF Retry, Recover
<1>2. a \in Attempts /\ Sound(a) /\ a.outcome \notin Established
  BY <1>1, BegunAttempt DEF MayRun
<1>3. PICK phase \in {"write", "recover"} :
         /\ phase = "recover" => a.kind = "confirm"
         /\ attempt' = [attempt EXCEPT ![h] = Run(a, phase)]
  BY <1>1 DEF Retry, Recover
<1> DEFINE b == Run(a, phase)
<1>4. /\ b \in Attempts /\ SameAttempt(a, b) /\ Sound(b) /\ b.outcome = "pending"
      /\ InDoubt(a) => InDoubt(b)
  BY <1>1, <1>2, <1>3, RunAttempt
<1> HIDE DEF b
<1>5. UNCHANGED <<begun, retained, epoch, stored, refusing, late, applied, closed>>
  BY DEF Retry, Recover
<1>6. OneStep(h, b)
  BY <1>2, <1>3, <1>4, <1>5 DEF OneStep, Established, b
<1> QED BY <1>1, <1>4, <1>5, <1>6, OneStepKeeps

LEMMA ServeKeeps ==
    ASSUME FacadeInv, NEW h \in Serials, Serve(h)
    PROVE  FacadeInv'
<1> DEFINE a == attempt[h]
           m == Message(h, a)
<1>1. h \in Begun /\ a.phase = "write" /\ a.reply = None
  BY DEF Serve, Travelling
<1>2. a \in Attempts /\ Sound(a) /\ a.outcome \notin Established
  BY <1>1, BegunAttempt DEF Sound
<1>3. PICK reply \in {"ok", "refused", "failed"} :
         /\ attempt' = [attempt EXCEPT ![h].reply = reply]
         /\ applied' \subseteq applied \cup {m}
         /\ reply = "refused" => applied' = applied
  BY DEF Serve, Apply
<1> DEFINE b == Heard(a, "write", reply)
<1>4. /\ b \in Attempts /\ SameAttempt(a, b) /\ Sound(b) /\ b.outcome = a.outcome
      /\ b.uncertain = a.uncertain /\ b.reply = reply
  BY <1>1, <1>2, ReplyAttempt DEF Replies
<1>5. attempt' = [attempt EXCEPT ![h] = b]
  BY <1>1, <1>2, <1>3 DEF Attempts, Heard
<1>6. reply \in {"ok", "failed"} => InDoubt(b)
  BY <1>4 DEF InDoubt
<1>7. InDoubt(a) => InDoubt(b)
  BY <1>1, <1>4, AttemptAssumption DEF InDoubt, SameAttempt
<1> HIDE DEF b
<1>8. OneStep(h, b) /\ late' = late
  BY <1>3, <1>4, <1>5 DEF OneStep, Serve
<1>9. InDoubt(b) \/ ((InDoubt(a) => InDoubt(b)) /\ applied' \cup late' \subseteq applied \cup late)
  BY <1>3, <1>6, <1>7, <1>8
<1> QED BY <1>1, <1>8, <1>9, OneStepKeeps

LEMMA ServeReadKeeps ==
    ASSUME FacadeInv, NEW h \in Serials, ServeRead(h)
    PROVE  FacadeInv'
<1> DEFINE a == attempt[h]
<1>1. h \in Begun /\ a.phase \in {"verify", "recover"} /\ a.reply = None
  BY DEF ServeRead
<1>2. a \in Attempts /\ Sound(a) /\ a.outcome \notin Established /\ a.kind = "confirm"
  BY <1>1, BegunAttempt DEF Sound
<1>3. PICK reply \in {"recorded", "absent"} : attempt' = [attempt EXCEPT ![h].reply = reply]
  BY DEF ServeRead
<1> DEFINE b == Heard(a, a.phase, reply)
<1>4. b \in Attempts /\ SameAttempt(a, b) /\ Sound(b) /\ b.outcome = a.outcome
  BY <1>1, <1>2, ReplyAttempt DEF Replies
<1>5. attempt' = [attempt EXCEPT ![h] = b]
  BY <1>2, <1>3 DEF Attempts, Heard
<1>6. InDoubt(b)
  BY <1>2, <1>4 DEF InDoubt, SameAttempt
<1> HIDE DEF b
<1>7. OneStep(h, b)
  BY <1>4, <1>5 DEF OneStep, ServeRead
<1> QED BY <1>1, <1>6, <1>7, OneStepKeeps

LEMMA LoseKeeps ==
    ASSUME FacadeInv, NEW h \in Serials, Lose(h)
    PROVE  FacadeInv'
<1> DEFINE a == attempt[h]
<1>1. h \in Begun /\ a.phase # "idle" /\ attempt' = [attempt EXCEPT ![h].reply = "failed"]
  BY DEF Lose
<1>2. a \in Attempts /\ Sound(a) /\ a.outcome \notin Established
  BY <1>1, BegunAttempt DEF Sound
<1> DEFINE b == Heard(a, a.phase, "failed")
<1>3. /\ b \in Attempts /\ SameAttempt(a, b) /\ Sound(b) /\ b.outcome = a.outcome
      /\ b.reply = "failed"
  <2>1. a.phase \in {"idle", "write", "verify", "recover"}
    BY <1>2 DEF Attempts
  <2> QED BY <2>1, <1>1, <1>2, ReplyAttempt DEF Replies, Sound
<1>4. attempt' = [attempt EXCEPT ![h] = b]
  BY <1>1, <1>2 DEF Attempts, Heard
<1>5. InDoubt(b)
  BY <1>3 DEF InDoubt
<1> HIDE DEF b
<1>6. OneStep(h, b)
  BY <1>3, <1>4 DEF OneStep, Lose
<1> QED BY <1>1, <1>5, <1>6, OneStepKeeps

LEMMA DoubtKeeps ==
    ASSUME FacadeInv, NEW h \in Serials, Doubt(h)
    PROVE  FacadeInv'
<1> DEFINE a == attempt[h]
           b == IF Verifies(a) THEN Heard(a, "verify", None)
                ELSE Unresolved(a)
<1>1. h \in Begun /\ a.reply # None /\ ~a.disposed /\ attempt' = [attempt EXCEPT ![h] = b]
  BY DEF Doubt, Answered, Hears, Heard
<1>2. a \in Attempts /\ Sound(a) /\ a.outcome \notin Established
  BY <1>1, BegunAttempt DEF Sound
<1>3. /\ b \in Attempts /\ SameAttempt(a, b) /\ Sound(b) /\ b.outcome \notin Established
      /\ InDoubt(b)
  <2>1. CASE Verifies(a)
    <3>1. b = Heard(a, "verify", None) /\ a.kind = "confirm"
          /\ a.phase # "idle"
      BY <2>1 DEF Verifies
    <3>2. b \in Attempts /\ SameAttempt(a, b) /\ Sound(b) /\ b.outcome = a.outcome
      BY <3>1, <1>2, ReplyAttempt DEF Replies
    <3> QED BY <3>1, <3>2, <1>2 DEF InDoubt, SameAttempt
  <2>2. CASE ~Verifies(a)
    <3>1. b = Unresolved(a)
      BY <2>2
    <3>2. b \in Attempts /\ SameAttempt(a, b) /\ Sound(b) /\ b.outcome = "unknown" /\ b.uncertain
      BY <3>1, <1>2, UnresolvedAttempt
    <3> QED BY <3>2 DEF InDoubt, Established
  <2> QED BY <2>1, <2>2
<1> HIDE DEF b
<1>4. OneStep(h, b)
  BY <1>1, <1>2, <1>3 DEF OneStep, Doubt
<1> QED BY <1>1, <1>3, <1>4, OneStepKeeps

LEMMA IgnoreKeeps ==
    ASSUME FacadeInv, NEW h \in Serials, Ignore(h)
    PROVE  FacadeInv'
<1> DEFINE a == attempt[h]
           b == Heard(a, "idle", None)
<1>1. h \in Begun /\ a.disposed /\ attempt' = [attempt EXCEPT ![h] = b]
  BY DEF Ignore, Answered, Hears, Heard
<1>2. a \in Attempts /\ Sound(a)
  BY <1>1, BegunAttempt
<1>3. b \in Attempts /\ SameAttempt(a, b) /\ Sound(b) /\ b.outcome = a.outcome
  BY <1>2, ReplyAttempt, AttemptAssumption DEF Replies
<1>4. InDoubt(b)
  BY <1>1, <1>3 DEF InDoubt, SameAttempt
<1> HIDE DEF b
<1>5. OneStep(h, b)
  BY <1>1, <1>3 DEF OneStep, Ignore
<1> QED BY <1>1, <1>4, <1>5, OneStepKeeps

\* A request nobody waits for changes nothing of the page and its storage.
LEMMA ServeLateKeeps ==
    ASSUME FacadeInv, NEW m \in late, ServeLate(m)
    PROVE  FacadeInv'
<1>1. /\ applied' \cup late' \subseteq applied \cup late
      /\ attempt' = attempt /\ begun' = begun /\ retained' = retained /\ epoch' = epoch
      /\ stored' = stored /\ refusing' = refusing /\ closed' = closed
  BY DEF ServeLate, Apply
<1>2. Begun' = Begun
  BY <1>1 DEF Begun
<1>3. Types' /\ AttemptsSound' /\ RetainedAgree' /\ RetainedDiffer' /\ StoredDiffer'
  BY <1>1, <1>2 DEF FacadeInv, Types, AttemptsSound, Sound, RetainedAgree, IsRetained, Live,
                    RetainedDiffer, StoredDiffer
<1>4. ImportsAgree' /\ MessagesAgree'
  <2>1. ImportOps' \subseteq ImportOps
    BY <1>1, <1>2 DEF ImportOps
  <2> QED BY <2>1, <1>1, <1>2 DEF FacadeInv, ImportsAgree, MessagesAgree
<1>5. Doubted' /\ Covered' /\ StoredAll' /\ WorkKept'
  BY <1>1, <1>2 DEF FacadeInv, Doubted, Covered, StoredAll, WorkKept
<1> QED BY <1>3, <1>4, <1>5 DEF FacadeInv

--------
(* The consumer's steps.                                                   *)

LEMMA RequestFields ==
    ASSUME NEW r \in Requests
    PROVE  r.kind \in Kinds /\ r.key \in InputKeys /\ r.input \in InputValues
BY RequestAssumption DEF InputKeys, InputValues

\* A visitor may reopen what is an import.
LEMMA KnownAreImports ==
    ASSUME FacadeInv
    PROVE  KnownImports \subseteq ImportOps /\ KnownImports \subseteq Serials
<1>1. KnownImports \subseteq ImportOps
  BY DEF KnownImports, ImportOps
<1> QED BY <1>1 DEF FacadeInv, ImportsAgree

LEMMA SubmitKeeps ==
    ASSUME FacadeInv, NEW r \in Requests, Submit(r)
    PROVE  FacadeInv'
<1>1. CASE \E h \in SameIdentity(r) : Resumes(h, r) /\ Resume(h, r)
  <2>1. PICK h \in retained : attempt[h].input = r.input /\ Resume(h, r)
    BY <1>1 DEF SameIdentity, Resumes
  <2> QED BY <2>1, ResumeKeeps
<1>2. CASE SameIdentity(r) = {} /\ Begin(r, begun + 1)
  BY <1>2, RequestFields, BeginKeeps
<1> QED BY <1>1, <1>2 DEF Submit

LEMMA ReopenKeeps ==
    ASSUME FacadeInv, NEW r \in Requests, NEW op \in Serials, ReopenSourceImport(r, op)
    PROVE  FacadeInv'
<1> DEFINE same == {h \in retained : attempt[h].kind = "source" /\ attempt[h].op = op}
<1>1. r.kind = "source" /\ op \in ImportOps
  BY KnownAreImports DEF ReopenSourceImport
<1>2. CASE \E h \in same : attempt[h].input = r.input /\ Resume(h, r)
  <2>1. PICK h \in retained : attempt[h].input = r.input /\ Resume(h, r)
    BY <1>2
  <2> QED BY <2>1, ResumeKeeps
<1>3. CASE same = {} /\ Begin(r, op)
  <2>1. \A h \in retained : attempt[h].op # op
    <3>1. \A h \in retained : attempt[h].op = op => attempt[h].kind = "source"
      BY <1>1 DEF FacadeInv, RetainedAgree, ImportsAgree
    <3> QED BY <3>1, <1>3
  <2> QED BY <2>1, <1>1, <1>3, RequestFields, BeginKeeps
<1> QED BY <1>2, <1>3 DEF ReopenSourceImport

LEMMA DiscardKeeps ==
    ASSUME FacadeInv, NEW op \in Serials, DiscardImportSession(op)
    PROVE  FacadeInv'
<1> DEFINE r == [kind |-> "discard", key |-> op, input |-> None]
<1>1. /\ Begin(r, begun + 1) /\ r.kind = "discard"
      /\ r.kind \in Kinds /\ r.key \in InputKeys /\ r.input \in InputValues
  BY DEF DiscardImportSession, Kinds, InputKeys, InputValues
<1> HIDE DEF r
<1> QED BY <1>1, BeginKeeps

LEMMA BeginningKeeps ==
    ASSUME FacadeInv, NEW r \in Requests, BeginSourceImport(r) \/ Change(r)
    PROVE  FacadeInv'
<1>1. Begin(r, begun + 1) /\ r.kind \notin {"confirm", "stage"}
  BY DEF BeginSourceImport, Change
<1> QED BY <1>1, RequestFields, BeginKeeps

--------
(* The invariant, and what follows from it.                                *)

LEMMA FacadeInit == Init => FacadeInv
<1> SUFFICES ASSUME Init
             PROVE  FacadeInv
  OBVIOUS
<1>1. Begun = {} /\ stored = {} /\ retained = {} /\ applied = {} /\ late = {}
  BY DEF Init, Begun
<1>2. Types
  BY <1>1, RequestAssumption, FS_EmptySet DEF Init, Types
<1> QED BY <1>1, <1>2 DEF FacadeInv, AttemptsSound, RetainedAgree, RetainedDiffer, StoredDiffer,
           ImportsAgree, ImportOps, MessagesAgree, Doubted, Covered, StoredAll, WorkKept

LEMMA FacadeNext == FacadeInv /\ [Next]_vars => FacadeInv'
<1> SUFFICES ASSUME FacadeInv, [Next]_vars
             PROVE  FacadeInv'
  OBVIOUS
<1>1. CASE Consumer
  <2>1. CASE \E r \in Requests : Submit(r)
    BY <2>1, SubmitKeeps
  <2>2. CASE \E r \in Requests : BeginSourceImport(r) \/ Change(r)
    BY <2>2, BeginningKeeps
  <2>3. CASE \E r \in Requests : \E op \in Serials : ReopenSourceImport(r, op)
    BY <2>3, ReopenKeeps
  <2>4. CASE \E op \in Serials : DiscardImportSession(op)
    BY <2>4, DiscardKeeps
  <2>5. CASE \E h \in Serials : Retry(h) \/ Recover(h)
    BY <2>5, RetryKeeps
  <2> QED BY <2>1, <2>2, <2>3, <2>4, <2>5, <1>1 DEF Consumer
<1>2. CASE Transport
  <2>1. CASE \E h \in Serials : Serve(h)
    BY <2>1, ServeKeeps
  <2>2. CASE \E h \in Serials : ServeRead(h)
    BY <2>2, ServeReadKeeps
  <2>3. CASE \E h \in Serials : Lose(h)
    BY <2>3, LoseKeeps
  <2>4. CASE \E m \in late : ServeLate(m)
    BY <2>4, ServeLateKeeps
  <2> QED BY <2>1, <2>2, <2>3, <2>4, <1>2 DEF Transport
<1>3. CASE Report
  <2>1. CASE \E h \in Serials : Settle(h)
    BY <2>1, SettleKeeps
  <2>2. CASE \E h \in Serials : Doubt(h)
    BY <2>2, DoubtKeeps
  <2>3. CASE \E h \in Serials : Ignore(h)
    BY <2>3, IgnoreKeeps
  <2> QED BY <2>1, <2>2, <2>3, <1>3 DEF Report
<1>4. CASE Release
  BY <1>4, ReleaseKeeps
<1>5. CASE Reload
  BY <1>5, ReloadKeeps
<1>6. CASE UNCHANGED vars
  BY <1>6 DEF vars, FacadeInv, Types, AttemptsSound, Sound, RetainedAgree, IsRetained, Live,
              RetainedDiffer, StoredDiffer, ImportsAgree, ImportOps, MessagesAgree, Doubted,
              Covered, StoredAll, WorkKept, Begun
<1> QED BY <1>1, <1>2, <1>3, <1>4, <1>5, <1>6 DEF Next

\* The page, the browsing session's storage and the requests on their way
\* agree in every state of the facade (operations.ts).
THEOREM FacadeInductive == Spec => []FacadeInv
<1> QED BY FacadeInit, FacadeNext, PTL DEF Spec

\* Work of a retained kind that the server did, or may still do, was reported,
\* abandoned by its owner, or is kept where a reload finds it, across every
\* loss, late answer, sign-out and reload (writeStoredAttempts, established,
\* release).
THEOREM WorkIsKept == Spec => []UnreportedWorkIsKept
<1>1. FacadeInv => UnreportedWorkIsKept
  <2> SUFFICES ASSUME FacadeInv, ~refusing,
                      NEW m \in applied \cup late \cup
                        {Message(h, attempt[h]) : h \in {h \in Begun : Travelling(attempt[h])}},
                      m.kind \in RetainedKinds
               PROVE  \/ [id |-> m.id, input |-> m.input] \in closed
                      \/ \E r \in stored : [id |-> m.id, input |-> m.input] = Identity(r)
    BY DEF UnreportedWorkIsKept, Identity
  <2>1. CASE m \in applied \cup late
    BY <2>1 DEF FacadeInv, WorkKept
  <2>2. CASE m \notin applied \cup late
    <3>1. PICK h \in Begun : m = Message(h, attempt[h])
      BY <2>2
    <3>2. /\ [id |-> m.id, input |-> m.input] = Identity(attempt[h])
          /\ attempt[h].kind \in RetainedKinds
      BY <3>1 DEF Message, Identity
    <3>3. h \in retained \/ Identity(attempt[h]) \in closed
      BY <3>2 DEF FacadeInv, Covered
    <3> QED BY <3>2, <3>3, RetainedIsStored
  <2> QED BY <2>1, <2>2
<1> QED BY <1>1, FacadeInductive, PTL

\* An identity works for one holder at a time, a handle answers for the input
\* its holders presented, and a refusal reported as definite did nothing, nor
\* will (resumeOrBegin, attemptWrite).
THEOREM WorksAtMostOnce == Spec => []AtMostOnce
<1>1. FacadeInv => OneAttemptPerIdentity
  BY DEF FacadeInv, RetainedDiffer, Overlap, AttemptsSound, Sound, OneAttemptPerIdentity
<1>2. FacadeInv => RefusedDidNotApply
  <2> SUFFICES ASSUME FacadeInv, NEW h \in Begun, attempt[h].outcome = "rejected",
                      attempt[h].kind # "confirm", NEW m \in applied \cup late, m.by = h
               PROVE  FALSE
    BY DEF RefusedDidNotApply
  <2>1. attempt[h].reply = None /\ ~attempt[h].uncertain /\ ~attempt[h].disposed
    BY DEF FacadeInv, AttemptsSound, Sound, Established
  <2> QED BY <2>1, AttemptAssumption DEF FacadeInv, Doubted
<1> QED BY <1>1, <1>2, FacadeInductive, PTL DEF AtMostOnce

--------
(* What a step may never do to an attempt.                                 *)

\* From a to b: what is reported stands, and nothing of an ended account, of
\* a discarded import or of a creation is sent again.
NotReopened(a, b) ==
    /\ a.outcome \in Established \/ a.disposed => b.outcome = a.outcome
    /\ b.phase \notin {"idle", a.phase} => Live(a) /\ a.kind # "create"

Stays == \A g \in Serials :
    attempt[g] # None /\ attempt'[g] # None => NotReopened(attempt[g], attempt'[g])

LEMMA OneStays ==
    ASSUME FacadeInv, NEW h \in Begun, NEW b, NotReopened(attempt[h], b),
           attempt' = [attempt EXCEPT ![h] = b]
    PROVE  Stays
<1>1. \A g \in Serials : attempt'[g] = IF g = h THEN b ELSE attempt[g]
  BY DEF FacadeInv, Types
<1> QED BY <1>1 DEF Stays, NotReopened

LEMMA RunStays ==
    ASSUME NEW a \in Attempts, MayRun(a), NEW phase \in {"write", "recover"},
           phase = "recover" => a.kind = "confirm", a.kind # "create"
    PROVE  NotReopened(a, Run(a, phase))
<1>1. a.outcome \notin Established /\ ~a.disposed /\ Live(a)
  BY DEF MayRun, Live
<1> QED BY <1>1 DEF NotReopened

LEMMA ConsumerStays ==
    ASSUME FacadeInv, Consumer
    PROVE  Stays
<1>1. ASSUME NEW r, NEW op, Begin(r, op)
      PROVE  Stays
  <2>1. begun + 1 \notin Begun /\ attempt' = [attempt EXCEPT ![begun + 1] = NewAttempt(r, op)]
    BY <1>1, BegunAttempt DEF Begin, FacadeInv, Types, Serials
  <2>2. \A g \in Serials : g = begun + 1 \/ attempt'[g] = attempt[g]
    BY <2>1 DEF FacadeInv, Types
  <2> QED BY <2>1, <2>2 DEF Stays, NotReopened, Begun
<1>2. ASSUME NEW r, NEW h \in retained, Resume(h, r)
      PROVE  Stays
  <2> DEFINE a == attempt[h]
             c == Dispatched(a)
             b == [c EXCEPT !.answers = @ \cup {r.input}]
  <2>1. attempt' = [attempt EXCEPT ![h] = b]
    BY <1>2 DEF Resume
  <2>2. h \in Begun /\ IsRetained(a) /\ a \in Attempts /\ Sound(a)
    BY BegunAttempt DEF FacadeInv, RetainedAgree
  <2>3. a.kind # "create"
    BY <2>2 DEF IsRetained, RetainedKinds
  <2>4. NotReopened(a, c) /\ c \in Attempts
    <3>1. CASE MayRun(a)
      BY <2>2, <2>3, <3>1, RunStays, RunAttempt DEF Dispatched
    <3>2. CASE ~MayRun(a)
      BY <2>2, <3>2 DEF Dispatched, NotReopened
    <3> QED BY <3>1, <3>2
  <2>5. b.outcome = c.outcome /\ b.phase = c.phase
    BY <2>4 DEF Attempts
  <2>6. NotReopened(a, b)
    BY <2>4, <2>5 DEF NotReopened
  <2> HIDE DEF b
  <2> QED BY <2>1, <2>2, <2>6, OneStays
<1>3. ASSUME NEW h \in Serials, Retry(h) \/ Recover(h)
      PROVE  Stays
  <2> DEFINE a == attempt[h]
  <2>1. h \in Begun /\ MayRun(a) /\ a.kind # "create"
    BY <1>3 DEF Retry, Retries, Recover, RetainedKinds
  <2>2. PICK phase \in {"write", "recover"} :
           /\ phase = "recover" => a.kind = "confirm"
           /\ attempt' = [attempt EXCEPT ![h] = Run(a, phase)]
    BY <2>1, <1>3 DEF Retry, Recover
  <2>3. a \in Attempts
    BY <2>1, BegunAttempt
  <2>4. NotReopened(a, Run(a, phase))
    BY <2>1, <2>2, <2>3, RunStays
  <2> QED BY <2>1, <2>2, <2>4, OneStays
<1>4. ASSUME NEW r \in Requests, Submit(r)
      PROVE  Stays
  BY <1>1, <1>2, <1>4 DEF Submit, SameIdentity
<1>5. ASSUME NEW r \in Requests, NEW op \in Serials, ReopenSourceImport(r, op)
      PROVE  Stays
  BY <1>1, <1>2, <1>5 DEF ReopenSourceImport
<1>6. ASSUME NEW r \in Requests, BeginSourceImport(r) \/ Change(r)
      PROVE  Stays
  BY <1>1, <1>6 DEF BeginSourceImport, Change
<1>7. ASSUME NEW op \in Serials, DiscardImportSession(op)
      PROVE  Stays
  BY <1>1, <1>7 DEF DiscardImportSession
<1> QED BY <1>3, <1>4, <1>5, <1>6, <1>7 DEF Consumer

LEMMA TransportStays ==
    ASSUME FacadeInv, Transport
    PROVE  Stays
<1>1. ASSUME NEW h \in Begun, NEW reply, attempt' = [attempt EXCEPT ![h].reply = reply]
      PROVE  Stays
  <2> DEFINE a == attempt[h]
             b == [a EXCEPT !.reply = reply]
  <2>1. attempt' = [attempt EXCEPT ![h] = b]
    BY <1>1
  <2>2. b.outcome = a.outcome /\ b.phase = a.phase
    BY BegunAttempt DEF Attempts
  <2>3. NotReopened(a, b)
    BY <2>2 DEF NotReopened
  <2> HIDE DEF b
  <2> QED BY <2>1, <2>3, OneStays
<1>2. ASSUME NEW h \in Serials, Serve(h) \/ ServeRead(h) \/ Lose(h)
      PROVE  Stays
  BY <1>1, <1>2 DEF Serve, ServeRead, Lose
<1>3. ASSUME NEW m \in late, ServeLate(m)
      PROVE  Stays
  BY <1>3 DEF ServeLate, Stays, NotReopened
<1> QED BY <1>2, <1>3 DEF Transport

LEMMA ReportStays ==
    ASSUME FacadeInv, Report
    PROVE  Stays
<1>1. ASSUME NEW h \in Serials, Settle(h)
      PROVE  Stays
  <2> DEFINE a == attempt[h]
             b == Establish(a, IF Commits(a) THEN "committed" ELSE "rejected")
  <2>1. /\ h \in Begun /\ a.reply # None /\ ~a.disposed
        /\ attempt' = [g \in Serials |->
              IF g = h THEN b ELSE IF g \in Abandoned(h) THEN Disposed(attempt[g]) ELSE attempt[g]]
    BY <1>1 DEF Settle, Answered, Hears
  <2>2. a \in Attempts /\ Sound(a) /\ a.outcome \notin Established
    BY <2>1, BegunAttempt DEF Sound
  <2>3. b.phase = "idle"
    BY <2>2 DEF Establish, Attempts
  <2>4. NotReopened(a, b)
    BY <2>1, <2>2, <2>3 DEF NotReopened
  <2> HIDE DEF b
  <2>5. \A g \in Abandoned(h) : NotReopened(attempt[g], Disposed(attempt[g]))
    <3> TAKE g \in Abandoned(h)
    <3>1. g \in Begun /\ IsRetained(attempt[g])
      BY DEF FacadeInv, RetainedAgree, Abandoned
    <3>2. attempt[g] \in Attempts /\ Sound(attempt[g]) /\ attempt[g].outcome \notin Established
      BY <3>1, BegunAttempt DEF IsRetained
    <3>3. Disposed(attempt[g]).phase = attempt[g].phase
      BY <3>2, DisposedAttempt
    <3>4. ~attempt[g].disposed
      BY <3>1 DEF IsRetained, Live
    <3> QED BY <3>2, <3>3, <3>4 DEF NotReopened
  <2> SUFFICES ASSUME NEW g \in Serials
               PROVE  NotReopened(attempt[g], attempt'[g])
    BY DEF Stays
  <2>6. CASE g = h
    BY <2>1, <2>4, <2>6
  <2>7. CASE g # h /\ g \in Abandoned(h)
    BY <2>1, <2>5, <2>7
  <2>8. CASE g # h /\ g \notin Abandoned(h)
    BY <2>1, <2>8 DEF NotReopened
  <2> QED BY <2>6, <2>7, <2>8
<1>2. ASSUME NEW h \in Serials, Doubt(h)
      PROVE  Stays
  <2> DEFINE a == attempt[h]
             b == IF Verifies(a) THEN Heard(a, "verify", None) ELSE Unresolved(a)
  <2>1. h \in Begun /\ a.reply # None /\ ~a.disposed /\ attempt' = [attempt EXCEPT ![h] = b]
    BY <1>2 DEF Doubt, Answered, Hears, Heard
  <2>2. a \in Attempts /\ Sound(a) /\ a.outcome \notin Established
    BY <2>1, BegunAttempt DEF Sound
  <2>3. Live(a)
    BY <2>1, <2>2 DEF Sound, Live
  <2>4. b.phase = "idle" \/ a.kind = "confirm"
    BY <2>2 DEF Unresolved, Attempts, Verifies
  <2>5. NotReopened(a, b)
    BY <2>1, <2>2, <2>3, <2>4 DEF NotReopened
  <2> HIDE DEF b
  <2> QED BY <2>1, <2>5, OneStays
<1>3. ASSUME NEW h \in Serials, Ignore(h)
      PROVE  Stays
  <2> DEFINE a == attempt[h]
             b == Heard(a, "idle", None)
  <2>1. h \in Begun /\ attempt' = [attempt EXCEPT ![h] = b]
    BY <1>3 DEF Ignore, Answered, Heard
  <2>2. b.phase = "idle" /\ b.outcome = a.outcome
    BY <2>1, BegunAttempt DEF Heard, Attempts
  <2>3. NotReopened(a, b)
    BY <2>2 DEF NotReopened
  <2> HIDE DEF b
  <2> QED BY <2>1, <2>3, OneStays
<1> QED BY <1>1, <1>2, <1>3 DEF Report

LEMMA EndingStays ==
    ASSUME FacadeInv, Release \/ Reload
    PROVE  Stays
<1>1. CASE Release
  <2> SUFFICES ASSUME NEW g \in Begun
               PROVE  NotReopened(attempt[g], attempt'[g])
    BY DEF Stays, Begun
  <2>1. g \in Serials /\ attempt[g] \in Attempts /\ Sound(attempt[g]) /\ attempt[g] # None
    BY BegunAttempt DEF Begun
  <2>2. CASE attempt[g].outcome \in Established
    <3>1. attempt'[g] = attempt[g]
      BY <1>1, <2>1, <2>2 DEF Release
    <3> QED BY <3>1 DEF NotReopened
  <2>3. CASE attempt[g].outcome \notin Established
    <3>1. attempt'[g] = Disposed(attempt[g])
      BY <1>1, <2>1, <2>3 DEF Release
    <3>2. attempt'[g].phase = attempt[g].phase /\ attempt'[g].outcome = "unknown"
      BY <3>1, <2>1, <2>3, DisposedAttempt
    <3> QED BY <3>2, <2>1, <2>3 DEF NotReopened, Sound
  <2> QED BY <2>2, <2>3
<1>2. CASE Reload
  <2>1. /\ retained' = (begun + 1) .. begun'
        /\ \A h \in Serials : h \notin retained' => attempt'[h] = None
    BY <1>2 DEF Reload
  <2>2. \A h \in Begun : h \in Nat /\ h <= begun /\ begun \in Nat
    BY BegunAttempt, RequestAssumption DEF FacadeInv, Types, Serials
  <2>3. \A h \in Begun : h \notin retained'
    BY <2>1, <2>2
  <2> QED BY <2>1, <2>3 DEF Stays, Begun
<1> QED BY <1>1, <1>2

\* What is settled is never reopened: an outcome once established, or the
\* doubt a disposed attempt was left in, stands, and nothing of an ended
\* account, of a discarded import or of a creation is sent again (established,
\* release, runExclusive).
THEOREM SettledStands == Spec => NeverReopened
<1>1. FacadeInv /\ [Next]_vars =>
        [\A h \in Serials :
          attempt[h] # None /\ attempt'[h] # None
            /\ (attempt[h].outcome \in Established \/ attempt[h].disposed)
              => attempt'[h].outcome = attempt[h].outcome]_vars
  BY ConsumerStays, TransportStays, ReportStays, EndingStays DEF Next, Stays, NotReopened
<1>2. FacadeInv /\ [Next]_vars =>
        [\A h \in Serials :
          attempt[h] # None /\ attempt'[h] # None
            /\ attempt'[h].phase \notin {"idle", attempt[h].phase}
              => Live(attempt[h]) /\ attempt[h].kind # "create"]_vars
  BY ConsumerStays, TransportStays, ReportStays, EndingStays DEF Next, Stays, NotReopened
<1>3. Spec => ReportedOutcomeFinal
  BY <1>1, FacadeInductive, PTL DEF Spec, ReportedOutcomeFinal
<1>4. Spec => Fenced
  BY <1>2, FacadeInductive, PTL DEF Spec, Fenced
<1> QED BY <1>3, <1>4 DEF NeverReopened
=============================================================================
