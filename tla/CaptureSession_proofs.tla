------------------------- MODULE CaptureSession_proofs -------------------------
(***************************************************************************)
(* What one live capture session promises for any number of captures,      *)
(* readings and camera lifetimes: one write at a time, one camera, and no  *)
(* camera before what an earlier session left unfinished.                  *)
(*                                                                         *)
(* None of the three holds by itself.  A handler may write because nothing *)
(* else can while its attempt is busy (Turns): the owner's retry waits for *)
(* a busy session, and a recovery that runs keeps new attempts away.  A    *)
(* late grant finds no stream open because only the lifetime that is       *)
(* starting can own one (Cameras).  And an empty list of retained captures *)
(* is trusted only where no write is pending, since a list is not read     *)
(* again before the next write ends (Recovered).                           *)
(*                                                                         *)
(* The last part is about the readings that wait for their comparison:     *)
(* each is held once or accounted for, what was recorded was kept, and a   *)
(* lost outcome leaves its reading uncertain (ComparisonInv).              *)
(***************************************************************************)
EXTENDS CaptureSession, FiniteSetTheorems, SequenceTheorems, TLAPS

Lives ==
    [running : BOOLEAN, starting : BOOLEAN, controller : Lifetimes, camera : Lifetimes,
     prepared : BOOLEAN, preparing : Lifetimes, busy : BOOLEAN, current : 0 .. MaxCaptures]

Writes == [attempt : Captures, by : {"handler", "retry"}, call : {"submit", "attach"}]

Known(a) == attempt[a] # None

Shapes ==
    /\ live \in Lives /\ lifetimes \in Lifetimes /\ live.controller <= lifetimes
    /\ opening \cup open \cup readying \subseteq 1 .. lifetimes
    /\ begun \in Foreign .. MaxCaptures /\ pending \in 0 .. begun
    /\ saves \subseteq Writes /\ unfinished \subseteq 1 .. begun
    /\ attempt \in [Captures -> Attempts \cup {None}]
    /\ pending # 0 => Known(pending)
    /\ \A a \in Captures : Known(a) => a <= begun

\* The writes in flight are one, of the pending attempt, and make the call its
\* record asks for.
OneWrite ==
    /\ \A s, t \in saves : s = t
    /\ saving = (saves # {})
    /\ \A s \in saves :
          /\ s.attempt = pending
          /\ s.call = NextCall(attempt[s.attempt])

\* A busy session handles the readings of its attempt and nothing else writes;
\* while a recovery runs, the session is not busy.
Turns ==
    /\ live.busy =>
          /\ live.running /\ recovering = <<>>
          /\ pending \in {0, live.current} /\ \A s \in saves : s.by = "handler"
    /\ recovering # <<>> => \A s \in saves : s.by = "retry"
    /\ \A a \in Captures : Known(a) =>
          /\ attempt[a].phase = "preparing" => attempt[a].queue = <<>>
          /\ attempt[a].phase # "over" => live.current = a
          /\ live.current = a /\ attempt[a].queue # <<>> => attempt[a].phase = "recognizing"
          /\ live.current = a /\ attempt[a].phase # "over" => live.busy

\* Only the lifetime that is starting may still be granted a stream.
Cameras ==
    /\ OneCamera
    /\ closed => ~live.running /\ ~live.starting
    /\ live.controller \in opening /\ ~closed => live.starting
    /\ live.starting => ~live.running
    /\ live.running => live.controller # 0
    /\ ~live.running => live.current = 0
    /\ live.current # 0 => live.current > Foreign

Recovered ==
    /\ pending = 0 => unfinished \cap 1 .. Foreign \subseteq retained
    /\ live.running \/ live.starting =>
          unfinished \cap 1 .. Foreign = {} /\ pending \notin 1 .. Foreign

CaptureInv == Shapes /\ OneWrite /\ Turns /\ Cameras /\ Recovered

--------
(* The comparisons of one attempt.                                         *)

\* Readings and alternatives are named by their number.
NumbersOf(seq) == {seq[k].n : k \in DOMAIN seq}
Distinct(seq) == \A j, k \in DOMAIN seq : seq[j].n = seq[k].n => j = k
Certain(seq) == {seq[k].n : k \in {k \in DOMAIN seq : ~seq[k].uncertain}}

Numbers(r) == NumbersOf(r.alternatives)

\* What became of a comparison.
Accounted(r) == r.attached \cup r.refused \cup {r.stagedBy}

\* A reading that waits for its handler is new, unless it was kept on delivery.
Awaits(r, reading) ==
    /\ reading.n <= r.delivered
    /\ reading.retained => reading.usable /\ reading.n \in r.kept
    /\ ~reading.retained => reading.n \notin r.kept \cup Accounted(r)

\* What an attempt holds is held once and is none of what was accounted for.
Tidy(r) ==
    /\ Distinct(r.alternatives) /\ Distinct(r.queue)
    /\ Numbers(r) \subseteq r.kept /\ Numbers(r) \cap Accounted(r) = {}
    /\ r.kept \cup r.attached \cup r.refused \subseteq 1 .. r.delivered
    /\ r.stagedBy <= r.delivered
    /\ \A j \in DOMAIN r.queue : Awaits(r, r.queue[j])
    /\ ~r.twice /\ r.stagedBy \notin r.attached

\* How far the attempt's own submission is.
Submitting(r) ==
    /\ r.staged => r.staging = 0 /\ ~r.unresolved
    /\ r.entry => r.staged
    /\ ~r.entry => r.attached = {}
    /\ r.staging # 0 => r.staging = r.stagedBy
    /\ ~r.staged /\ r.staging = 0 /\ ~r.unresolved => r.stagedBy \in r.refused \cup {0}

\* Nothing kept is lost while the attempt may still get an entry.
NothingLost(r) ==
    r.entry \/ r.staging # 0 \/ r.unresolved \/ (r.phase # "over" /\ ~r.staged)
        => r.kept \subseteq Numbers(r) \cup Accounted(r)

Sound(r) == r \in Attempts /\ Tidy(r) /\ Submitting(r) /\ NothingLost(r)

\* What UserCards recorded of an attempt (`told`) the attempt kept, and did not
\* report as refused.
Recalls(r, told) ==
    /\ r.refused \cap told = {}
    /\ r.phase # "over" => told \subseteq r.kept
    /\ r.phase # "over" /\ ~r.entry => told = {}

\* What it still holds may be recorded only where an outcome was lost.
Doubts(r, told) == r.staging \notin told /\ Certain(r.alternatives) \cap told = {}

\* An entry's comparisons wait for their handler, if not for the pending write.
Awaited(r, current) ==
    r.entry /\ Numbers(r) # {} => current /\ Numbers(r) \subseteq NumbersOf(r.queue)

ComparisonInv ==
    /\ explained \in [Captures -> SUBSET ReadingIds]
    /\ \A a \in Captures : a > begun => explained[a] = {}
    /\ \A a \in Captures : Known(a) =>
          /\ Sound(attempt[a]) /\ Recalls(attempt[a], explained[a])
          /\ ~closed => Doubts(attempt[a], explained[a])
          /\ ~closed /\ pending # a => Awaited(attempt[a], live.current = a)
    /\ recovering # <<>> /\ pending # 0 =>
          attempt[pending].phase = "over" /\ attempt[pending].delivered = 0

--------
(* What the operations make of an attempt's record.                        *)

\* A write changes neither how far Recognition is nor what waits for a handler.
Keeps(r, q) == q \in Attempts /\ q.phase = r.phase /\ q.queue = r.queue

LEMMA RecordType ==
    ASSUME NEW phase \in {"preparing", "over"}, NEW unresolved \in BOOLEAN
    PROVE  LET r == Record(phase, unresolved)
           IN  r \in Attempts /\ r.phase = phase /\ r.queue = <<>>
BY CaptureAssumption, EmptySeq DEF Record, Attempts

LEMMA SettledKeeps ==
    ASSUME NEW r \in Attempts
    PROVE  /\ Keeps(r, Settled(r))
           /\ Settled(r).entry = r.entry /\ Settled(r).staged = r.staged
BY EmptySeq DEF Settled, Keeps, Attempts

LEMMA EnteredKeeps ==
    ASSUME NEW r \in Attempts, NEW decision
    PROVE  LET q == Entered(r, decision)
           IN  /\ Keeps(r, q) /\ q.staging = 0 /\ q.alternatives = r.alternatives
               /\ q.delivered = r.delivered /\ q.kept = r.kept /\ q.stagedBy = r.stagedBy
               /\ q.attached = r.attached /\ q.refused = r.refused /\ q.twice = r.twice
<1> DEFINE entry == (decision = "admitted")
<1>1. entry \in BOOLEAN /\ 0 \in 0 .. MaxReadings
  BY CaptureAssumption
<1>2. Entered(r, decision) = [r EXCEPT !.staging = 0, !.unresolved = FALSE, !.staged = TRUE,
                                       !.entry = entry]
  BY DEF Entered
<1> HIDE DEF entry
<1> QED BY <1>1, <1>2, ZenonT(60) DEF Keeps, Attempts

LEMMA EnteredFlags ==
    ASSUME NEW r \in Attempts, NEW decision
    PROVE  LET q == Entered(r, decision)
           IN  ~q.unresolved /\ q.staged /\ (q.entry <=> decision = "admitted")
BY DEF Entered, Attempts

LEMMA AttachedKeeps ==
    ASSUME NEW r \in Attempts, r.alternatives # <<>>
    PROVE  Keeps(r, Attached(r))
<1>1. Head(r.alternatives) \in Alternatives /\ Tail(r.alternatives) \in Seq(Alternatives)
  BY HeadTailProperties DEF Attempts
<1> QED BY <1>1 DEF Attached, Keeps, Attempts, Alternatives

LEMMA RejectedKeeps ==
    ASSUME NEW r \in Attempts, r.alternatives # <<>>
    PROVE  Keeps(r, Rejected(r))
<1>1. Head(r.alternatives) \in Alternatives /\ Tail(r.alternatives) \in Seq(Alternatives)
  BY HeadTailProperties DEF Attempts
<1> QED BY <1>1 DEF Rejected, Keeps, Attempts, Alternatives

LEMMA UncertainKeeps ==
    ASSUME NEW r \in Attempts, r.alternatives # <<>>
    PROVE  Keeps(r, Uncertain(r))
<1> DEFINE first == [Head(r.alternatives) EXCEPT !.uncertain = TRUE]
<1>1. Head(r.alternatives) \in Alternatives /\ Tail(r.alternatives) \in Seq(Alternatives)
  BY HeadTailProperties DEF Attempts
<1>2. first \in Alternatives
  BY <1>1 DEF Alternatives
<1>3. <<first>> \o Tail(r.alternatives) \in Seq(Alternatives)
  BY <1>1, <1>2
<1> HIDE DEF first
<1> QED BY <1>3 DEF Uncertain, Keeps, Attempts, first

LEMMA KeptKeeps ==
    ASSUME NEW r \in Attempts, NEW reading \in Readings
    PROVE  Keeps(r, Kept(r, reading))
<1>1. [n |-> reading.n, uncertain |-> FALSE] \in Alternatives
  BY DEF Readings, Alternatives
<1>2. Append(r.alternatives, [n |-> reading.n, uncertain |-> FALSE]) \in Seq(Alternatives)
  BY <1>1 DEF Attempts
<1> QED BY <1>2 DEF Kept, Keeps, Attempts, Readings

LEMMA WithoutType ==
    ASSUME NEW s \in Seq(Alternatives), NEW n
    PROVE  Without(s, n) \in Seq(Alternatives)
<1> DEFINE places == {k \in DOMAIN s : s[k].n = n}
           i == CHOOSE k \in places : TRUE
<1>1. CASE places = {}
  BY <1>1 DEF Without
<1>2. CASE places # {}
  <2>1. i \in 1 .. Len(s)
    BY <1>2
  <2>2. Without(s, n) = SubSeq(s, 1, i - 1) \o SubSeq(s, i + 1, Len(s))
    BY <1>2 DEF Without, RemoveAt
  <2> HIDE DEF i
  <2>3. SubSeq(s, 1, i - 1) \in Seq(Alternatives) /\ SubSeq(s, i + 1, Len(s)) \in Seq(Alternatives)
    BY <2>1, SubSeqProperties
  <2> QED BY <2>2, <2>3
<1> QED BY <1>1, <1>2

\* The comparisons that are left are comparisons, without the one taken out.
LEMMA WithoutProperties ==
    ASSUME NEW s \in Seq(Alternatives), NEW n,
           \A j, k \in DOMAIN s : s[j].n = s[k].n => j = k
    PROVE  LET t == Without(s, n)
           IN  /\ t \in Seq(Alternatives)
               /\ {t[k] : k \in DOMAIN t} = {s[k] : k \in {k \in DOMAIN s : s[k].n # n}}
               /\ \A j, k \in DOMAIN t : t[j].n = t[k].n => j = k
<1> DEFINE places == {k \in DOMAIN s : s[k].n = n}
           i == CHOOSE k \in places : TRUE
           t == Without(s, n)
<1>1. CASE places = {}
  BY <1>1 DEF Without
<1>2. CASE places # {}
  <2>1. i \in 1 .. Len(s) /\ s[i].n = n
    BY <1>2
  <2> DEFINE front == SubSeq(s, 1, i - 1)
             back == SubSeq(s, i + 1, Len(s))
  <2>2. t = front \o back
    BY <1>2 DEF Without, RemoveAt
  <2> HIDE DEF i, t
  <2>3. /\ front \in Seq(Alternatives) /\ Len(front) = i - 1
        /\ back \in Seq(Alternatives) /\ Len(back) = Len(s) - i
        /\ \A k \in 1 .. i - 1 : front[k] = s[k]
        /\ \A k \in 1 .. Len(s) - i : back[k] = s[i + k]
    BY <2>1, SubSeqProperties
  <2> HIDE DEF front, back
  <2>4. /\ t \in Seq(Alternatives) /\ Len(t) = Len(s) - 1
        /\ \A k \in 1 .. Len(t) : t[k] = IF k < i THEN s[k] ELSE s[k + 1]
    <3>1. t \in Seq(Alternatives) /\ Len(t) = Len(front) + Len(back)
      BY <2>2, <2>3, ConcatProperties
    <3>2. Len(t) = Len(s) - 1
      BY <3>1, <2>1, <2>3
    <3>3. \A k \in 1 .. Len(t) : t[k] = IF k <= Len(front) THEN front[k] ELSE back[k - Len(front)]
      BY <2>2, <2>3, <3>1, ConcatProperties
    <3>4. ASSUME NEW k \in 1 .. Len(t)
          PROVE  t[k] = IF k < i THEN s[k] ELSE s[k + 1]
      <4>1. CASE k < i
        BY <4>1, <2>1, <2>3, <3>3
      <4>2. CASE k >= i
        <5>1. k - (i - 1) \in 1 .. Len(s) - i /\ i + (k - (i - 1)) = k + 1
          BY <4>2, <2>1, <3>2
        <5>2. back[k - (i - 1)] = s[k + 1]
          BY <5>1, <2>3
        <5> QED BY <5>2, <4>2, <2>1, <2>3, <3>3
      <4> QED BY <4>1, <4>2, <2>1
    <3> QED BY <3>1, <3>2, <3>4
  <2>5. \A k \in DOMAIN t : \E j \in DOMAIN s : t[k] = s[j] /\ j = (IF k < i THEN k ELSE k + 1) /\ s[j].n # n
    <3> TAKE k \in DOMAIN t
    <3> DEFINE j == IF k < i THEN k ELSE k + 1
    <3>1. k \in 1 .. Len(t) /\ j \in 1 .. Len(s) /\ j # i /\ t[k] = s[j]
      BY <2>1, <2>4
    <3>2. s[j].n # n
      BY <3>1, <2>1
    <3> QED BY <3>1, <3>2
  <2>6. \A j \in DOMAIN s : s[j].n # n => \E k \in DOMAIN t : t[k] = s[j]
    <3> TAKE j \in DOMAIN s
    <3> HAVE s[j].n # n
    <3> DEFINE k == IF j < i THEN j ELSE j - 1
    <3>1. j \in 1 .. Len(s) /\ j # i
      BY <2>1
    <3>2. k \in 1 .. Len(t) /\ t[k] = s[j]
      BY <3>1, <2>1, <2>4
    <3> QED BY <3>2, <2>4
  <2>7. {t[k] : k \in DOMAIN t} = {s[k] : k \in {k \in DOMAIN s : s[k].n # n}}
    BY <2>5, <2>6
  <2>8. \A j, k \in DOMAIN t : t[j].n = t[k].n => j = k
    <3> SUFFICES ASSUME NEW j \in DOMAIN t, NEW k \in DOMAIN t, t[j].n = t[k].n
                 PROVE  j = k
      OBVIOUS
    <3>1. j \in Nat /\ k \in Nat
      BY <2>4
    <3>2. (IF j < i THEN j ELSE j + 1) = (IF k < i THEN k ELSE k + 1)
      BY <2>5
    <3> QED BY <3>1, <3>2, <2>1
  <2> QED BY <2>4, <2>7, <2>8 DEF t
<1> QED BY <1>1, <1>2

--------
(* The writes.                                                             *)

\* A record that an attempt may have where the session stands.
Fits(a, r) ==
    /\ r \in Attempts
    /\ r.phase = "preparing" => r.queue = <<>>
    /\ r.phase # "over" => live.current = a /\ live.busy
    /\ live.current = a /\ r.queue # <<>> => r.phase = "recognizing"

LEMMA KnownAttempt ==
    ASSUME CaptureInv, NEW a \in Captures, Known(a)
    PROVE  attempt[a] \in Attempts /\ Fits(a, attempt[a]) /\ a <= begun
BY DEF CaptureInv, Shapes, Turns, Known, Fits

\* Writing one fitting record leaves the attempts well-formed.
LEMMA FittingAttempts ==
    ASSUME CaptureInv, NEW a \in Captures, NEW q, Fits(a, q), a <= begun,
           attempt' = [attempt EXCEPT ![a] = q], begun' = begun, live' = live
    PROVE  /\ attempt' \in [Captures -> Attempts \cup {None}]
           /\ attempt'[a] = q /\ Known(a)'
           /\ \A b \in Captures : b # a => attempt'[b] = attempt[b]
           /\ \A b \in Captures : Known(b)' =>
                 /\ b <= begun
                 /\ attempt'[b].phase = "preparing" => attempt'[b].queue = <<>>
                 /\ attempt'[b].phase # "over" => live.current = b
                 /\ live.current = b /\ attempt'[b].queue # <<>> => attempt'[b].phase = "recognizing"
                 /\ live.current = b /\ attempt'[b].phase # "over" => live.busy
<1>1. attempt \in [Captures -> Attempts \cup {None}]
  BY DEF CaptureInv, Shapes
<1>2. \A b \in Captures : attempt'[b] = IF b = a THEN q ELSE attempt[b]
  BY <1>1
<1>3. q # None
  BY CaptureAttemptAssumption DEF Fits
<1>4. attempt' \in [Captures -> Attempts \cup {None}]
  BY <1>1 DEF Fits
<1> QED BY <1>2, <1>3, <1>4 DEF CaptureInv, Shapes, Turns, Known, Fits

LEMMA ContinueWrites ==
    ASSUME NEW a \in Captures, NEW r \in Attempts, NEW by, Continue(a, r, by, {})
    PROVE  \E q : /\ Keeps(r, q) /\ attempt' = [attempt EXCEPT ![a] = q]
                  /\ \/ /\ saves' = {} /\ saving' = FALSE /\ pending' \in {0, a}
                        /\ unfinished' = unfinished /\ retained' = unfinished \ {pending'}
                     \/ \E call \in {"submit", "attach"} :
                           /\ saves' = {[attempt |-> a, by |-> by, call |-> call]}
                           /\ saving' = TRUE /\ pending' = a
                           /\ unfinished' \subseteq unfinished \cup {a}
                           /\ call = NextCall(q)
<1> DEFINE call == NextCall(r)
           left == IF call = "none" THEN Settled(r) ELSE r
           q == IF call = "submit" /\ r.staging # 0 THEN [r EXCEPT !.stagedBy = r.staging] ELSE left
<1>1. call \in {"submit", "attach", "none"}
  BY DEF NextCall
<1>2. Keeps(r, q)
  <2>1. Keeps(r, Settled(r))
    BY SettledKeeps
  <2>2. Keeps(r, r)
    BY DEF Keeps
  <2>3. Keeps(r, [r EXCEPT !.stagedBy = r.staging])
    BY DEF Keeps, Attempts
  <2> QED BY <2>1, <2>2, <2>3
<1>3. call # "none" => call = NextCall(q)
  <2>1. NextCall([r EXCEPT !.stagedBy = r.staging]) = NextCall(r)
    BY DEF NextCall, Drains, Attempts
  <2> QED BY <2>1
<1>4. /\ attempt' = [attempt EXCEPT ![a] = q]
      /\ saves' = {} \cup (IF call = "none" THEN {} ELSE {[attempt |-> a, by |-> by, call |-> call]})
      /\ saving' = (call # "none")
      /\ pending' = IF call = "none" /\ Finished(left) THEN 0 ELSE a
      /\ unfinished' = IF call = "submit" THEN unfinished \cup {a} ELSE unfinished
      /\ retained' = IF call = "none" THEN unfinished' \ {pending'} ELSE retained
  BY DEF Continue
<1> HIDE DEF q, left, call
<1>5. CASE call = "none"
  BY <1>2, <1>4, <1>5
<1>6. CASE call # "none"
  BY <1>1, <1>2, <1>3, <1>4, <1>6
<1> QED BY <1>5, <1>6

LEMMA ContinueKeeps ==
    ASSUME CaptureInv, saves = {},
           NEW a \in Captures, a <= begun, NEW r, Fits(a, r), NEW by \in {"handler", "retry"},
           Continue(a, r, by, saves),
           by = "handler" => live.current = a,
           recovering' # <<>> \/ by = "retry" => ~live.busy /\ by = "retry",
           live.running \/ live.starting => a \notin 1 .. Foreign,
           UNCHANGED <<closed, live, status, device, begun>>
    PROVE  CaptureInv'
<1>1. PICK q : /\ Keeps(r, q) /\ attempt' = [attempt EXCEPT ![a] = q]
               /\ \/ /\ saves' = {} /\ saving' = FALSE /\ pending' \in {0, a}
                     /\ unfinished' = unfinished /\ retained' = unfinished \ {pending'}
                  \/ \E call \in {"submit", "attach"} :
                        /\ saves' = {[attempt |-> a, by |-> by, call |-> call]}
                        /\ saving' = TRUE /\ pending' = a
                        /\ unfinished' \subseteq unfinished \cup {a}
                        /\ call = NextCall(q)
  BY ContinueWrites DEF Fits
<1>2. Fits(a, q)
  BY <1>1 DEF Fits, Keeps
<1>3. /\ live' = live /\ begun' = begun /\ closed' = closed /\ status' = status
      /\ lifetimes' = lifetimes /\ opening' = opening /\ open' = open /\ readying' = readying
  BY DEF device
<1>4. /\ attempt' \in [Captures -> Attempts \cup {None}]
      /\ attempt'[a] = q /\ Known(a)'
      /\ \A b \in Captures : Known(b)' =>
            /\ b <= begun
            /\ attempt'[b].phase = "preparing" => attempt'[b].queue = <<>>
            /\ attempt'[b].phase # "over" => live.current = b
            /\ live.current = b /\ attempt'[b].queue # <<>> => attempt'[b].phase = "recognizing"
            /\ live.current = b /\ attempt'[b].phase # "over" => live.busy
  BY <1>1, <1>2, <1>3, FittingAttempts
<1>5. a \in Nat /\ a # 0 /\ a <= MaxCaptures /\ begun \in Nat /\ a \in 1 .. begun
  BY CaptureAssumption DEF Captures, CaptureInv, Shapes
<1>6. /\ pending' \in {0, a} /\ unfinished' \subseteq unfinished \cup {a}
      /\ saves' = {} \/ pending' = a
      /\ pending' = 0 => retained' = unfinished' \ {0}
      /\ saves' \subseteq Writes
      /\ \A s \in saves' : s.by = by /\ s.attempt = a /\ s.call = NextCall(q)
      /\ \A s, t \in saves' : s = t
      /\ saving' = (saves' # {})
  <2>1. CASE saves' = {} /\ saving' = FALSE /\ pending' \in {0, a}
             /\ unfinished' = unfinished /\ retained' = unfinished \ {pending'}
    BY <2>1
  <2>2. CASE \E call \in {"submit", "attach"} :
                 /\ saves' = {[attempt |-> a, by |-> by, call |-> call]}
                 /\ saving' = TRUE /\ pending' = a
                 /\ unfinished' \subseteq unfinished \cup {a}
                 /\ call = NextCall(q)
    <3>1. PICK call \in {"submit", "attach"} :
                 /\ saves' = {[attempt |-> a, by |-> by, call |-> call]}
                 /\ saving' = TRUE /\ pending' = a
                 /\ unfinished' \subseteq unfinished \cup {a}
                 /\ call = NextCall(q)
      BY <2>2
    <3>2. [attempt |-> a, by |-> by, call |-> call] \in Writes
      BY DEF Writes
    <3>3. saves' \subseteq Writes /\ saves' # {} /\ \A s, t \in saves' : s = t
      BY <3>1, <3>2
    <3>4. \A s \in saves' : s.by = by /\ s.attempt = a /\ s.call = NextCall(q)
      BY <3>1
    <3> QED BY <3>1, <3>3, <3>4, <1>5
  <2> QED BY <1>1, <2>1, <2>2
<1>s. Shapes'
  BY <1>3, <1>4, <1>5, <1>6 DEF CaptureInv, Shapes
<1>o. OneWrite'
  BY <1>4, <1>6 DEF OneWrite
<1>t. Turns'
  <2>1. live.busy => by = "handler" /\ live.running /\ recovering' = <<>>
    BY DEF CaptureInv, Turns
  <2> QED BY <2>1, <1>3, <1>4, <1>6 DEF Turns
<1>c. Cameras'
  BY <1>3 DEF CaptureInv, Cameras, OneCamera
<1>r. Recovered'
  BY <1>3, <1>5, <1>6 DEF CaptureInv, Recovered
<1> QED BY <1>s, <1>o, <1>t, <1>c, <1>r DEF CaptureInv

\* A save that ends, whatever it made of its attempt.
LEMMA EndKeeps ==
    ASSUME CaptureInv, NEW s \in saves, NEW q, Keeps(attempt[s.attempt], q),
           NEW established \in BOOLEAN, End(s.attempt, q, s, established),
           UNCHANGED <<closed, live, status, device, begun, recovering>>
    PROVE  CaptureInv'
<1> DEFINE a == s.attempt
<1>1. s \in Writes /\ a \in Captures /\ saves = {s} /\ a = pending
  BY DEF CaptureInv, Shapes, OneWrite, Writes
<1>2. a \in Nat /\ a # 0 /\ a <= begun /\ begun \in Nat
  BY <1>1, CaptureAssumption DEF Captures, CaptureInv, Shapes
<1>3. attempt[a] \in Attempts /\ Fits(a, attempt[a])
  BY <1>1, <1>2, KnownAttempt DEF CaptureInv, Shapes
<1>4. Fits(a, q)
  BY <1>3 DEF Fits, Keeps
<1>5. /\ live' = live /\ begun' = begun /\ closed' = closed /\ status' = status
      /\ lifetimes' = lifetimes /\ opening' = opening /\ open' = open /\ readying' = readying
      /\ recovering' = recovering
  BY DEF device
<1>6. attempt' = [attempt EXCEPT ![a] = q]
  BY DEF End
<1>7. /\ attempt' \in [Captures -> Attempts \cup {None}]
      /\ attempt'[a] = q /\ Known(a)'
      /\ \A b \in Captures : Known(b)' =>
            /\ b <= begun
            /\ attempt'[b].phase = "preparing" => attempt'[b].queue = <<>>
            /\ attempt'[b].phase # "over" => live.current = b
            /\ live.current = b /\ attempt'[b].queue # <<>> => attempt'[b].phase = "recognizing"
            /\ live.current = b /\ attempt'[b].phase # "over" => live.busy
  BY <1>1, <1>2, <1>4, <1>5, <1>6, FittingAttempts
<1>8. /\ saves' = {} /\ saving' = FALSE /\ pending' \in {0, a} /\ unfinished' \subseteq unfinished
      /\ retained' = unfinished' \ {pending'}
  BY <1>1 DEF End
<1> HIDE DEF a
<1>s. Shapes'
  BY <1>1, <1>2, <1>5, <1>7, <1>8 DEF CaptureInv, Shapes
<1>o. OneWrite'
  BY <1>8 DEF OneWrite
<1>t. Turns'
  BY <1>1, <1>5, <1>7, <1>8 DEF CaptureInv, Turns
<1>c. Cameras'
  BY <1>5 DEF CaptureInv, Cameras, OneCamera
<1>r. Recovered'
  <2>1. unfinished \cap 1 .. Foreign = {} => unfinished' \cap 1 .. Foreign = {}
    BY <1>8
  <2>2. pending \notin 1 .. Foreign => pending' \notin 1 .. Foreign
    BY <1>1, <1>8, CaptureAssumption
  <2>3. pending' = 0 => unfinished' \cap 1 .. Foreign \subseteq retained'
    BY <1>8, CaptureAssumption
  <2> QED BY <1>5, <2>1, <2>2, <2>3 DEF CaptureInv, Recovered
<1> QED BY <1>s, <1>o, <1>t, <1>c, <1>r DEF CaptureInv

\* A save that goes on with another attachment.
LEMMA DrainKeeps ==
    ASSUME CaptureInv, NEW s \in saves, NEW q, Keeps(attempt[s.attempt], q), NextCall(q) = "attach",
           attempt' = [attempt EXCEPT ![s.attempt] = q],
           saves' = {[s EXCEPT !.call = "attach"]}, unfinished' \subseteq unfinished,
           UNCHANGED <<saving, pending, retained>>,
           UNCHANGED <<closed, live, status, device, begun, recovering>>
    PROVE  CaptureInv'
<1> DEFINE a == s.attempt
           t == [s EXCEPT !.call = "attach"]
<1>1. s \in Writes /\ a \in Captures /\ saves = {s} /\ a = pending
  BY DEF CaptureInv, Shapes, OneWrite, Writes
<1>2. a \in Nat /\ a # 0 /\ a <= begun /\ begun \in Nat
  BY <1>1, CaptureAssumption DEF Captures, CaptureInv, Shapes
<1>3. attempt[a] \in Attempts /\ Fits(a, attempt[a])
  BY <1>1, <1>2, KnownAttempt DEF CaptureInv, Shapes
<1>4. Fits(a, q)
  BY <1>3 DEF Fits, Keeps
<1>5. /\ live' = live /\ begun' = begun /\ closed' = closed /\ status' = status
      /\ lifetimes' = lifetimes /\ opening' = opening /\ open' = open /\ readying' = readying
      /\ recovering' = recovering /\ saving' = saving /\ pending' = pending
      /\ retained' = retained
  BY DEF device
<1>7. /\ attempt' \in [Captures -> Attempts \cup {None}]
      /\ attempt'[a] = q /\ Known(a)'
      /\ \A b \in Captures : Known(b)' =>
            /\ b <= begun
            /\ attempt'[b].phase = "preparing" => attempt'[b].queue = <<>>
            /\ attempt'[b].phase # "over" => live.current = b
            /\ live.current = b /\ attempt'[b].queue # <<>> => attempt'[b].phase = "recognizing"
            /\ live.current = b /\ attempt'[b].phase # "over" => live.busy
  BY <1>1, <1>2, <1>4, <1>5, FittingAttempts
<1>8. t \in Writes /\ t.attempt = a /\ t.by = s.by
  BY <1>1 DEF Writes
<1> HIDE DEF a, t
<1>9. saves' = {t}
  BY DEF t
<1>s. Shapes'
  BY <1>1, <1>2, <1>5, <1>7, <1>8, <1>9 DEF CaptureInv, Shapes
<1>o. OneWrite'
  BY <1>1, <1>5, <1>7, <1>8, <1>9 DEF CaptureInv, OneWrite
<1>t. Turns'
  BY <1>1, <1>5, <1>7, <1>8, <1>9 DEF CaptureInv, Turns
<1>c. Cameras'
  BY <1>5 DEF CaptureInv, Cameras, OneCamera
<1>r. Recovered'
  <2>1. unfinished \cap 1 .. Foreign = {} => unfinished' \cap 1 .. Foreign = {}
    OBVIOUS
  <2>2. unfinished \cap 1 .. Foreign \subseteq retained => unfinished' \cap 1 .. Foreign \subseteq retained
    OBVIOUS
  <2> QED BY <1>5, <2>1, <2>2 DEF CaptureInv, Recovered
<1> QED BY <1>s, <1>o, <1>t, <1>c, <1>r DEF CaptureInv

LEMMA AnswerKeeps ==
    ASSUME CaptureInv, NEW s \in saves,
           \/ AttachAnswered(s) \/ (\E decision \in Decisions : StageAnswered(s, decision))
           \/ StageRefused(s) \/ StageLost(s) \/ AttachRefused(s) \/ AttachLost(s)
    PROVE  CaptureInv'
<1> DEFINE a == s.attempt
           r == attempt[a]
<1>1. s \in Writes /\ a \in Captures /\ saves = {s} /\ a = pending
  BY DEF CaptureInv, Shapes, OneWrite, Writes
<1>2. r \in Attempts /\ Keeps(r, r)
  <2>1. a # 0
    BY <1>1, CaptureAssumption DEF Captures
  <2> QED BY <1>1, <2>1, KnownAttempt DEF CaptureInv, Shapes, Keeps
<1>3. /\ s.call = "attach" => r.alternatives # <<>> /\ r.staging = 0 /\ ~r.unresolved
      /\ s.call = "submit" => r.staging # 0 \/ r.unresolved
  BY DEF CaptureInv, OneWrite, NextCall, Drains
<1>4. ASSUME NEW next, Keeps(r, next)  PROVE Keeps(r, Unless(r, next))
  BY <1>2, <1>4 DEF Unless
<1>5. CASE AttachAnswered(s)
  <2>1. Keeps(r, Attached(r))
    BY <1>2, <1>3, <1>5, AttachedKeeps DEF AttachAnswered
  <2>2. CASE End(a, Unless(r, Attached(r)), s, FALSE)
    BY <1>4, <1>5, <2>1, <2>2, EndKeeps DEF AttachAnswered
  <2>3. CASE ~(closed \/ ~Drains(Attached(r)))
    <3>1. /\ attempt' = [attempt EXCEPT ![a] = Attached(r)] /\ saves' = saves
          /\ saving' = saving /\ pending' = pending /\ retained' = retained
          /\ unfinished' = unfinished
      BY <1>5, <2>3 DEF AttachAnswered
    <3>2. s = [s EXCEPT !.call = "attach"]
      BY <1>1, <1>5 DEF AttachAnswered, Writes
    <3>3. NextCall(Attached(r)) = "attach"
      <4>1. Attached(r).staging = r.staging /\ Attached(r).unresolved = r.unresolved
        BY <1>2 DEF Attached, Attempts
      <4> QED BY <1>3, <1>5, <2>3, <4>1 DEF NextCall, AttachAnswered
    <3> QED BY <1>1, <1>5, <2>1, <2>3, <3>1, <3>2, <3>3, DrainKeeps DEF AttachAnswered
  <2> QED BY <1>5, <2>2, <2>3 DEF AttachAnswered
<1>6. CASE \E decision \in Decisions : StageAnswered(s, decision)
  <2>1. PICK decision \in Decisions : StageAnswered(s, decision)
    BY <1>6
  <2> DEFINE next == Settled(Entered(r, decision))
  <2>2. Keeps(r, next)
    <3>1. Keeps(r, Entered(r, decision))
      BY <1>2, EnteredKeeps
    <3>2. Keeps(Entered(r, decision), next)
      BY <3>1, SettledKeeps DEF Keeps
    <3> QED BY <3>1, <3>2 DEF Keeps
  <2> HIDE DEF next
  <2>3. CASE closed \/ ~Drains(next)
    BY <1>4, <2>1, <2>2, <2>3, EndKeeps DEF StageAnswered, next
  <2>4. CASE ~(closed \/ ~Drains(next))
    <3>1. /\ attempt' = [attempt EXCEPT ![a] = next]
          /\ saves' = {[s EXCEPT !.call = "attach"]}
          /\ saving' = saving /\ pending' = pending /\ retained' = retained
          /\ unfinished' \subseteq unfinished
      BY <1>1, <2>1, <2>4 DEF StageAnswered, next
    <3>2. next.staging = 0 /\ ~next.unresolved
      <4>1. /\ Entered(r, decision).staging = 0 /\ ~Entered(r, decision).unresolved
            /\ Entered(r, decision) \in Attempts
        BY <1>2, EnteredKeeps, EnteredFlags DEF Keeps
      <4> QED BY <4>1 DEF next, Settled, Attempts
    <3>3. NextCall(next) = "attach"
      BY <2>4, <3>2 DEF NextCall
    <3> QED BY <1>1, <2>1, <2>2, <2>4, <3>1, <3>3, DrainKeeps DEF StageAnswered
  <2> QED BY <2>3, <2>4
<1>7. CASE StageRefused(s)
  <2>1. Keeps(r, [r EXCEPT !.staging = 0, !.refused = @ \cup {r.staging}])
    <3>1. r.staging # 0
      BY <1>3, <1>7 DEF StageRefused
    <3>2. r.staging \in ReadingIds /\ 0 \in 0 .. MaxReadings
      BY <1>2, <3>1, CaptureAssumption DEF Attempts, ReadingIds
    <3>3. r.refused \cup {r.staging} \in SUBSET ReadingIds
      BY <1>2, <3>2 DEF Attempts
    <3> QED BY <1>2, <3>2, <3>3 DEF Keeps, Attempts
  <2> QED BY <1>4, <1>7, <2>1, EndKeeps DEF StageRefused
<1>8. CASE StageLost(s)
  <2>1. Keeps(r, [r EXCEPT !.staging = 0, !.unresolved = TRUE])
    <3>1. 0 \in 0 .. MaxReadings
      BY CaptureAssumption
    <3> QED BY <1>2, <3>1 DEF Keeps, Attempts
  <2> QED BY <1>4, <1>8, <2>1, EndKeeps DEF StageLost
<1>9. CASE AttachRefused(s)
  <2>1. Keeps(r, Rejected(r))
    BY <1>2, <1>3, <1>9, RejectedKeeps DEF AttachRefused
  <2> QED BY <1>4, <1>9, <2>1, EndKeeps DEF AttachRefused
<1>10. CASE AttachLost(s)
  <2>1. Keeps(r, Uncertain(r))
    BY <1>2, <1>3, <1>10, UncertainKeeps DEF AttachLost
  <2> QED BY <1>4, <1>10, <2>1, EndKeeps DEF AttachLost
<1> QED BY <1>5, <1>6, <1>7, <1>8, <1>9, <1>10

\* Retry goes on with the pending attempt, or reads back what is retained.
LEMMA RetryKeeps ==
    ASSUME CaptureInv, Retry
    PROVE  CaptureInv'
<1>1. ~live.busy /\ saves = {} /\ ~saving
  BY DEF Retry, MayRetry, CaptureInv, OneWrite
<1>2. CASE pending # 0
  <2>1. pending \in Captures /\ pending <= begun /\ Known(pending)
    BY <1>2, CaptureAssumption DEF CaptureInv, Shapes, Captures
  <2>2. Fits(pending, attempt[pending])
    BY <2>1, KnownAttempt
  <2>3. live.running \/ live.starting => pending \notin 1 .. Foreign
    BY DEF CaptureInv, Recovered
  <2>4. /\ Continue(pending, attempt[pending], "retry", saves)
        /\ UNCHANGED <<closed, live, status, device, begun>>
    BY <1>2 DEF Retry
  <2> QED BY <1>1, <2>1, <2>2, <2>3, <2>4, ContinueKeeps
<1>3. CASE pending = 0
  <2>1. /\ UNCHANGED <<attempt, pending, saving, saves, unfinished>>
        /\ UNCHANGED <<closed, live, status, device, begun>>
        /\ retained' = unfinished
    BY <1>3 DEF Retry
  <2>s. Shapes'
    BY <2>1 DEF CaptureInv, Shapes, device, Known
  <2>o. OneWrite'
    BY <2>1 DEF CaptureInv, OneWrite
  <2>t. Turns'
    BY <1>1, <2>1 DEF CaptureInv, Turns, Known
  <2>c. Cameras'
    BY <2>1 DEF CaptureInv, Cameras, OneCamera, device
  <2>r. Recovered'
    BY <1>3, <2>1 DEF CaptureInv, Recovered
  <2> QED BY <2>s, <2>o, <2>t, <2>c, <2>r DEF CaptureInv
<1> QED BY <1>2, <1>3

\* A recovery runs between writes, and never while an attempt is busy.
LEMMA RetryNextKeeps ==
    ASSUME CaptureInv, RetryNext
    PROVE  CaptureInv'
<1>1. saves = {} /\ ~live.busy
  BY DEF RetryNext, Resumes, CaptureInv, Turns
<1>2. UNCHANGED <<closed, live, status, device, begun>>
  BY DEF RetryNext
<1>3. CASE ~closed /\ Head(recovering) \in unfinished
  <2> DEFINE a == Head(recovering)
             r == Record("over", TRUE)
  <2>u. a \in unfinished
    BY <1>3
  <2> HIDE DEF a
  <2>1. a \in Captures /\ a <= begun /\ (live.running \/ live.starting => a \notin 1 .. Foreign)
    BY <2>u, CaptureAssumption DEF CaptureInv, Shapes, Recovered, Captures
  <2>2. Fits(a, r)
    BY RecordType DEF Fits
  <2>3. Continue(a, r, "retry", saves)
    BY <1>3 DEF RetryNext, a
  <2> HIDE DEF r
  <2> QED BY <1>1, <1>2, <2>1, <2>2, <2>3, ContinueKeeps
<1>4. CASE ~(~closed /\ Head(recovering) \in unfinished)
  <2>1. UNCHANGED <<attempt, pending, saving, saves, retained, unfinished>>
    BY <1>4 DEF RetryNext
  <2>s. Shapes'
    BY <1>2, <2>1 DEF CaptureInv, Shapes, device, Known
  <2>o. OneWrite'
    BY <2>1 DEF CaptureInv, OneWrite
  <2>t. Turns'
    BY <1>1, <1>2, <2>1 DEF CaptureInv, Turns, Known
  <2>c. Cameras'
    BY <1>2, <2>1 DEF CaptureInv, Cameras, OneCamera, device
  <2>r. Recovered'
    BY <1>2, <2>1 DEF CaptureInv, Recovered
  <2> QED BY <2>s, <2>o, <2>t, <2>c, <2>r DEF CaptureInv
<1> QED BY <1>3, <1>4

\* A step that changes one record only.
LEMMA RecordKeeps ==
    ASSUME CaptureInv, NEW a \in Captures, a <= begun, NEW q, Fits(a, q),
           \A s \in saves : s.attempt = a => s.call = NextCall(q),
           attempt' = [attempt EXCEPT ![a] = q],
           UNCHANGED <<pending, saving, saves, retained, unfinished, recovering>>,
           UNCHANGED <<closed, live, status, device, begun>>
    PROVE  CaptureInv'
<1>1. /\ attempt' \in [Captures -> Attempts \cup {None}]
      /\ attempt'[a] = q /\ Known(a)'
      /\ \A b \in Captures : b # a => attempt'[b] = attempt[b]
      /\ \A b \in Captures : Known(b)' =>
            /\ b <= begun
            /\ attempt'[b].phase = "preparing" => attempt'[b].queue = <<>>
            /\ attempt'[b].phase # "over" => live.current = b
            /\ live.current = b /\ attempt'[b].queue # <<>> => attempt'[b].phase = "recognizing"
            /\ live.current = b /\ attempt'[b].phase # "over" => live.busy
  BY FittingAttempts
<1>2. pending # 0 => Known(pending)'
  <2>1. pending # 0 => pending \in Captures /\ Known(pending)
    BY CaptureAssumption DEF CaptureInv, Shapes, Captures
  <2> QED BY <1>1, <2>1 DEF Known
<1>s. Shapes'
  BY <1>1, <1>2 DEF CaptureInv, Shapes, device
<1>o. OneWrite'
  <2>1. \A s \in saves : s.attempt \in Captures
    BY DEF CaptureInv, Shapes, Writes
  <2> QED BY <1>1, <2>1 DEF CaptureInv, OneWrite
<1>t. Turns'
  BY <1>1 DEF CaptureInv, Turns
<1>c. Cameras'
  BY DEF CaptureInv, Cameras, OneCamera, device
<1>r. Recovered'
  BY DEF CaptureInv, Recovered
<1> QED BY <1>s, <1>o, <1>t, <1>c, <1>r DEF CaptureInv

\* A handler writes only for the attempt that is busy, when no other write is.
LEMMA HandleKeeps ==
    ASSUME CaptureInv, NEW a \in Captures, Handle(a)
    PROVE  CaptureInv'
<1> DEFINE reading == Head(attempt[a].queue)
           r == [attempt[a] EXCEPT !.queue = Tail(@)]
<1>1. Known(a) /\ attempt[a].queue # <<>> /\ \A s \in saves : s.attempt = a => s.by # "handler"
  BY DEF Handle, Handles, Known
<1>2. attempt[a] \in Attempts /\ Fits(a, attempt[a]) /\ a <= begun
  BY <1>1, KnownAttempt
<1>3. reading \in Readings /\ Tail(attempt[a].queue) \in Seq(Readings)
  BY <1>1, <1>2, HeadTailProperties DEF Attempts
<1>4. /\ r \in Attempts /\ r.phase = attempt[a].phase
      /\ r.staging = attempt[a].staging /\ r.unresolved = attempt[a].unresolved
      /\ r.entry = attempt[a].entry /\ r.alternatives = attempt[a].alternatives
  BY <1>2, <1>3 DEF Attempts
<1>5. Fits(a, r)
  BY <1>1, <1>2, <1>4 DEF Fits
<1>6. /\ UNCHANGED <<closed, live, status, device, begun>>
      /\ recovering' = recovering
  BY DEF Handle
<1> HIDE DEF r, reading
<1>7. CASE Skips(a, r)
  <2>1. \A s \in saves : s.attempt = a => s.call = NextCall(r)
    BY <1>4 DEF CaptureInv, OneWrite, NextCall, Drains
  <2> QED BY <1>2, <1>5, <1>6, <1>7, <2>1, RecordKeeps DEF Skips
<1>8. ASSUME Attends(a), NEW q, Keeps(r, q), Continue(a, q, "handler", saves)
      PROVE  CaptureInv'
  <2>1. live.current = a /\ live.busy
    BY <1>1, <1>2, <1>8 DEF Fits, Attends
  <2>2. saves = {} /\ recovering = <<>>
    BY <1>1, <2>1 DEF CaptureInv, Turns, OneWrite, Shapes, Writes, Captures
  <2>3. Fits(a, q)
    BY <1>5, <1>8 DEF Fits, Keeps
  <2>4. a \notin 1 .. Foreign
    BY <2>1, CaptureAssumption DEF CaptureInv, Cameras, Captures
  <2> QED BY <1>2, <1>6, <1>8, <2>1, <2>2, <2>3, <2>4, ContinueKeeps
<1>9. Keeps(r, Kept(r, reading))
  BY <1>3, <1>4, KeptKeeps
<1>10. Keeps(r, [r EXCEPT !.staging = reading.n, !.alternatives = Without(@, reading.n)])
  <2>1. Without(r.alternatives, reading.n) \in Seq(Alternatives)
    BY <1>4, WithoutType DEF Attempts
  <2>2. reading.n \in 0 .. MaxReadings
    BY <1>3, CaptureAssumption DEF Readings, ReadingIds
  <2> QED BY <1>4, <2>1, <2>2 DEF Keeps, Attempts
<1>11. \/ Skips(a, r)
       \/ Attends(a) /\ Continue(a, Kept(r, reading), "handler", saves)
       \/ Attends(a) /\ Continue(a, [r EXCEPT !.staging = reading.n,
                            !.alternatives = Without(@, reading.n)], "handler", saves)
  BY DEF Handle, r, reading
<1> QED BY <1>7, <1>8, <1>9, <1>10, <1>11

\* A delivered reading asks for no other call than the one in flight.
LEMMA DeliverKeeps ==
    ASSUME CaptureInv, NEW a \in Captures, NEW usable \in BOOLEAN, Deliver(a, usable)
    PROVE  CaptureInv'
<1> DEFINE r == attempt[a]
           n == r.delivered + 1
           keep == usable /\ (r.staging # 0 \/ r.entry)
           reading == [n |-> n, usable |-> usable, retained |-> keep]
           alternative == [n |-> n, uncertain |-> FALSE]
           queue == Append(r.queue, reading)
           kept == IF keep THEN r.kept \cup {n} ELSE r.kept
           alternatives == IF keep THEN Append(r.alternatives, alternative) ELSE r.alternatives
           q == [r EXCEPT !.delivered = n, !.queue = queue, !.kept = kept,
                          !.alternatives = alternatives]
<1>1. Known(a) /\ r.phase = "recognizing" /\ r.delivered < MaxReadings
  BY DEF Deliver, Known
<1>2. r \in Attempts /\ Fits(a, r) /\ a <= begun
  BY <1>1, KnownAttempt
<1>3. n \in ReadingIds /\ n \in 0 .. MaxReadings /\ keep \in BOOLEAN
  BY <1>1, <1>2, CaptureAssumption DEF Attempts, ReadingIds
<1>4. /\ r.queue \in Seq(Readings) /\ r.alternatives \in Seq(Alternatives)
      /\ r.kept \subseteq ReadingIds
  BY <1>2 DEF Attempts
<1> HIDE DEF n, keep
<1>5. reading \in Readings /\ alternative \in Alternatives
  BY <1>3 DEF Readings, Alternatives
<1> HIDE DEF reading, alternative
<1>6. /\ queue \in Seq(Readings) /\ kept \in SUBSET ReadingIds
      /\ alternatives \in Seq(Alternatives)
      /\ r.alternatives # <<>> => alternatives # <<>>
  BY <1>3, <1>4, <1>5, AppendProperties, EmptySeq
<1> HIDE DEF queue, kept, alternatives
<1>7. /\ q \in Attempts /\ q.phase = "recognizing" /\ q.staging = r.staging
      /\ q.unresolved = r.unresolved /\ q.entry = r.entry /\ q.alternatives = alternatives
  BY <1>1, <1>2, <1>3, <1>6 DEF Attempts
<1>8. Fits(a, q)
  BY <1>1, <1>2, <1>7 DEF Fits
<1>9. attempt' = [attempt EXCEPT ![a] = q]
  BY DEF Deliver, n, keep, queue, reading, alternative, kept, alternatives
<1>10. \A s \in saves : s.attempt = a => s.call = NextCall(q)
  BY <1>6, <1>7 DEF CaptureInv, OneWrite, Shapes, Writes, NextCall, Drains
<1> HIDE DEF q
<1> QED BY <1>2, <1>8, <1>9, <1>10, RecordKeeps DEF Deliver, provider

\* Recognition accepts or ends an attempt: only the busy one of this session is
\* neither new nor over.
LEMMA PhaseKeeps ==
    ASSUME CaptureInv, NEW a \in Captures, Known(a), attempt[a].phase # "over",
           NEW phase \in {"recognizing", "over"}, NEW busy \in BOOLEAN,
           attempt[a].queue = <<>>, busy <=> phase = "recognizing",
           attempt' = [attempt EXCEPT ![a].phase = phase], live' = [live EXCEPT !.busy = busy],
           UNCHANGED <<closed, status, device, begun, pending, saving, saves, retained,
                       recovering, provider>>
    PROVE  CaptureInv'
<1> DEFINE q == [attempt[a] EXCEPT !.phase = phase]
<1>1. attempt[a] \in Attempts /\ live.current = a /\ live.busy
  BY KnownAttempt DEF Fits
<1>2. /\ q \in Attempts /\ q.phase = phase /\ q.queue = <<>> /\ q # None
      /\ NextCall(q) = NextCall(attempt[a])
  BY <1>1, CaptureAttemptAssumption DEF Attempts, NextCall, Drains
<1>3. attempt' = [attempt EXCEPT ![a] = q]
  OBVIOUS
<1> HIDE DEF q
<1>4. /\ attempt' \in [Captures -> Attempts \cup {None}]
      /\ \A b \in Captures : attempt'[b] = IF b = a THEN q ELSE attempt[b]
  BY <1>2, <1>3 DEF CaptureInv, Shapes
<1>5. /\ live' \in Lives /\ live'.busy = busy /\ live'.running = live.running
      /\ live'.starting = live.starting /\ live'.controller = live.controller
      /\ live'.camera = live.camera /\ live'.prepared = live.prepared
      /\ live'.current = live.current
  BY DEF CaptureInv, Shapes, Lives
<1>6. pending # 0 => pending \in Captures /\ Known(pending)'
  BY <1>2, <1>4, CaptureAssumption DEF CaptureInv, Shapes, Captures, Known
<1>s. Shapes'
  BY <1>2, <1>4, <1>5, <1>6 DEF CaptureInv, Shapes, device, provider, Known
<1>o. OneWrite'
  <2>1. \A s \in saves : s.attempt \in Captures
    BY DEF CaptureInv, Shapes, Writes
  <2> QED BY <1>2, <1>4, <2>1 DEF CaptureInv, OneWrite
<1>t. Turns'
  BY <1>1, <1>2, <1>4, <1>5 DEF CaptureInv, Turns, Known
<1>c. Cameras'
  BY <1>5 DEF CaptureInv, Cameras, OneCamera, device
<1>r. Recovered'
  BY <1>5 DEF CaptureInv, Recovered, provider
<1> QED BY <1>s, <1>o, <1>t, <1>c, <1>r DEF CaptureInv

LEMMA RecognizeKeeps ==
    ASSUME CaptureInv, NEW a \in Captures, Recognize(a)
    PROVE  CaptureInv'
<1> DEFINE phase == IF live.prepared THEN "recognizing" ELSE "over"
<1>1. /\ Known(a) /\ attempt[a].phase = "preparing" /\ attempt[a].queue = <<>>
      /\ live.prepared \in BOOLEAN
  BY DEF Recognize, Known, CaptureInv, Turns, Shapes, Lives
<1>2. /\ phase \in {"recognizing", "over"} /\ (live.prepared <=> phase = "recognizing")
      /\ attempt' = [attempt EXCEPT ![a].phase = phase]
      /\ live' = [live EXCEPT !.busy = live.prepared]
  BY <1>1 DEF Recognize
<1> HIDE DEF phase
<1> QED BY <1>1, <1>2, PhaseKeeps DEF Recognize

LEMMA EndAttemptKeeps ==
    ASSUME CaptureInv, NEW a \in Captures, EndAttempt(a)
    PROVE  CaptureInv'
<1>1. Known(a) /\ attempt[a].phase = "recognizing" /\ attempt[a].queue = <<>>
  BY DEF EndAttempt, Known
<1>2. live.current = a
  BY <1>1, KnownAttempt DEF Fits
<1>3. live' = [live EXCEPT !.busy = FALSE] /\ attempt' = [attempt EXCEPT ![a].phase = "over"]
  BY <1>2 DEF EndAttempt
<1> QED BY <1>1, <1>3, PhaseKeeps DEF EndAttempt

--------
(* The live session.                                                       *)

\* An attempt begins when nothing is written, recovered or busy.
LEMMA AttemptKeeps ==
    ASSUME CaptureInv, Attempt
    PROVE  CaptureInv'
<1> DEFINE a == begun + 1
<1>1. /\ live.running /\ ~closed /\ ~live.busy /\ pending = 0 /\ ~Settling
      /\ begun < MaxCaptures /\ begun' = a
      /\ UNCHANGED <<closed, status, lifetimes, opening, open, pending, saving, saves, retained,
                     recovering, unfinished>>
  BY DEF Attempt, MayAttempt, provider
<1>2. begun \in Nat /\ a \in Captures /\ a > Foreign /\ ~Known(a)
  BY <1>1, CaptureAssumption DEF CaptureInv, Shapes, Captures
<1>3. saves = {}
  BY <1>1 DEF CaptureInv, OneWrite, Shapes, Writes, Captures
<1>4. recovering = <<>>
  BY <1>1, <1>3 DEF Settling, Resumes
<1>5. \A b \in Captures : Known(b) => attempt[b].phase = "over"
  BY <1>1 DEF CaptureInv, Turns
<1>6. live.controller \in 1 .. lifetimes
  BY <1>1, CaptureAssumption DEF CaptureInv, Shapes, Cameras, Lives, Lifetimes
<1>7. PICK phase \in {"preparing", "over"} :
         /\ attempt' = [attempt EXCEPT ![a] = Record(phase, FALSE)]
         /\ live' \in Lives /\ live'.running = live.running /\ live'.starting = live.starting
         /\ live'.controller = live.controller /\ live'.camera = live.camera
         /\ live'.prepared = live.prepared /\ live'.current = a
         /\ live'.busy <=> phase = "preparing"
         /\ readying' = readying \/ (~live.prepared /\ readying' = readying \cup {live.controller})
  <2>1. live \in Lives /\ a \in 0 .. MaxCaptures
    BY <1>2 DEF CaptureInv, Shapes, Captures
  <2>2. CASE /\ attempt' = [attempt EXCEPT ![a] = Record("over", FALSE)]
             /\ live' = [live EXCEPT !.current = a] /\ readying' = readying
    BY <1>1, <2>1, <2>2 DEF Lives
  <2>3. CASE /\ attempt' = [attempt EXCEPT ![a] = Record("preparing", FALSE)]
             /\ live' = [live EXCEPT !.current = a, !.busy = TRUE,
                    !.preparing = IF live.prepared THEN @ ELSE live.controller]
             /\ readying' = IF live.prepared THEN readying ELSE readying \cup {live.controller}
    <3> DEFINE preparing == IF live.prepared THEN live.preparing ELSE live.controller
    <3>1. preparing \in Lifetimes
      BY <2>1 DEF Lives
    <3>2. live' = [live EXCEPT !.current = a, !.busy = TRUE, !.preparing = preparing]
      BY <2>3
    <3> HIDE DEF preparing, a
    <3>3. /\ live' \in Lives /\ live'.running = live.running /\ live'.starting = live.starting
          /\ live'.controller = live.controller /\ live'.camera = live.camera
          /\ live'.prepared = live.prepared /\ live'.current = a /\ live'.busy
      BY <2>1, <3>1, <3>2 DEF Lives
    <3> QED BY <2>3, <3>3
  <2> QED BY <1>1, <2>2, <2>3 DEF Attempt
<1> DEFINE r == Record(phase, FALSE)
<1>8. r \in Attempts /\ r.phase = phase /\ r.queue = <<>> /\ r # None
  BY RecordType, CaptureAttemptAssumption
<1>9. attempt' = [attempt EXCEPT ![a] = r]
  BY <1>7
<1> HIDE DEF r
<1>10. /\ attempt' \in [Captures -> Attempts \cup {None}]
       /\ \A b \in Captures : attempt'[b] = IF b = a THEN r ELSE attempt[b]
  BY <1>2, <1>8, <1>9 DEF CaptureInv, Shapes
<1> HIDE DEF a
<1>s. Shapes'
  <2>1. \A b \in Captures : Known(b)' => b <= begun'
    BY <1>1, <1>2, <1>10 DEF CaptureInv, Shapes, Known, a, Captures
  <2>2. opening \cup open \cup readying \subseteq 1 .. lifetimes
        => opening' \cup open' \cup readying' \subseteq 1 .. lifetimes'
    BY <1>1, <1>6, <1>7
  <2>3. begun' \in Foreign .. MaxCaptures /\ pending' \in 0 .. begun'
        /\ unfinished' \subseteq 1 .. begun'
    BY <1>1, <1>2, CaptureAssumption DEF CaptureInv, Shapes, a
  <2> QED BY <1>1, <1>7, <1>10, <2>1, <2>2, <2>3 DEF CaptureInv, Shapes
<1>o. OneWrite'
  BY <1>1, <1>3 DEF CaptureInv, OneWrite
<1>t. Turns'
  BY <1>1, <1>3, <1>4, <1>5, <1>7, <1>8, <1>10 DEF Turns, Known
<1>c. Cameras'
  BY <1>1, <1>2, <1>7 DEF CaptureInv, Cameras, OneCamera, a
<1>r. Recovered'
  BY <1>1, <1>7 DEF CaptureInv, Recovered
<1> QED BY <1>s, <1>o, <1>t, <1>c, <1>r DEF CaptureInv

\* The camera is asked for only with nothing pending, when the list last read
\* back is that of UserCards.
LEMMA PrepareKeeps ==
    ASSUME CaptureInv, Prepare
    PROVE  CaptureInv'
<1> DEFINE l == lifetimes + 1
<1>1. /\ ~live.running /\ ~live.starting /\ ~closed /\ pending = 0 /\ retained = {}
      /\ lifetimes < MaxLifetimes /\ lifetimes' = l /\ opening' = opening \cup {l}
      /\ live' = [live EXCEPT !.starting = TRUE, !.controller = l] /\ status' = "starting"
      /\ UNCHANGED <<closed, open, readying, begun, attempt, pending, saving, saves, retained,
                     recovering, unfinished>>
  BY DEF Prepare, MayPrepare, provider
<1>2. lifetimes \in Nat /\ l \in Lifetimes /\ l # 0
  BY <1>1, CaptureAssumption DEF CaptureInv, Shapes, Lifetimes
<1>3. /\ live' \in Lives /\ live'.running = live.running /\ live'.starting
      /\ live'.controller = l /\ live'.camera = live.camera /\ live'.busy = live.busy
      /\ live'.prepared = live.prepared /\ live'.current = live.current
  BY <1>1, <1>2 DEF CaptureInv, Shapes, Lives
<1>4. opening \cup open \cup readying \subseteq 1 .. lifetimes
      => opening' \cup open' \cup readying' \subseteq 1 .. lifetimes'
  BY <1>1, <1>2
<1> HIDE DEF l
<1>s. Shapes'
  BY <1>1, <1>2, <1>3, <1>4 DEF CaptureInv, Shapes, Known
<1>o. OneWrite'
  BY <1>1 DEF CaptureInv, OneWrite
<1>t. Turns'
  BY <1>1, <1>3 DEF CaptureInv, Turns, Known
<1>c. Cameras'
  BY <1>1, <1>3 DEF CaptureInv, Cameras, OneCamera
<1>r. Recovered'
  BY <1>1, <1>3, CaptureAssumption DEF CaptureInv, Recovered
<1> QED BY <1>s, <1>o, <1>t, <1>c, <1>r DEF CaptureInv

\* What the device answers changes no write and no attempt.
LEMMA DeviceKeeps ==
    ASSUME CaptureInv, live' \in Lives, live'.controller <= lifetimes,
           opening' \cup open' \cup readying' \subseteq 1 .. lifetimes,
           live'.busy => live.busy /\ live'.running, live'.current = live.current,
           live'.current # 0 => live'.busy = live.busy,
           live'.running \/ live'.starting => live.running \/ live.starting,
           UNCHANGED <<closed, lifetimes, begun, attempt, pending, saving, saves, retained,
                       recovering, unfinished>>,
           Cameras'
    PROVE  CaptureInv'
<1>s. Shapes'
  BY DEF CaptureInv, Shapes, Known
<1>o. OneWrite'
  BY DEF CaptureInv, OneWrite
<1>t. Turns'
  BY CaptureAssumption DEF CaptureInv, Turns, Known, Captures
<1>r. Recovered'
  BY DEF CaptureInv, Recovered
<1> QED BY <1>s, <1>o, <1>t, <1>r DEF CaptureInv

LEMMA GrantedKeeps ==
    ASSUME CaptureInv, NEW l \in Lifetimes, Granted(l)
    PROVE  CaptureInv'
<1>1. /\ l \in opening /\ opening' = opening \ {l}
      /\ UNCHANGED <<closed, lifetimes, begun, attempt, pending, saving, saves, retained,
                     recovering, unfinished>>
  BY DEF Granted, provider
<1>2. live \in Lives /\ l # 0 /\ opening \cup open \cup readying \subseteq 1 .. lifetimes
  BY <1>1 DEF CaptureInv, Shapes
<1>3. CASE Owns(l)
  <2>1. /\ open' = open \cup {l} /\ readying' = readying \cup {l} /\ status' = "preparing"
        /\ live' = [live EXCEPT !.camera = l, !.running = TRUE, !.starting = FALSE,
                                !.prepared = FALSE, !.preparing = l]
    BY <1>3 DEF Granted
  <2>2. ~closed /\ live.controller = l /\ live.starting /\ ~live.running /\ live.current = 0
        /\ open = {}
    BY <1>1, <1>3 DEF Owns, CaptureInv, Cameras, OneCamera
  <2>3. /\ live' \in Lives /\ live'.running /\ ~live'.starting /\ live'.camera = l
        /\ live'.controller = live.controller /\ ~live'.prepared /\ live'.busy = live.busy
        /\ live'.current = live.current
    BY <1>2, <2>1 DEF Lives
  <2>4. Cameras'
    <3>1. open' = {l} /\ {l} = {live'.camera} \ {0}
      BY <1>2, <2>1, <2>2, <2>3
    <3>2. (live'.camera # 0) = live'.running
      BY <1>2, <2>3 DEF Lives
    <3>3. OneCamera'
      BY <1>1, <2>1, <2>2, <2>3, <3>1, <3>2 DEF OneCamera
    <3> QED BY <1>1, <1>2, <2>2, <2>3, <3>3 DEF Cameras
  <2>5. opening' \cup open' \cup readying' \subseteq 1 .. lifetimes
    BY <1>1, <1>2, <2>1
  <2>6. live'.controller <= lifetimes
    BY <2>3 DEF CaptureInv, Shapes
  <2> QED BY <1>1, <2>2, <2>3, <2>4, <2>5, <2>6, DeviceKeeps
<1>4. CASE ~Owns(l)
  <2>1. UNCHANGED <<open, live, readying, status>>
    BY <1>4 DEF Granted
  <2>2. Cameras'
    BY <1>1, <2>1 DEF CaptureInv, Cameras, OneCamera
  <2> QED BY <1>1, <1>2, <2>1, <2>2, DeviceKeeps DEF CaptureInv, Shapes, Turns
<1> QED BY <1>3, <1>4

LEMMA ReleasedLives ==
    Released \in Lives /\ Released.running = FALSE /\ ~Released.starting /\ ~Released.busy
    /\ Released.controller = 0 /\ Released.camera = 0 /\ Released.current = 0
BY CaptureAssumption DEF Released, Lives, Lifetimes

LEMMA DeniedKeeps ==
    ASSUME CaptureInv, NEW l \in Lifetimes, Denied(l)
    PROVE  CaptureInv'
<1>1. /\ l \in opening /\ opening' = opening \ {l} /\ readying' = readying
      /\ UNCHANGED <<closed, lifetimes, begun, attempt, pending, saving, saves, retained,
                     recovering, unfinished>>
  BY DEF Denied, provider
<1>2. live \in Lives /\ l # 0 /\ opening \cup open \cup readying \subseteq 1 .. lifetimes
      /\ lifetimes \in Nat
  BY <1>1, CaptureAssumption DEF CaptureInv, Shapes, Lifetimes
<1>3. CASE Owns(l)
  <2>1. live' = Released /\ open' = open \ {live.camera} /\ status' = "failed"
    BY <1>3 DEF Denied, StopLive
  <2>2. ~closed /\ live.starting /\ ~live.running /\ live.current = 0 /\ open = {}
    BY <1>1, <1>3 DEF Owns, CaptureInv, Cameras, OneCamera
  <2>c. open' = {} /\ {} = {live'.camera} \ {0} /\ (live'.camera # 0) = live'.running
    BY <2>1, <2>2, ReleasedLives
  <2>3. OneCamera'
    BY <1>1, <2>1, <2>2, <2>c, ReleasedLives DEF OneCamera
  <2>4. Cameras'
    BY <1>1, <1>2, <2>1, <2>2, <2>3, ReleasedLives DEF Cameras
  <2> QED BY <1>1, <1>2, <2>1, <2>2, <2>4, ReleasedLives, DeviceKeeps
<1>4. CASE ~Owns(l)
  <2>1. UNCHANGED <<open, live, status>>
    BY <1>4 DEF Denied
  <2>2. Cameras'
    BY <1>1, <2>1 DEF CaptureInv, Cameras, OneCamera
  <2> QED BY <1>1, <1>2, <2>1, <2>2, DeviceKeeps DEF CaptureInv, Shapes, Turns
<1> QED BY <1>3, <1>4

LEMMA PreparedKeeps ==
    ASSUME CaptureInv, NEW l \in Lifetimes, NEW ready \in BOOLEAN, Prepared(l, ready)
    PROVE  CaptureInv'
<1> DEFINE preparing == IF live.preparing = l THEN 0 ELSE live.preparing
           prepared == IF Owns(l) /\ ready THEN TRUE ELSE live.prepared
<1>1. /\ l \in readying /\ readying' = readying \ {l}
      /\ UNCHANGED <<closed, lifetimes, opening, open, begun, attempt, pending, saving, saves,
                     retained, recovering, unfinished>>
      /\ live' = [live EXCEPT !.prepared = prepared, !.preparing = preparing]
      /\ status' = IF Owns(l) /\ ready /\ live.running THEN "running" ELSE status
  BY DEF Prepared, provider
<1>a. live \in Lives /\ opening \cup open \cup readying \subseteq 1 .. lifetimes
  BY DEF CaptureInv, Shapes
<1>b. preparing \in Lifetimes
  BY <1>a, CaptureAssumption DEF Lives, Lifetimes
<1>c. prepared \in BOOLEAN
  BY <1>a DEF Lives
<1>2. live \in Lives /\ preparing \in Lifetimes /\ prepared \in BOOLEAN
      /\ opening \cup open \cup readying \subseteq 1 .. lifetimes
  BY <1>a, <1>b, <1>c
<1> HIDE DEF preparing
<1>3. /\ live' \in Lives /\ live'.running = live.running /\ live'.starting = live.starting
      /\ live'.controller = live.controller /\ live'.camera = live.camera
      /\ live'.busy = live.busy /\ live'.current = live.current /\ live'.prepared = prepared
  BY <1>1, <1>2 DEF Lives
<1>4. OneCamera'
  BY <1>1, <1>3 DEF CaptureInv, Cameras, OneCamera, Owns
<1>5. Cameras'
  BY <1>1, <1>3, <1>4 DEF CaptureInv, Cameras
<1>6. opening' \cup open' \cup readying' \subseteq 1 .. lifetimes
  BY <1>1, <1>2
<1>7. live'.controller <= lifetimes /\ (live'.busy => live.busy /\ live'.running)
  BY <1>3 DEF CaptureInv, Shapes, Turns
<1> QED BY <1>1, <1>3, <1>5, <1>6, <1>7, DeviceKeeps

\* Leaving the camera ends the attempt Recognition still works on.
LEMMA EndedKeeps ==
    ASSUME CaptureInv, attempt' = Ended, live' = Released, open' = open \ {live.camera},
           UNCHANGED <<lifetimes, opening, readying, begun, pending, saving, saves, retained,
                       recovering, unfinished>>,
           closed' \/ status' \in {"failed", "stopped"}
    PROVE  CaptureInv'
<1>1. attempt \in [Captures -> Attempts \cup {None}]
  BY DEF CaptureInv, Shapes
<1>2. ASSUME NEW b \in Captures
      PROVE  /\ attempt'[b] \in Attempts \cup {None} /\ (Known(b)' <=> Known(b))
             /\ Known(b) => attempt'[b].phase = "over"
             /\ Known(b) => NextCall(attempt'[b]) = NextCall(attempt[b])
  <2>1. attempt'[b] = IF Known(b) /\ b = live.current THEN [attempt[b] EXCEPT !.phase = "over"]
                      ELSE attempt[b]
    BY DEF Ended, Known
  <2>2. CASE Known(b) /\ b = live.current
    <3> DEFINE q == [attempt[b] EXCEPT !.phase = "over"]
    <3>1. attempt[b] \in Attempts /\ attempt'[b] = q
      BY <1>1, <2>1, <2>2 DEF Known
    <3>2. q \in Attempts /\ q.phase = "over" /\ NextCall(q) = NextCall(attempt[b])
      BY <3>1 DEF Attempts, NextCall, Drains
    <3>3. q # None
      BY <3>2, CaptureAttemptAssumption
    <3> HIDE DEF q
    <3> QED BY <2>2, <3>1, <3>2, <3>3 DEF Known
  <2>3. CASE ~(Known(b) /\ b = live.current)
    BY <1>1, <2>1, <2>3 DEF Known, CaptureInv, Turns
  <2> QED BY <2>2, <2>3
<1>3. attempt' \in [Captures -> Attempts \cup {None}]
  BY <1>2 DEF Ended
<1>4. open' = {}
  BY DEF CaptureInv, Cameras, OneCamera
<1>s. Shapes'
  <2>1. pending # 0 => pending \in Captures
    BY CaptureAssumption DEF CaptureInv, Shapes, Captures
  <2>2. Released.controller <= lifetimes
    BY ReleasedLives, CaptureAssumption DEF CaptureInv, Shapes, Lifetimes
  <2>3. opening' \cup open' \cup readying' \subseteq 1 .. lifetimes
    BY <1>4 DEF CaptureInv, Shapes
  <2> QED BY <1>2, <1>3, <2>1, <2>2, <2>3, ReleasedLives DEF CaptureInv, Shapes, Known
<1>o. OneWrite'
  <2>1. \A s \in saves : s.attempt = pending /\ pending \in Captures /\ Known(pending)
    BY CaptureAssumption DEF CaptureInv, OneWrite, Shapes, Writes, Captures
  <2> QED BY <1>2, <2>1 DEF CaptureInv, OneWrite
<1>t. Turns'
  <2>1. \A a \in Captures : a # 0
    BY CaptureAssumption DEF Captures
  <2>2. \A a \in Captures : Known(a)' => attempt'[a].phase = "over" /\ live'.current # a
    BY <1>2, <2>1, ReleasedLives
  <2> QED BY <2>2, ReleasedLives DEF CaptureInv, Turns
<1>c. Cameras'
  <2>1. 0 \notin opening
    BY CaptureAssumption DEF CaptureInv, Shapes
  <2>c. {} = {live'.camera} \ {0} /\ (live'.camera # 0) = live'.running
    BY ReleasedLives
  <2>2. OneCamera'
    BY <1>4, <2>c, ReleasedLives DEF OneCamera
  <2> QED BY <2>1, <2>2, ReleasedLives DEF Cameras
<1>r. Recovered'
  BY ReleasedLives DEF CaptureInv, Recovered
<1> QED BY <1>s, <1>o, <1>t, <1>c, <1>r DEF CaptureInv

\* The review touches no part of the session.
LEMMA ReviewKeeps ==
    ASSUME CaptureInv, (\E a \in Captures : Review(a)) \/ UNCHANGED vars
    PROVE  CaptureInv'
<1>1. /\ UNCHANGED <<closed, live, status, lifetimes, opening, open, readying>>
      /\ UNCHANGED <<begun, attempt, pending, saving, saves, retained, recovering, unfinished>>
  BY DEF Review, vars, device
<1>s. Shapes'
  BY <1>1 DEF CaptureInv, Shapes, Known
<1>o. OneWrite'
  BY <1>1 DEF CaptureInv, OneWrite
<1>t. Turns'
  BY <1>1 DEF CaptureInv, Turns, Known
<1>c. Cameras'
  BY <1>1 DEF CaptureInv, Cameras, OneCamera
<1>r. Recovered'
  BY <1>1 DEF CaptureInv, Recovered
<1> QED BY <1>s, <1>o, <1>t, <1>c, <1>r DEF CaptureInv

--------
(* The session as a whole.                                                 *)

LEMMA InitCaptures ==
    ASSUME Init
    PROVE  CaptureInv
<1>1. \A a \in Captures : ~Known(a)
  BY DEF Init, Known
<1>2. Foreign \in Nat /\ Foreign <= MaxCaptures /\ MaxCaptures \in Nat /\ 0 \in Lifetimes
  BY CaptureAssumption DEF Lifetimes
<1>s. Shapes
  <2>1. attempt \in [Captures -> Attempts \cup {None}]
    BY DEF Init
  <2>2. begun \in Foreign .. MaxCaptures /\ pending = 0 /\ unfinished = 1 .. begun
    BY <1>2 DEF Init
  <2> QED BY <1>1, <1>2, <2>1, <2>2, ReleasedLives DEF Init, Shapes
<1>o. OneWrite
  BY DEF Init, OneWrite
<1>t. Turns
  BY <1>1, ReleasedLives DEF Init, Turns
<1>c. Cameras
  <2>1. {} = {live.camera} \ {0} /\ (live.camera # 0) = live.running
    BY ReleasedLives DEF Init
  <2>2. OneCamera
    BY <2>1, ReleasedLives DEF Init, OneCamera
  <2> QED BY <2>2, ReleasedLives DEF Init, Cameras
<1>r. Recovered
  BY ReleasedLives DEF Init, Recovered
<1> QED BY <1>s, <1>o, <1>t, <1>c, <1>r DEF CaptureInv

LEMMA NextCaptures ==
    ASSUME CaptureInv, [Next]_vars
    PROVE  CaptureInv'
<1>1. CASE Prepare
  BY <1>1, PrepareKeeps
<1>2. CASE Stop
  <2>1. status' \in {"failed", "stopped"}
    BY <1>2 DEF Stop
  <2> QED BY <1>2, <2>1, EndedKeeps DEF Stop, StopLive, provider
<1>3. CASE Dispose
  BY <1>3, EndedKeeps DEF Dispose, StopLive, provider
<1>4. CASE Retry
  BY <1>4, RetryKeeps
<1>5. CASE Device
  BY <1>5, GrantedKeeps, DeniedKeeps, PreparedKeeps DEF Device
<1>6. CASE Attempt
  BY <1>6, AttemptKeeps
<1>7. CASE Recognition
  BY <1>7, RecognizeKeeps, HandleKeeps, EndAttemptKeeps, DeliverKeeps DEF Recognition
<1>8. CASE Answer
  BY <1>8, AnswerKeeps DEF Answer, Established
<1>9. CASE (\E a \in Captures : Review(a)) \/ UNCHANGED vars
  BY <1>9, ReviewKeeps
<1>10. CASE RetryNext
  BY <1>10, RetryNextKeeps
<1> QED BY <1>1, <1>2, <1>3, <1>4, <1>5, <1>6, <1>7, <1>8, <1>9, <1>10
       DEF Next, Owner, UserCards

\* The invariant of a session: whatever devices, Recognition, UserCards and the
\* owner do, and in whatever order, its writes, turns, cameras and recovery
\* stand in the relation session.ts relies on.
THEOREM CaptureInductive == Spec => []CaptureInv
<1>1. Init => CaptureInv
  BY InitCaptures
<1>2. CaptureInv /\ [Next]_vars => CaptureInv'
  BY NextCaptures
<1> QED BY <1>1, <1>2, PTL DEF Spec

\* saveCapture runs once at a time and for the attempt the session holds as
\* pending; one camera stream is open, that of the running session; and it does
\* not run before UserCards has settled what an earlier session left.
THEOREM WorksOneAtATime == Spec => []OneAtATime
<1>1. CaptureInv => OneAtATime
  <2> SUFFICES ASSUME CaptureInv PROVE OneAtATime
    OBVIOUS
  <2>1. OneWriteAtATime
    <3>1. CASE saves = {}
      BY <3>1, FS_EmptySet DEF CaptureInv, OneWrite, OneWriteAtATime
    <3>2. CASE saves # {}
      <4>1. PICK s \in saves : saves = {s}
        BY <3>2 DEF CaptureInv, OneWrite
      <4>2. Cardinality(saves) = 1
        BY <4>1, FS_Singleton
      <4> QED BY <4>2 DEF CaptureInv, OneWrite, OneWriteAtATime
    <3> QED BY <3>1, <3>2
  <2>2. OneCamera
    BY DEF CaptureInv, Cameras
  <2>3. RecoveredFirst
    BY DEF CaptureInv, Recovered, RecoveredFirst
  <2> QED BY <2>1, <2>2, <2>3 DEF OneAtATime
<1> QED BY <1>1, CaptureInductive, PTL

--------
(* The comparisons: what the operations make of an attempt's sequences.    *)

LEMMA TailNumbers ==
    ASSUME NEW S, NEW seq \in Seq(S), seq # <<>>, Distinct(seq)
    PROVE  /\ Tail(seq) \in Seq(S) /\ Distinct(Tail(seq))
           /\ NumbersOf(Tail(seq)) = NumbersOf(seq) \ {Head(seq).n}
           /\ Head(seq).n \in NumbersOf(seq)
           /\ \A k \in DOMAIN Tail(seq) : \E j \in DOMAIN seq :
                 Tail(seq)[k] = seq[j] /\ seq[j].n # Head(seq).n
<1>1. /\ Tail(seq) \in Seq(S) /\ Len(Tail(seq)) = Len(seq) - 1 /\ Len(seq) \in Nat
      /\ \A k \in 1 .. Len(Tail(seq)) : Tail(seq)[k] = seq[k + 1]
      /\ 1 \in DOMAIN seq /\ Head(seq) = seq[1] /\ DOMAIN seq = 1 .. Len(seq)
      /\ DOMAIN Tail(seq) = 1 .. Len(Tail(seq))
  BY HeadTailProperties
<1>2. \A k \in DOMAIN Tail(seq) :
         k + 1 \in DOMAIN seq /\ k + 1 # 1 /\ Tail(seq)[k] = seq[k + 1]
  BY <1>1
<1>3. \A j \in DOMAIN seq : j # 1 => j - 1 \in DOMAIN Tail(seq) /\ Tail(seq)[j - 1] = seq[j]
  BY <1>1
<1>4. \A j \in DOMAIN seq : j # 1 => seq[j].n # seq[1].n
  BY <1>1 DEF Distinct
<1>5. Distinct(Tail(seq))
  <2>1. ASSUME NEW j \in DOMAIN Tail(seq), NEW k \in DOMAIN Tail(seq),
               Tail(seq)[j].n = Tail(seq)[k].n
        PROVE  j = k
    <3>1. j + 1 = k + 1
      BY <1>2, <2>1 DEF Distinct
    <3> QED BY <3>1, <1>1
  <2> QED BY <2>1 DEF Distinct
<1>6. NumbersOf(Tail(seq)) = NumbersOf(seq) \ {Head(seq).n}
  <2>1. ASSUME NEW n \in NumbersOf(Tail(seq))  PROVE n \in NumbersOf(seq) \ {Head(seq).n}
    BY <1>1, <1>2, <1>4 DEF NumbersOf
  <2>2. ASSUME NEW n \in NumbersOf(seq), n # Head(seq).n  PROVE n \in NumbersOf(Tail(seq))
    <3>1. PICK j \in DOMAIN seq : seq[j].n = n
      BY DEF NumbersOf
    <3>2. j - 1 \in DOMAIN Tail(seq) /\ Tail(seq)[j - 1] = seq[j]
      BY <1>1, <1>3, <2>2, <3>1
    <3> QED BY <3>1, <3>2 DEF NumbersOf
  <2> QED BY <2>1, <2>2
<1>7. Head(seq).n \in NumbersOf(seq)
  BY <1>1 DEF NumbersOf
<1> QED BY <1>1, <1>2, <1>4, <1>5, <1>6, <1>7

LEMMA TailCertain ==
    ASSUME NEW seq \in Seq(Alternatives), seq # <<>>, Distinct(seq)
    PROVE  /\ Certain(Tail(seq)) \subseteq Certain(seq) \ {Head(seq).n}
           /\ ~Head(seq).uncertain => Head(seq).n \in Certain(seq)
<1>1. \A k \in DOMAIN Tail(seq) : \E j \in DOMAIN seq :
         Tail(seq)[k] = seq[j] /\ seq[j].n # Head(seq).n
  BY TailNumbers
<1>2. 1 \in DOMAIN seq /\ Head(seq) = seq[1]
  BY HeadTailProperties
<1> QED BY <1>1, <1>2 DEF Certain

LEMMA AppendNumbers ==
    ASSUME NEW S, NEW seq \in Seq(S), NEW e \in S, e.n \notin NumbersOf(seq), Distinct(seq)
    PROVE  /\ Append(seq, e) \in Seq(S) /\ Distinct(Append(seq, e))
           /\ NumbersOf(Append(seq, e)) = NumbersOf(seq) \cup {e.n}
           /\ \A k \in DOMAIN Append(seq, e) :
                 Append(seq, e)[k] = e \/ (k \in DOMAIN seq /\ Append(seq, e)[k] = seq[k])
<1> DEFINE t == Append(seq, e)
<1>1. /\ t \in Seq(S) /\ Len(t) = Len(seq) + 1 /\ Len(seq) \in Nat
      /\ \A k \in 1 .. Len(seq) : t[k] = seq[k]
      /\ t[Len(seq) + 1] = e
      /\ DOMAIN seq = 1 .. Len(seq) /\ DOMAIN t = 1 .. Len(seq) + 1
  BY AppendProperties
<1> HIDE DEF t
<1>2. \A k \in DOMAIN t : \/ k = Len(seq) + 1 /\ t[k] = e
                          \/ k \in DOMAIN seq /\ t[k] = seq[k]
  BY <1>1
<1>3. \A k \in DOMAIN seq : k \in DOMAIN t /\ t[k] = seq[k] /\ seq[k].n # e.n
  BY <1>1 DEF NumbersOf
<1>4. Distinct(t)
  BY <1>2, <1>3 DEF Distinct
<1>5. NumbersOf(t) = NumbersOf(seq) \cup {e.n}
  <2>1. NumbersOf(t) \subseteq NumbersOf(seq) \cup {e.n}
    BY <1>2 DEF NumbersOf
  <2>2. NumbersOf(seq) \subseteq NumbersOf(t)
    BY <1>3 DEF NumbersOf
  <2>3. e.n \in NumbersOf(t)
    <3>1. Len(seq) + 1 \in DOMAIN t /\ t[Len(seq) + 1] = e
      BY <1>1
    <3> QED BY <3>1 DEF NumbersOf
  <2> QED BY <2>1, <2>2, <2>3
<1> QED BY <1>1, <1>2, <1>4, <1>5 DEF t

LEMMA AppendCertain ==
    ASSUME NEW seq \in Seq(Alternatives), NEW n \in ReadingIds, n \notin NumbersOf(seq),
           Distinct(seq)
    PROVE  LET t == Append(seq, [n |-> n, uncertain |-> FALSE])
           IN  /\ t \in Seq(Alternatives) /\ Distinct(t)
               /\ NumbersOf(t) = NumbersOf(seq) \cup {n}
               /\ Certain(t) \subseteq Certain(seq) \cup {n}
<1> DEFINE e == [n |-> n, uncertain |-> FALSE]
<1>1. e \in Alternatives /\ e.n = n
  BY DEF Alternatives
<1> HIDE DEF e
<1>2. /\ Append(seq, e) \in Seq(Alternatives) /\ Distinct(Append(seq, e))
      /\ NumbersOf(Append(seq, e)) = NumbersOf(seq) \cup {n}
      /\ \A k \in DOMAIN Append(seq, e) :
            Append(seq, e)[k] = e \/ (k \in DOMAIN seq /\ Append(seq, e)[k] = seq[k])
  BY <1>1, AppendNumbers
<1>3. Certain(Append(seq, e)) \subseteq Certain(seq) \cup {n}
  BY <1>1, <1>2 DEF Certain
<1> QED BY <1>2, <1>3 DEF e

LEMMA UncertainNumbers ==
    ASSUME NEW seq \in Seq(Alternatives), seq # <<>>, Distinct(seq)
    PROVE  LET t == <<[Head(seq) EXCEPT !.uncertain = TRUE]>> \o Tail(seq)
           IN  /\ t \in Seq(Alternatives) /\ Distinct(t)
               /\ NumbersOf(t) = NumbersOf(seq) /\ Certain(t) \subseteq Certain(seq)
               /\ Head(seq).n \notin Certain(t)
<1> DEFINE first == [Head(seq) EXCEPT !.uncertain = TRUE]
           t == <<first>> \o Tail(seq)
<1>1. /\ Head(seq) \in Alternatives /\ Tail(seq) \in Seq(Alternatives) /\ Len(seq) \in Nat
      /\ Len(Tail(seq)) = Len(seq) - 1 /\ \A k \in 1 .. Len(Tail(seq)) : Tail(seq)[k] = seq[k + 1]
      /\ 1 \in DOMAIN seq /\ Head(seq) = seq[1] /\ DOMAIN seq = 1 .. Len(seq)
  BY HeadTailProperties
<1>2. first \in Alternatives /\ first.n = Head(seq).n /\ first.uncertain
  BY <1>1 DEF Alternatives
<1> HIDE DEF first
<1>3. /\ t \in Seq(Alternatives) /\ Len(t) = Len(seq) /\ t[1] = first
      /\ \A k \in 2 .. Len(t) : t[k] = seq[k]
  <2>1. <<first>> \in Seq(Alternatives) /\ Len(<<first>>) = 1 /\ <<first>>[1] = first
    BY <1>2
  <2> DEFINE one == <<first>>
  <2> HIDE DEF one
  <2>2. /\ one \o Tail(seq) \in Seq(Alternatives)
        /\ Len(one \o Tail(seq)) = Len(one) + Len(Tail(seq))
        /\ \A k \in 1 .. Len(one) + Len(Tail(seq)) :
              (one \o Tail(seq))[k] = IF k <= Len(one) THEN one[k] ELSE Tail(seq)[k - Len(one)]
    BY <1>1, <2>1, ConcatProperties DEF one
  <2>3. t \in Seq(Alternatives) /\ Len(t) = Len(seq) /\ t[1] = first
    BY <1>1, <2>1, <2>2 DEF one
  <2>4. ASSUME NEW k \in 2 .. Len(t)  PROVE t[k] = seq[k]
    <3>1. k - 1 \in 1 .. Len(Tail(seq)) /\ (k - 1) + 1 = k /\ ~(k <= 1) /\ k \in 1 .. Len(seq)
      BY <1>1, <2>3, <2>4
    <3>2. t[k] = Tail(seq)[k - 1]
      BY <1>1, <2>1, <2>2, <3>1 DEF one
    <3> QED BY <1>1, <3>1, <3>2
  <2> QED BY <2>3, <2>4
<1> HIDE DEF t
<1>4. DOMAIN t = DOMAIN seq /\ \A k \in DOMAIN t :
         t[k].n = seq[k].n /\ ((k = 1 /\ t[k].uncertain) \/ (k # 1 /\ t[k] = seq[k]))
  BY <1>1, <1>2, <1>3
<1>5. Distinct(t) /\ NumbersOf(t) = NumbersOf(seq)
  BY <1>4 DEF Distinct, NumbersOf
<1>6. Certain(t) \subseteq Certain(seq)
  BY <1>4 DEF Certain
<1>7. Head(seq).n \notin Certain(t)
  BY <1>1, <1>4 DEF Certain, Distinct
<1> QED BY <1>3, <1>5, <1>6, <1>7 DEF t, first

LEMMA WithoutNumbers ==
    ASSUME NEW seq \in Seq(Alternatives), NEW n, Distinct(seq)
    PROVE  LET t == Without(seq, n)
           IN  /\ t \in Seq(Alternatives) /\ Distinct(t)
               /\ NumbersOf(t) = NumbersOf(seq) \ {n} /\ Certain(t) \subseteq Certain(seq)
<1> DEFINE t == Without(seq, n)
<1>1. /\ t \in Seq(Alternatives) /\ Distinct(t)
      /\ {t[k] : k \in DOMAIN t} = {seq[k] : k \in {k \in DOMAIN seq : seq[k].n # n}}
  BY WithoutProperties DEF Distinct
<1> HIDE DEF t
<1>2. \A k \in DOMAIN t : \E j \in DOMAIN seq : t[k] = seq[j] /\ seq[j].n # n
  BY <1>1
<1>3. \A j \in DOMAIN seq : seq[j].n # n => \E k \in DOMAIN t : t[k] = seq[j]
  <2> TAKE j \in DOMAIN seq
  <2> HAVE seq[j].n # n
  <2>1. seq[j] \in {t[k] : k \in DOMAIN t}
    BY <1>1
  <2> QED BY <2>1
<1>4. NumbersOf(t) = NumbersOf(seq) \ {n}
  <2>1. ASSUME NEW m \in NumbersOf(t)  PROVE m \in NumbersOf(seq) \ {n}
    BY <1>2 DEF NumbersOf
  <2>2. ASSUME NEW m \in NumbersOf(seq), m # n  PROVE m \in NumbersOf(t)
    <3>1. PICK j \in DOMAIN seq : seq[j].n = m
      BY <2>2 DEF NumbersOf
    <3>2. PICK k \in DOMAIN t : t[k] = seq[j]
      BY <1>3, <2>2, <3>1
    <3> QED BY <3>1, <3>2 DEF NumbersOf
  <2> QED BY <2>1, <2>2
<1>5. Certain(t) \subseteq Certain(seq)
  BY <1>2 DEF Certain
<1> QED BY <1>1, <1>4, <1>5 DEF t

--------
(* The comparisons: an attempt's record stays sound.                       *)

LEMMA SoundFields ==
    ASSUME NEW r, Sound(r)
    PROVE  /\ r.delivered \in Nat /\ r.delivered <= MaxReadings /\ MaxReadings \in Nat
           /\ r.queue \in Seq(Readings) /\ r.alternatives \in Seq(Alternatives)
           /\ r.staging \in 0 .. MaxReadings /\ r.stagedBy \in 0 .. MaxReadings
           /\ r.kept \subseteq ReadingIds /\ r.attached \subseteq ReadingIds
           /\ r.refused \subseteq ReadingIds /\ 0 \notin ReadingIds
           /\ r.staged \in BOOLEAN /\ r.entry \in BOOLEAN /\ r.unresolved \in BOOLEAN
           /\ ReadingIds \subseteq 0 .. MaxReadings
BY CaptureAssumption DEF Sound, Attempts, ReadingIds

LEMMA SoundRecord ==
    ASSUME NEW phase \in {"preparing", "over"}, NEW unresolved \in BOOLEAN, NEW told
    PROVE  LET r == Record(phase, unresolved)
           IN  /\ Sound(r) /\ r.delivered = 0 /\ r.phase = phase /\ ~r.entry /\ r.refused = {}
               /\ r.alternatives = <<>> /\ r.staging = 0 /\ Numbers(r) = {}
<1> DEFINE r == Record(phase, unresolved)
<1>1. /\ r.delivered = 0 /\ r.queue = <<>> /\ r.alternatives = <<>> /\ ~r.staged /\ ~r.entry
      /\ r.staging = 0 /\ r.kept = {} /\ r.stagedBy = 0 /\ r.attached = {} /\ r.refused = {}
      /\ ~r.twice /\ r.phase = phase
  BY DEF Record
<1>2. r \in Attempts
  BY RecordType
<1> HIDE DEF r
<1>3. NumbersOf(<<>>) = {} /\ Distinct(<<>>) /\ DOMAIN <<>> = {}
  BY EmptySeq DEF NumbersOf, Distinct
<1> QED BY <1>1, <1>2, <1>3 DEF Sound, Tidy, Submitting, NothingLost, Numbers, Accounted, r

LEMMA SoundSettled ==
    ASSUME NEW r, Sound(r),
           ~r.entry => r.staging = 0 /\ ~r.unresolved /\ (r.phase = "over" \/ r.staged)
    PROVE  LET q == Settled(r)
           IN  /\ Sound(q) /\ q.phase = r.phase /\ q.queue = r.queue /\ q.entry = r.entry
               /\ q.delivered = r.delivered /\ q.staging = r.staging /\ q.kept = r.kept
               /\ q.refused = r.refused /\ q.unresolved = r.unresolved
               /\ (r.entry => q = r) /\ (~r.entry => q.alternatives = <<>>)
<1>1. CASE r.entry
  BY <1>1 DEF Settled
<1>2. CASE ~r.entry
  <2> DEFINE q == [r EXCEPT !.alternatives = <<>>]
  <2>1. Settled(r) = q
    BY <1>2 DEF Settled
  <2>2. /\ q.phase = r.phase /\ q.queue = r.queue /\ q.entry = r.entry
        /\ q.delivered = r.delivered /\ q.staging = r.staging /\ q.kept = r.kept
        /\ q.refused = r.refused /\ q.unresolved = r.unresolved /\ q.alternatives = <<>>
        /\ q.attached = r.attached /\ q.stagedBy = r.stagedBy /\ q.twice = r.twice
        /\ q.staged = r.staged /\ q \in Attempts
    BY EmptySeq DEF Sound, Attempts
  <2> HIDE DEF q
  <2>3. NumbersOf(<<>>) = {} /\ Distinct(<<>>)
    BY EmptySeq DEF NumbersOf, Distinct
  <2>4. Tidy(q)
    BY <2>2, <2>3 DEF Sound, Tidy, Numbers, Accounted, Awaits
  <2>5. Submitting(q) /\ NothingLost(q)
    BY <1>2, <2>2, <2>3 DEF Sound, Submitting, NothingLost
  <2> QED BY <1>2, <2>1, <2>2, <2>4, <2>5 DEF Sound
<1> QED BY <1>1, <1>2

LEMMA SoundEntered ==
    ASSUME NEW r, Sound(r), r.staging # 0 \/ r.unresolved, NEW decision
    PROVE  LET q == Entered(r, decision)
           IN  /\ Sound(q) /\ q.phase = r.phase /\ q.queue = r.queue /\ q.staging = 0 /\ q.staged
               /\ ~q.unresolved /\ q.kept = r.kept /\ q.refused = r.refused /\ ~r.entry
               /\ q.alternatives = r.alternatives /\ q.delivered = r.delivered
<1> DEFINE q == Entered(r, decision)
<1>1. r \in Attempts
  BY DEF Sound
<1>2. /\ Keeps(r, q) /\ q.staging = 0 /\ q.alternatives = r.alternatives
      /\ q.delivered = r.delivered /\ q.kept = r.kept /\ q.stagedBy = r.stagedBy
      /\ q.attached = r.attached /\ q.refused = r.refused /\ q.twice = r.twice
  BY <1>1, EnteredKeeps
<1>3. ~q.unresolved /\ q.staged
  BY <1>1, EnteredFlags
<1> HIDE DEF q
<1>4. ~r.staged /\ ~r.entry /\ r.attached = {}
  BY DEF Sound, Submitting
<1>5. Tidy(q)
  BY <1>2 DEF Sound, Tidy, Numbers, Accounted, Awaits, Keeps
<1>6. Submitting(q)
  BY <1>2, <1>3, <1>4 DEF Submitting
<1>7. NothingLost(q)
  BY <1>2, <1>3 DEF Sound, NothingLost, Numbers, Accounted
<1> QED BY <1>2, <1>3, <1>4, <1>5, <1>6, <1>7 DEF Sound, Keeps, q

LEMMA SoundRefused ==
    ASSUME NEW r, Sound(r), r.staging # 0, ~r.unresolved
    PROVE  LET q == [r EXCEPT !.staging = 0, !.refused = @ \cup {r.staging}]
           IN  /\ Sound(q) /\ q.phase = r.phase /\ q.queue = r.queue /\ q.staging = 0
               /\ q.kept = r.kept /\ q.refused = r.refused \cup {r.staging} /\ ~q.entry
               /\ q.entry = r.entry /\ q.alternatives = r.alternatives /\ q.delivered = r.delivered
<1> DEFINE refused == r.refused \cup {r.staging}
           q == [r EXCEPT !.staging = 0, !.refused = refused]
<1>1. r.staging \in ReadingIds /\ refused \subseteq ReadingIds /\ 0 \in 0 .. MaxReadings
  BY SoundFields DEF ReadingIds
<1> HIDE DEF refused
<1>2. /\ q.phase = r.phase /\ q.queue = r.queue /\ q.entry = r.entry
      /\ q.delivered = r.delivered /\ q.staging = 0 /\ q.kept = r.kept
      /\ q.refused = refused /\ q.unresolved = r.unresolved /\ q.alternatives = r.alternatives
      /\ q.attached = r.attached /\ q.stagedBy = r.stagedBy /\ q.twice = r.twice
      /\ q.staged = r.staged /\ q \in Attempts
  BY <1>1 DEF Sound, Attempts
<1> HIDE DEF q
<1>3. r.stagedBy = r.staging /\ ~r.entry /\ ~r.staged /\ Accounted(q) = Accounted(r)
  BY <1>2 DEF Sound, Submitting, Accounted, refused
<1>4. Tidy(q)
  <2>1. \A j \in DOMAIN q.queue : Awaits(q, q.queue[j])
    BY <1>2, <1>3 DEF Sound, Tidy, Awaits
  <2>2. r.staging \in 1 .. r.delivered
    BY <1>1, <1>3, SoundFields DEF Sound, Tidy, ReadingIds
  <2>3. q.kept \cup q.attached \cup q.refused \subseteq 1 .. q.delivered
    BY <1>2, <2>2 DEF Sound, Tidy, refused
  <2> QED BY <1>2, <1>3, <2>1, <2>3 DEF Sound, Tidy, Numbers
<1>5. Submitting(q)
  BY <1>2, <1>3 DEF Sound, Submitting, refused
<1>6. NothingLost(q)
  BY <1>2, <1>3 DEF Sound, NothingLost, Numbers
<1> QED BY <1>2, <1>3, <1>4, <1>5, <1>6 DEF Sound, q, refused

LEMMA SoundLost ==
    ASSUME NEW r, Sound(r), r.staging # 0 \/ r.unresolved
    PROVE  LET q == [r EXCEPT !.staging = 0, !.unresolved = TRUE]
           IN  /\ Sound(q) /\ q.phase = r.phase /\ q.queue = r.queue /\ q.staging = 0
               /\ q.kept = r.kept /\ q.refused = r.refused /\ q.unresolved
               /\ q.entry = r.entry /\ q.alternatives = r.alternatives /\ q.delivered = r.delivered
<1> DEFINE q == [r EXCEPT !.staging = 0, !.unresolved = TRUE]
<1>1. 0 \in 0 .. MaxReadings
  BY CaptureAssumption
<1>2. /\ q.phase = r.phase /\ q.queue = r.queue /\ q.entry = r.entry
      /\ q.delivered = r.delivered /\ q.staging = 0 /\ q.kept = r.kept
      /\ q.refused = r.refused /\ q.unresolved /\ q.alternatives = r.alternatives
      /\ q.attached = r.attached /\ q.stagedBy = r.stagedBy /\ q.twice = r.twice
      /\ q.staged = r.staged /\ q \in Attempts
  BY <1>1 DEF Sound, Attempts
<1> HIDE DEF q
<1>3. ~r.staged
  BY DEF Sound, Submitting
<1>4. Tidy(q)
  BY <1>2 DEF Sound, Tidy, Numbers, Awaits, Accounted
<1>5. Submitting(q) /\ NothingLost(q)
  BY <1>2, <1>3 DEF Sound, Submitting, NothingLost, Numbers, Accounted
<1> QED BY <1>2, <1>4, <1>5 DEF Sound, q

\* The comparison at the head is held once, was kept, and is accounted for nowhere.
LEMMA SoundHead ==
    ASSUME NEW r, Sound(r), r.alternatives # <<>>
    PROVE  LET n == Head(r.alternatives).n
           IN  /\ Head(r.alternatives) \in Alternatives /\ n \in ReadingIds
               /\ n \in Numbers(r) /\ n \in r.kept /\ n \notin Accounted(r)
               /\ Tail(r.alternatives) \in Seq(Alternatives) /\ Distinct(Tail(r.alternatives))
               /\ NumbersOf(Tail(r.alternatives)) = Numbers(r) \ {n}
               /\ Certain(Tail(r.alternatives)) \subseteq Certain(r.alternatives) \ {n}
               /\ ~Head(r.alternatives).uncertain => n \in Certain(r.alternatives)
<1>1. r.alternatives \in Seq(Alternatives) /\ Distinct(r.alternatives)
  BY SoundFields DEF Sound, Tidy
<1>2. Head(r.alternatives) \in Alternatives
  BY <1>1, HeadTailProperties
<1>3. Head(r.alternatives).n \in ReadingIds
  BY <1>2 DEF Alternatives
<1> QED BY <1>1, <1>2, <1>3, TailNumbers, TailCertain DEF Sound, Tidy, Numbers

LEMMA SoundAttached ==
    ASSUME NEW r, Sound(r), Drains(r)
    PROVE  LET q == Attached(r)
               n == Head(r.alternatives).n
           IN  /\ Sound(q) /\ q.phase = r.phase /\ q.queue = r.queue /\ q.staging = r.staging
               /\ q.kept = r.kept /\ q.refused = r.refused /\ q.entry = r.entry
               /\ q.unresolved = r.unresolved /\ q.delivered = r.delivered
               /\ Certain(q.alternatives) \subseteq Certain(r.alternatives) \ {n}
<1> DEFINE n == Head(r.alternatives).n
           left == Tail(r.alternatives)
           attached == r.attached \cup {n}
           q == [r EXCEPT !.alternatives = left, !.attached = attached, !.twice = FALSE]
<1>1. /\ n \in ReadingIds /\ n \in Numbers(r) /\ n \in r.kept /\ n \notin Accounted(r)
      /\ left \in Seq(Alternatives) /\ Distinct(left) /\ NumbersOf(left) = Numbers(r) \ {n}
      /\ Certain(left) \subseteq Certain(r.alternatives) \ {n}
  BY SoundHead DEF Drains
<1>2. (r.twice \/ n \in r.attached) = FALSE
  BY <1>1 DEF Accounted, Sound, Tidy
<1>3. Attached(r) = q
  BY <1>2 DEF Attached
<1> HIDE DEF n, left
<1>4. attached \subseteq ReadingIds
  BY <1>1, SoundFields
<1> HIDE DEF attached
<1>5. /\ q.phase = r.phase /\ q.queue = r.queue /\ q.entry = r.entry
      /\ q.delivered = r.delivered /\ q.staging = r.staging /\ q.kept = r.kept
      /\ q.refused = r.refused /\ q.unresolved = r.unresolved /\ q.alternatives = left
      /\ q.attached = attached /\ q.stagedBy = r.stagedBy /\ ~q.twice
      /\ q.staged = r.staged /\ q \in Attempts
  BY <1>1, <1>4 DEF Sound, Attempts
<1> HIDE DEF q
<1>6. Accounted(q) = Accounted(r) \cup {n} /\ Numbers(q) = Numbers(r) \ {n}
  BY <1>1, <1>5 DEF Accounted, attached, Numbers
<1>7. Tidy(q)
  <2>1. \A j \in DOMAIN q.queue : Awaits(q, q.queue[j])
    BY <1>1, <1>5, <1>6 DEF Sound, Tidy, Awaits
  <2>2. q.kept \cup q.attached \cup q.refused \subseteq 1 .. q.delivered /\ q.stagedBy <= q.delivered
    BY <1>1, <1>5 DEF Sound, Tidy, attached, Numbers
  <2>3. q.stagedBy \notin q.attached
    BY <1>1, <1>5 DEF Sound, Tidy, attached, Accounted
  <2> QED BY <1>1, <1>5, <1>6, <2>1, <2>2, <2>3 DEF Sound, Tidy
<1>8. Submitting(q)
  BY <1>5 DEF Sound, Submitting, Drains
<1>9. NothingLost(q)
  BY <1>5, <1>6 DEF Sound, NothingLost
<1> QED BY <1>1, <1>3, <1>5, <1>7, <1>8, <1>9 DEF Sound, n

LEMMA SoundRejected ==
    ASSUME NEW r, Sound(r), Drains(r)
    PROVE  LET q == Rejected(r)
               n == Head(r.alternatives).n
           IN  /\ Sound(q) /\ q.phase = r.phase /\ q.queue = r.queue /\ q.staging = r.staging
               /\ q.kept = r.kept /\ q.entry = r.entry
               /\ q.unresolved = r.unresolved /\ q.delivered = r.delivered
               /\ Certain(q.alternatives) \subseteq Certain(r.alternatives)
               /\ q.refused = r.refused \/ (q.refused = r.refused \cup {n} /\ n \in Certain(r.alternatives))
<1>1. CASE Head(r.alternatives).uncertain
  BY <1>1 DEF Rejected
<1>2. CASE ~Head(r.alternatives).uncertain
  <2> DEFINE n == Head(r.alternatives).n
             left == Tail(r.alternatives)
             refused == r.refused \cup {n}
             q == [r EXCEPT !.alternatives = left, !.refused = refused]
  <2>1. /\ n \in ReadingIds /\ n \in Numbers(r) /\ n \in r.kept /\ n \notin Accounted(r)
        /\ left \in Seq(Alternatives) /\ Distinct(left) /\ NumbersOf(left) = Numbers(r) \ {n}
        /\ Certain(left) \subseteq Certain(r.alternatives) \ {n} /\ n \in Certain(r.alternatives)
    BY <1>2, SoundHead DEF Drains
  <2>3. Rejected(r) = q
    BY <1>2 DEF Rejected
  <2> HIDE DEF n, left
  <2>4. refused \subseteq ReadingIds
    BY <2>1, SoundFields
  <2> HIDE DEF refused
  <2>5. /\ q.phase = r.phase /\ q.queue = r.queue /\ q.entry = r.entry
        /\ q.delivered = r.delivered /\ q.staging = r.staging /\ q.kept = r.kept
        /\ q.refused = refused /\ q.unresolved = r.unresolved /\ q.alternatives = left
        /\ q.attached = r.attached /\ q.stagedBy = r.stagedBy /\ q.twice = r.twice
        /\ q.staged = r.staged /\ q \in Attempts
    BY <2>1, <2>4 DEF Sound, Attempts
  <2> HIDE DEF q
  <2>6. Accounted(q) = Accounted(r) \cup {n} /\ Numbers(q) = Numbers(r) \ {n}
    BY <2>1, <2>5 DEF Accounted, refused, Numbers
  <2>7. Tidy(q)
    <3>1. \A j \in DOMAIN q.queue : Awaits(q, q.queue[j])
      BY <2>1, <2>5, <2>6 DEF Sound, Tidy, Awaits
    <3>2. q.kept \cup q.attached \cup q.refused \subseteq 1 .. q.delivered
      BY <2>1, <2>5 DEF Sound, Tidy, refused
    <3> QED BY <2>1, <2>5, <2>6, <3>1, <3>2 DEF Sound, Tidy
  <2>8. Submitting(q)
    BY <2>5 DEF Sound, Submitting, Drains
  <2>9. NothingLost(q)
    BY <2>5, <2>6 DEF Sound, NothingLost
  <2> QED BY <2>1, <2>3, <2>5, <2>7, <2>8, <2>9 DEF Sound, n, refused
<1> QED BY <1>1, <1>2

LEMMA SoundUncertain ==
    ASSUME NEW r, Sound(r), Drains(r)
    PROVE  LET q == Uncertain(r)
               n == Head(r.alternatives).n
           IN  /\ Sound(q) /\ q.phase = r.phase /\ q.queue = r.queue /\ q.staging = r.staging
               /\ q.kept = r.kept /\ q.refused = r.refused /\ q.entry = r.entry
               /\ q.unresolved = r.unresolved /\ q.delivered = r.delivered
               /\ Certain(q.alternatives) \subseteq Certain(r.alternatives) \ {n}
<1> DEFINE n == Head(r.alternatives).n
           left == <<[Head(r.alternatives) EXCEPT !.uncertain = TRUE]>> \o Tail(r.alternatives)
           q == [r EXCEPT !.alternatives = left]
<1>1. /\ left \in Seq(Alternatives) /\ Distinct(left) /\ NumbersOf(left) = Numbers(r)
      /\ Certain(left) \subseteq Certain(r.alternatives) \ {n}
  <2>1. r.alternatives \in Seq(Alternatives) /\ r.alternatives # <<>> /\ Distinct(r.alternatives)
    BY SoundFields DEF Drains, Sound, Tidy
  <2>2. /\ left \in Seq(Alternatives) /\ Distinct(left)
        /\ NumbersOf(left) = NumbersOf(r.alternatives)
        /\ Certain(left) \subseteq Certain(r.alternatives) /\ n \notin Certain(left)
    BY <2>1, UncertainNumbers
  <2> HIDE DEF left, n
  <2> QED BY <2>2 DEF Numbers
<1>2. Uncertain(r) = q
  BY DEF Uncertain
<1> HIDE DEF left, n
<1>3. /\ q.phase = r.phase /\ q.queue = r.queue /\ q.entry = r.entry
      /\ q.delivered = r.delivered /\ q.staging = r.staging /\ q.kept = r.kept
      /\ q.refused = r.refused /\ q.unresolved = r.unresolved /\ q.alternatives = left
      /\ q.attached = r.attached /\ q.stagedBy = r.stagedBy /\ q.twice = r.twice
      /\ q.staged = r.staged /\ q \in Attempts
  BY <1>1 DEF Sound, Attempts
<1> HIDE DEF q
<1>4. Accounted(q) = Accounted(r) /\ Numbers(q) = Numbers(r)
  BY <1>1, <1>3 DEF Accounted, Numbers
<1>5. Tidy(q)
  BY <1>1, <1>3, <1>4 DEF Sound, Tidy, Awaits
<1>6. Submitting(q) /\ NothingLost(q)
  BY <1>3, <1>4 DEF Sound, Submitting, NothingLost
<1> QED BY <1>1, <1>2, <1>3, <1>5, <1>6 DEF Sound, n

\* Recognition goes on, or ends.
LEMMA SoundPhase ==
    ASSUME NEW r, Sound(r), NEW phase \in {"recognizing", "over"},
           r.phase = "over" => phase = "over"
    PROVE  LET q == [r EXCEPT !.phase = phase]
           IN  /\ Sound(q) /\ q.phase = phase /\ q.queue = r.queue /\ q.staging = r.staging
               /\ q.kept = r.kept /\ q.refused = r.refused /\ q.entry = r.entry
               /\ q.alternatives = r.alternatives /\ q.delivered = r.delivered
<1> DEFINE q == [r EXCEPT !.phase = phase]
<1>1. /\ q.phase = phase /\ q.queue = r.queue /\ q.entry = r.entry
      /\ q.delivered = r.delivered /\ q.staging = r.staging /\ q.kept = r.kept
      /\ q.refused = r.refused /\ q.unresolved = r.unresolved /\ q.alternatives = r.alternatives
      /\ q.attached = r.attached /\ q.stagedBy = r.stagedBy /\ q.twice = r.twice
      /\ q.staged = r.staged /\ q \in Attempts
  BY DEF Sound, Attempts
<1> HIDE DEF q
<1>2. Accounted(q) = Accounted(r) /\ Numbers(q) = Numbers(r)
  BY <1>1 DEF Accounted, Numbers
<1>3. Tidy(q)
  BY <1>1, <1>2 DEF Sound, Tidy, Awaits
<1>4. Submitting(q) /\ NothingLost(q)
  BY <1>1, <1>2 DEF Sound, Submitting, NothingLost
<1> QED BY <1>1, <1>3, <1>4 DEF Sound, q

\* A reading that was taken from the queue, or is about to join it.
Fresh(r, reading) ==
    reading \in Readings /\ reading.n \notin NumbersOf(r.queue) /\ Awaits(r, reading)

LEMMA SoundTaken ==
    ASSUME NEW r, Sound(r), r.queue # <<>>
    PROVE  LET q == [r EXCEPT !.queue = Tail(@)]
               reading == Head(r.queue)
           IN  /\ Sound(q) /\ q.phase = r.phase /\ q.staging = r.staging /\ Fresh(q, reading)
               /\ q.kept = r.kept /\ q.refused = r.refused /\ q.entry = r.entry
               /\ q.unresolved = r.unresolved /\ q.staged = r.staged
               /\ q.alternatives = r.alternatives /\ q.delivered = r.delivered
               /\ NumbersOf(q.queue) = NumbersOf(r.queue) \ {reading.n}
<1> DEFINE left == Tail(r.queue)
           reading == Head(r.queue)
           q == [r EXCEPT !.queue = left]
<1>1. r.queue \in Seq(Readings) /\ Distinct(r.queue) /\ \A j \in DOMAIN r.queue : Awaits(r, r.queue[j])
  BY SoundFields DEF Sound, Tidy
<1>2. /\ left \in Seq(Readings) /\ Distinct(left)
      /\ NumbersOf(left) = NumbersOf(r.queue) \ {reading.n}
      /\ \A k \in DOMAIN left : \E j \in DOMAIN r.queue : left[k] = r.queue[j]
  BY <1>1, TailNumbers
<1>3. reading \in Readings /\ 1 \in DOMAIN r.queue /\ reading = r.queue[1]
  BY <1>1, HeadTailProperties
<1>4. Awaits(r, reading) /\ \A k \in DOMAIN left : Awaits(r, left[k])
  BY <1>1, <1>2, <1>3
<1> HIDE DEF left, reading
<1>5. /\ q.phase = r.phase /\ q.queue = left /\ q.entry = r.entry
      /\ q.delivered = r.delivered /\ q.staging = r.staging /\ q.kept = r.kept
      /\ q.refused = r.refused /\ q.unresolved = r.unresolved /\ q.alternatives = r.alternatives
      /\ q.attached = r.attached /\ q.stagedBy = r.stagedBy /\ q.twice = r.twice
      /\ q.staged = r.staged /\ q \in Attempts
  BY <1>2 DEF Sound, Attempts
<1> HIDE DEF q
<1>6. Accounted(q) = Accounted(r) /\ Numbers(q) = Numbers(r)
  BY <1>5 DEF Accounted, Numbers
<1>7. Awaits(q, reading) /\ \A k \in DOMAIN q.queue : Awaits(q, q.queue[k])
  BY <1>4, <1>5, <1>6 DEF Awaits
<1>8. Tidy(q)
  BY <1>2, <1>5, <1>6, <1>7 DEF Sound, Tidy
<1>9. Submitting(q) /\ NothingLost(q)
  BY <1>5, <1>6 DEF Sound, Submitting, NothingLost
<1> QED BY <1>2, <1>3, <1>5, <1>7, <1>8, <1>9 DEF Sound, Fresh, q, left, reading

LEMMA SoundKept ==
    ASSUME NEW r, Sound(r), NEW reading, Fresh(r, reading)
    PROVE  LET q == Kept(r, reading)
           IN  /\ Sound(q) /\ q.phase = r.phase /\ q.queue = r.queue /\ q.staging = r.staging
               /\ r.kept \subseteq q.kept /\ q.refused = r.refused /\ q.entry = r.entry
               /\ q.unresolved = r.unresolved /\ q.delivered = r.delivered
               /\ Certain(q.alternatives) \subseteq Certain(r.alternatives) \cup (q.kept \ r.kept)
<1>1. CASE ~reading.usable \/ reading.retained
  BY <1>1 DEF Kept
<1>2. CASE ~(~reading.usable \/ reading.retained)
  <2> DEFINE n == reading.n
             left == Append(r.alternatives, [n |-> n, uncertain |-> FALSE])
             kept == r.kept \cup {n}
             q == [r EXCEPT !.alternatives = left, !.kept = kept]
  <2>1. n \in ReadingIds /\ n \notin r.kept /\ n \notin Accounted(r) /\ n <= r.delivered
        /\ n \notin NumbersOf(r.queue)
    BY <1>2 DEF Fresh, Awaits, Readings
  <2>2. Kept(r, reading) = q
    BY <1>2 DEF Kept
  <2> HIDE DEF n
  <2>3. /\ left \in Seq(Alternatives) /\ Distinct(left) /\ NumbersOf(left) = Numbers(r) \cup {n}
        /\ Certain(left) \subseteq Certain(r.alternatives) \cup {n}
    <3>1. r.alternatives \in Seq(Alternatives) /\ Distinct(r.alternatives)
          /\ n \notin NumbersOf(r.alternatives)
      BY <2>1, SoundFields DEF Sound, Tidy, Numbers
    <3> QED BY <2>1, <3>1, AppendCertain DEF Numbers
  <2> HIDE DEF left
  <2>4. kept \subseteq ReadingIds
    BY <2>1, SoundFields
  <2> HIDE DEF kept
  <2>5. /\ q.phase = r.phase /\ q.queue = r.queue /\ q.entry = r.entry
        /\ q.delivered = r.delivered /\ q.staging = r.staging /\ q.kept = kept
        /\ q.refused = r.refused /\ q.unresolved = r.unresolved /\ q.alternatives = left
        /\ q.attached = r.attached /\ q.stagedBy = r.stagedBy /\ q.twice = r.twice
        /\ q.staged = r.staged /\ q \in Attempts
    BY <2>3, <2>4 DEF Sound, Attempts
  <2> HIDE DEF q
  <2>6. Accounted(q) = Accounted(r) /\ Numbers(q) = Numbers(r) \cup {n}
    BY <2>3, <2>5 DEF Accounted, Numbers
  <2>7. Tidy(q)
    <3>1. \A j \in DOMAIN q.queue : Awaits(q, q.queue[j])
      <4>1. \A j \in DOMAIN q.queue : Awaits(r, q.queue[j]) /\ q.queue[j].n # n
        BY <2>1, <2>5 DEF Sound, Tidy, NumbersOf
      <4> QED BY <2>5, <2>6, <4>1 DEF Awaits, kept
    <3>2. q.kept \cup q.attached \cup q.refused \subseteq 1 .. q.delivered
      <4>1. n \in 1 .. r.delivered
        BY <2>1, SoundFields DEF ReadingIds
      <4> QED BY <2>5, <4>1 DEF Sound, Tidy, kept
    <3> QED BY <2>1, <2>3, <2>5, <2>6, <3>1, <3>2 DEF Sound, Tidy, kept
  <2>8. Submitting(q)
    BY <2>5 DEF Sound, Submitting
  <2>9. NothingLost(q)
    BY <2>5, <2>6 DEF Sound, NothingLost, kept
  <2>10. r.kept \subseteq q.kept
         /\ Certain(q.alternatives) \subseteq Certain(r.alternatives) \cup (q.kept \ r.kept)
    BY <2>1, <2>3, <2>5 DEF kept
  <2> QED BY <2>2, <2>5, <2>7, <2>8, <2>9, <2>10 DEF Sound
<1> QED BY <1>1, <1>2

\* A first usable reading is submitted, and is then no comparison of its own entry.
Submitted(r, n) ==
    [r EXCEPT !.staging = n, !.alternatives = Without(@, n), !.stagedBy = n]

LEMMA SoundSubmitted ==
    ASSUME NEW r, Sound(r), NEW reading, Fresh(r, reading), r.phase # "over",
           r.staging = 0, ~r.unresolved, ~r.staged
    PROVE  LET q == Submitted(r, reading.n)
           IN  /\ Sound(q) /\ q.phase = r.phase /\ q.queue = r.queue /\ q.staging = reading.n
               /\ q.kept = r.kept /\ q.refused = r.refused /\ q.entry = r.entry /\ ~q.entry
               /\ q.unresolved = r.unresolved /\ q.delivered = r.delivered
               /\ Certain(q.alternatives) \subseteq Certain(r.alternatives)
<1> DEFINE n == reading.n
           left == Without(r.alternatives, n)
           q == [r EXCEPT !.staging = n, !.alternatives = left, !.stagedBy = n]
<1>1. n \in ReadingIds /\ n <= r.delivered /\ n \notin NumbersOf(r.queue) /\ n \in 0 .. MaxReadings
  BY SoundFields DEF Fresh, Awaits, Readings
<1>2. Submitted(r, reading.n) = q
  BY DEF Submitted
<1> HIDE DEF n
<1>3. /\ left \in Seq(Alternatives) /\ Distinct(left) /\ NumbersOf(left) = Numbers(r) \ {n}
      /\ Certain(left) \subseteq Certain(r.alternatives)
  <2>1. r.alternatives \in Seq(Alternatives) /\ Distinct(r.alternatives)
    BY SoundFields DEF Sound, Tidy
  <2> QED BY <2>1, WithoutNumbers DEF Numbers
<1> HIDE DEF left
<1>4. /\ q.phase = r.phase /\ q.queue = r.queue /\ q.entry = r.entry
      /\ q.delivered = r.delivered /\ q.staging = n /\ q.kept = r.kept
      /\ q.refused = r.refused /\ q.unresolved = r.unresolved /\ q.alternatives = left
      /\ q.attached = r.attached /\ q.stagedBy = n /\ q.twice = r.twice
      /\ q.staged = r.staged /\ q \in Attempts
  BY <1>1, <1>3 DEF Sound, Attempts
<1> HIDE DEF q
<1>5. ~r.entry /\ r.attached = {} /\ r.stagedBy \in r.refused \cup {0}
  BY DEF Sound, Submitting
<1>6. Accounted(q) = r.refused \cup {n} /\ Numbers(q) = Numbers(r) \ {n}
  BY <1>3, <1>4, <1>5 DEF Accounted, Numbers
<1>7. r.kept \subseteq Numbers(r) \cup r.refused
  <2>1. r.kept \subseteq Numbers(r) \cup Accounted(r) /\ 0 \notin r.kept
    BY SoundFields DEF Sound, NothingLost
  <2> QED BY <1>5, <2>1 DEF Accounted
<1>8. Tidy(q)
  <2>1. \A j \in DOMAIN q.queue : Awaits(q, q.queue[j])
    <3>1. \A j \in DOMAIN q.queue : Awaits(r, q.queue[j]) /\ q.queue[j].n # n
      BY <1>1, <1>4 DEF Sound, Tidy, NumbersOf
    <3> QED BY <1>4, <1>6, <3>1 DEF Awaits, Accounted
  <2>2. Numbers(q) \cap Accounted(q) = {}
    BY <1>6 DEF Sound, Tidy, Accounted
  <2> QED BY <1>1, <1>3, <1>4, <1>5, <1>6, <2>1, <2>2 DEF Sound, Tidy
<1>9. Submitting(q)
  BY <1>4, <1>5 DEF Sound, Submitting
<1>10. NothingLost(q)
  BY <1>4, <1>6, <1>7 DEF NothingLost
<1> QED BY <1>2, <1>3, <1>4, <1>5, <1>8, <1>9, <1>10 DEF Sound, n

\* A delivered reading, kept at once where the entry is made or asked for.
Delivered(r, usable, keep) ==
    LET n == r.delivered + 1
    IN  [r EXCEPT !.delivered = n,
                  !.queue = Append(@, [n |-> n, usable |-> usable, retained |-> keep]),
                  !.kept = IF keep THEN @ \cup {n} ELSE @,
                  !.alternatives = IF keep THEN Append(@, [n |-> n, uncertain |-> FALSE]) ELSE @]

LEMMA SoundDelivered ==
    ASSUME NEW r, Sound(r), r.delivered < MaxReadings, NEW usable \in BOOLEAN, NEW keep \in BOOLEAN,
           keep => usable /\ (r.staging # 0 \/ r.entry)
    PROVE  LET q == Delivered(r, usable, keep)
           IN  /\ Sound(q) /\ q.phase = r.phase /\ q.staging = r.staging
               /\ r.kept \subseteq q.kept /\ q.refused = r.refused /\ q.entry = r.entry
               /\ q.unresolved = r.unresolved
               /\ Certain(q.alternatives) \subseteq Certain(r.alternatives) \cup (q.kept \ r.kept)
               /\ Numbers(q) \subseteq Numbers(r) \cup {r.delivered + 1}
               /\ NumbersOf(q.queue) = NumbersOf(r.queue) \cup {r.delivered + 1}
<1> DEFINE n == r.delivered + 1
           reading == [n |-> n, usable |-> usable, retained |-> keep]
           queue == Append(r.queue, reading)
           kept == IF keep THEN r.kept \cup {n} ELSE r.kept
           left == IF keep THEN Append(r.alternatives, [n |-> n, uncertain |-> FALSE])
                   ELSE r.alternatives
           q == [r EXCEPT !.delivered = n, !.queue = queue, !.kept = kept, !.alternatives = left]
<1>1. /\ n \in ReadingIds /\ n \in 0 .. MaxReadings /\ r.delivered \in Nat
      /\ r.kept \subseteq ReadingIds
  BY SoundFields DEF ReadingIds
<1>2. n \notin r.kept /\ n \notin Accounted(r) /\ n \notin Numbers(r)
  BY <1>1, SoundFields DEF Sound, Tidy, Accounted
<1>3. n \notin NumbersOf(r.queue)
  <2>1. \A j \in DOMAIN r.queue : r.queue[j].n <= r.delivered
    BY DEF Sound, Tidy, Awaits
  <2>2. \A j \in DOMAIN r.queue : r.queue[j].n # n
    <3> TAKE j \in DOMAIN r.queue
    <3>1. ~(r.delivered + 1 <= r.delivered)
      BY <1>1
    <3> QED BY <2>1, <3>1
  <2> QED BY <2>2 DEF NumbersOf
<1>4. reading \in Readings /\ reading.n = n /\ reading.usable = usable /\ reading.retained = keep
  BY <1>1 DEF Readings
<1>5. Delivered(r, usable, keep) = q
  BY DEF Delivered
<1>n. n = r.delivered + 1
  OBVIOUS
<1> HIDE DEF reading, n
<1>6. /\ queue \in Seq(Readings) /\ Distinct(queue) /\ NumbersOf(queue) = NumbersOf(r.queue) \cup {n}
      /\ \A k \in DOMAIN queue : queue[k] = reading \/ (k \in DOMAIN r.queue /\ queue[k] = r.queue[k])
  <2>1. r.queue \in Seq(Readings) /\ Distinct(r.queue)
    BY SoundFields DEF Sound, Tidy
  <2> QED BY <1>3, <1>4, <2>1, AppendNumbers
<1>7. /\ left \in Seq(Alternatives) /\ Distinct(left)
      /\ NumbersOf(left) = Numbers(r) \cup (kept \ r.kept)
      /\ Certain(left) \subseteq Certain(r.alternatives) \cup (kept \ r.kept)
  <2>1. r.alternatives \in Seq(Alternatives) /\ Distinct(r.alternatives)
        /\ Numbers(r) = NumbersOf(r.alternatives)
    BY SoundFields DEF Sound, Tidy, Numbers
  <2>2. CASE keep
    <3> DEFINE t == Append(r.alternatives, [n |-> n, uncertain |-> FALSE])
    <3>1. /\ t \in Seq(Alternatives) /\ Distinct(t)
          /\ NumbersOf(t) = NumbersOf(r.alternatives) \cup {n}
          /\ Certain(t) \subseteq Certain(r.alternatives) \cup {n}
      BY <1>1, <1>2, <2>1, AppendCertain
    <3>2. left = t /\ kept \ r.kept = {n}
      BY <1>2, <2>2
    <3> HIDE DEF t, left, kept
    <3> QED BY <2>1, <3>1, <3>2
  <2>3. CASE ~keep
    BY <2>1, <2>3
  <2> QED BY <2>2, <2>3
<1>8. kept \subseteq ReadingIds /\ r.kept \subseteq kept /\ kept \subseteq r.kept \cup {n}
      /\ (keep => n \in kept) /\ (kept # r.kept => keep)
  BY <1>1
<1> HIDE DEF queue, left, kept
<1>9. /\ q.phase = r.phase /\ q.queue = queue /\ q.entry = r.entry
      /\ q.delivered = n /\ q.staging = r.staging /\ q.kept = kept
      /\ q.refused = r.refused /\ q.unresolved = r.unresolved /\ q.alternatives = left
      /\ q.attached = r.attached /\ q.stagedBy = r.stagedBy /\ q.twice = r.twice
      /\ q.staged = r.staged /\ q \in Attempts
  BY <1>1, <1>6, <1>7, <1>8 DEF Sound, Attempts
<1> HIDE DEF q
<1>10. Accounted(q) = Accounted(r) /\ Numbers(q) = Numbers(r) \cup (kept \ r.kept)
  BY <1>7, <1>9 DEF Accounted, Numbers
<1>11. Tidy(q)
  <2>1. ASSUME NEW j \in DOMAIN q.queue  PROVE Awaits(q, q.queue[j])
    <3>1. CASE q.queue[j] = reading
      <4>1. n <= n
        BY <1>1
      <4>2. ~keep => n \notin kept
        BY <1>2, <1>8
      <4> QED BY <1>2, <1>4, <1>8, <1>9, <1>10, <3>1, <4>1, <4>2 DEF Awaits
    <3>2. CASE j \in DOMAIN r.queue /\ q.queue[j] = r.queue[j]
      <4>1. Awaits(r, r.queue[j]) /\ r.queue[j].n # n /\ r.queue[j].n \in ReadingIds
        <5>1. r.queue[j] \in Readings
          BY <3>2, SoundFields
        <5> QED BY <1>3, <3>2, <5>1 DEF Sound, Tidy, NumbersOf, Readings
      <4>2. r.queue[j].n <= n
        BY <4>1, <1>1, <1>n DEF Awaits, ReadingIds
      <4> QED BY <1>8, <1>9, <1>10, <3>2, <4>1, <4>2 DEF Awaits
    <3> QED BY <1>6, <1>9, <3>1, <3>2
  <2>2. q.kept \cup q.attached \cup q.refused \subseteq 1 .. q.delivered /\ q.stagedBy <= q.delivered
    <3>1. 1 .. r.delivered \subseteq 1 .. n /\ n \in 1 .. n
      BY <1>1, <1>n
    <3>2. r.stagedBy <= n
      BY <1>1, <1>n, SoundFields DEF Sound, Tidy
    <3> QED BY <1>8, <1>9, <3>1, <3>2 DEF Sound, Tidy
  <2>3. Numbers(q) \subseteq q.kept /\ Numbers(q) \cap Accounted(q) = {}
    BY <1>2, <1>8, <1>9, <1>10 DEF Sound, Tidy
  <2> QED BY <1>6, <1>7, <1>9, <2>1, <2>2, <2>3 DEF Sound, Tidy
<1>12. Submitting(q)
  BY <1>9 DEF Sound, Submitting
<1>13. NothingLost(q)
  BY <1>9, <1>10 DEF Sound, NothingLost
<1> QED BY <1>5, <1>6, <1>7, <1>8, <1>9, <1>10, <1>11, <1>12, <1>13, <1>n DEF Sound

--------
(* The comparisons: the steps.                                             *)

LEMMA NoNumbers ==
    NumbersOf(<<>>) = {} /\ Certain(<<>>) = {}
BY EmptySeq DEF NumbersOf, Certain

\* A step that changes one attempt, and what UserCards recorded of it.
LEMMA OneRecord ==
    ASSUME CaptureInv, ComparisonInv, NEW a \in Captures, a <= begun, NEW q, NEW told,
           attempt' = [attempt EXCEPT ![a] = q], explained' = [explained EXCEPT ![a] = told],
           told \subseteq ReadingIds, Sound(q), Recalls(q, told),
           ~closed => Doubts(q, told),
           ~closed /\ pending' # a => Awaited(q, live.current = a),
           UNCHANGED <<closed, begun>>, live'.current = live.current,
           \A b \in Captures : b # a /\ Known(b) /\ pending' # b =>
              pending # b \/ Numbers(attempt[b]) = {},
           recovering' # <<>> /\ pending' # 0 =>
              attempt'[pending'].phase = "over" /\ attempt'[pending'].delivered = 0
    PROVE  ComparisonInv'
<1>1. attempt \in [Captures -> Attempts \cup {None}] /\ explained \in [Captures -> SUBSET ReadingIds]
      /\ begun \in Nat /\ Captures \subseteq Nat
  BY CaptureAssumption DEF CaptureInv, Shapes, ComparisonInv, Captures
<1>2. \A b \in Captures : /\ attempt'[b] = IF b = a THEN q ELSE attempt[b]
                          /\ explained'[b] = IF b = a THEN told ELSE explained[b]
  BY <1>1
<1>3. explained' \in [Captures -> SUBSET ReadingIds]
  BY <1>1
<1>4. \A b \in Captures : b > begun' => explained'[b] = {}
  <2>1. ~(a > begun)
    BY <1>1
  <2> QED BY <1>2, <2>1 DEF ComparisonInv
<1>5. ASSUME NEW b \in Captures, Known(b)'
      PROVE  /\ Sound(attempt'[b]) /\ Recalls(attempt'[b], explained'[b])
             /\ ~closed' => Doubts(attempt'[b], explained'[b])
             /\ ~closed' /\ pending' # b => Awaited(attempt'[b], live'.current = b)
  <2>1. CASE b = a
    BY <1>2, <2>1
  <2>2. CASE b # a
    <3>1. attempt'[b] = attempt[b] /\ explained'[b] = explained[b] /\ Known(b)
      BY <1>2, <1>5, <2>2 DEF Known
    <3>2. Numbers(attempt[b]) = {} => Awaited(attempt[b], live.current = b)
      BY DEF Awaited
    <3> QED BY <2>2, <3>1, <3>2 DEF ComparisonInv
  <2> QED BY <2>1, <2>2
<1> QED BY <1>3, <1>4, <1>5 DEF ComparisonInv

LEMMA ContinueSound ==
    ASSUME NEW a \in Captures, NEW r, Sound(r), NEW by, Continue(a, r, by, {}),
           ~r.entry => r.phase = "over" \/ r.staged \/ r.staging # 0 \/ r.unresolved
    PROVE  \E q : /\ attempt' = [attempt EXCEPT ![a] = q] /\ Sound(q)
                  /\ q.phase = r.phase /\ q.delivered = r.delivered /\ q.refused = r.refused
                  /\ q.kept = r.kept /\ q.entry = r.entry /\ q.staging = r.staging
                  /\ q.alternatives = r.alternatives \/ q.alternatives = <<>>
                  /\ pending' \in {0, a} /\ (pending' # a => q.alternatives = <<>>)
<1>1. r \in Attempts /\ (r.staging # 0 => r.staging = r.stagedBy)
  BY DEF Sound, Submitting
<1>2. CASE NextCall(r) # "none"
  <2>1. r.staging # 0 => [r EXCEPT !.stagedBy = r.staging] = r
    BY <1>1 DEF Attempts
  <2>2. attempt' = [attempt EXCEPT ![a] = r] /\ pending' = a
    BY <1>2, <2>1 DEF Continue
  <2> QED BY <2>2
<1>3. CASE NextCall(r) = "none"
  <2> DEFINE q == Settled(r)
  <2>1. r.staging = 0 /\ ~r.unresolved
    BY <1>3 DEF NextCall
  <2>2. attempt' = [attempt EXCEPT ![a] = q] /\ pending' = IF Finished(q) THEN 0 ELSE a
    BY <1>3 DEF Continue
  <2>3. /\ Sound(q) /\ q.phase = r.phase /\ q.queue = r.queue /\ q.entry = r.entry
        /\ q.delivered = r.delivered /\ q.staging = r.staging /\ q.kept = r.kept
        /\ q.refused = r.refused /\ q.unresolved = r.unresolved
        /\ (r.entry => q = r) /\ (~r.entry => q.alternatives = <<>>)
    BY <2>1, SoundSettled
  <2> HIDE DEF q
  <2>4. pending' \in {0, a} /\ (pending' # a => q.alternatives = <<>>)
    BY <2>2 DEF Finished
  <2> QED BY <2>2, <2>3, <2>4
<1> QED BY <1>2, <1>3

\* A write begins, or what it was for is settled at once.
LEMMA ContinueCompares ==
    ASSUME CaptureInv, ComparisonInv, saves = {}, NEW a \in Captures, a <= begun,
           NEW r, Sound(r), NEW by, Continue(a, r, by, saves),
           ~r.entry => r.phase = "over" \/ r.staged \/ r.staging # 0 \/ r.unresolved,
           Recalls(r, explained[a]), ~closed => Doubts(r, explained[a]),
           pending \in {0, a} \/ Numbers(attempt[pending]) = {},
           recovering' # <<>> => r.phase = "over" /\ r.delivered = 0,
           UNCHANGED <<closed, begun, live, explained>>
    PROVE  ComparisonInv'
<1>1. PICK q : /\ attempt' = [attempt EXCEPT ![a] = q] /\ Sound(q)
               /\ q.phase = r.phase /\ q.delivered = r.delivered /\ q.refused = r.refused
               /\ q.kept = r.kept /\ q.entry = r.entry /\ q.staging = r.staging
               /\ q.alternatives = r.alternatives \/ q.alternatives = <<>>
               /\ pending' \in {0, a} /\ (pending' # a => q.alternatives = <<>>)
  BY ContinueSound
<1> DEFINE told == explained[a]
<1>2. explained' = [explained EXCEPT ![a] = told] /\ told \subseteq ReadingIds
  BY DEF ComparisonInv
<1>3. Recalls(q, told) /\ (~closed => Doubts(q, told))
  BY <1>1, NoNumbers DEF Recalls, Doubts
<1>4. pending' # a => Awaited(q, live.current = a)
  BY <1>1, NoNumbers DEF Awaited, Numbers
<1>5. \A b \in Captures : b # a /\ Known(b) /\ pending' # b =>
         pending # b \/ Numbers(attempt[b]) = {}
  BY <1>1, CaptureAssumption DEF Captures
<1>6. attempt'[a] = q
  BY <1>1 DEF CaptureInv, Shapes
<1>7. recovering' # <<>> /\ pending' # 0 =>
         attempt'[pending'].phase = "over" /\ attempt'[pending'].delivered = 0
  BY <1>1, <1>6
<1> HIDE DEF told
<1> QED BY <1>1, <1>2, <1>3, <1>4, <1>5, <1>7, OneRecord

\* A call is answered: its attempt goes on being the pending one, or has nothing
\* left to write.
LEMMA AnswerCompares ==
    ASSUME CaptureInv, ComparisonInv, NEW s \in saves, NEW q, NEW told,
           attempt' = [attempt EXCEPT ![s.attempt] = q],
           explained' = [explained EXCEPT ![s.attempt] = told],
           told \subseteq ReadingIds, Sound(q), Recalls(q, told), ~closed => Doubts(q, told),
           q.phase = attempt[s.attempt].phase, q.delivered = attempt[s.attempt].delivered,
           pending' = pending \/ (pending' = 0 /\ q.alternatives = <<>>),
           UNCHANGED <<closed, begun, live, recovering>>
    PROVE  ComparisonInv'
<1> DEFINE a == s.attempt
<1>1. a \in Captures /\ a = pending /\ a # 0 /\ a <= begun
  BY CaptureAssumption DEF CaptureInv, Shapes, OneWrite, Writes, Captures
<1>2. ~closed /\ pending' # a => Awaited(q, live.current = a)
  BY <1>1, NoNumbers DEF Awaited, Numbers
<1>3. \A b \in Captures : b # a /\ Known(b) /\ pending' # b =>
         pending # b \/ Numbers(attempt[b]) = {}
  BY <1>1
<1>4. attempt'[a] = q
  BY <1>1 DEF CaptureInv, Shapes
<1>5. recovering' # <<>> /\ pending' # 0 =>
         attempt'[pending'].phase = "over" /\ attempt'[pending'].delivered = 0
  BY <1>1, <1>4 DEF ComparisonInv
<1> QED BY <1>1, <1>2, <1>3, <1>5, OneRecord

\* A step that writes nothing.
LEMMA RecordCompares ==
    ASSUME CaptureInv, ComparisonInv, NEW a \in Captures, a <= begun, NEW q,
           attempt' = [attempt EXCEPT ![a] = q], Sound(q), Recalls(q, explained[a]),
           ~closed => Doubts(q, explained[a]),
           ~closed /\ pending # a => Awaited(q, live.current = a),
           recovering # <<>> /\ pending = a =>
              q.phase = "over" /\ q.delivered = attempt[a].delivered,
           UNCHANGED <<closed, begun, explained, pending, recovering>>,
           live'.current = live.current
    PROVE  ComparisonInv'
<1> DEFINE told == explained[a]
<1>1. explained' = [explained EXCEPT ![a] = told] /\ told \subseteq ReadingIds
  BY DEF ComparisonInv
<1>2. attempt \in [Captures -> Attempts \cup {None}] /\ (pending # 0 => pending \in Captures)
  BY CaptureAssumption DEF CaptureInv, Shapes, Captures
<1>3. recovering' # <<>> /\ pending' # 0 =>
         attempt'[pending'].phase = "over" /\ attempt'[pending'].delivered = 0
  BY <1>2 DEF ComparisonInv
<1>4. \A b \in Captures : b # a /\ Known(b) /\ pending' # b =>
         pending # b \/ Numbers(attempt[b]) = {}
  OBVIOUS
<1> HIDE DEF told
<1> QED BY <1>1, <1>3, <1>4, OneRecord DEF told

\* A save that ends, with what UserCards recorded meanwhile.
LEMMA EndCompares ==
    ASSUME CaptureInv, ComparisonInv, NEW s \in saves, NEW next, NEW told,
           NEW established \in BOOLEAN,
           End(s.attempt, Unless(attempt[s.attempt], next), s, established),
           explained' = [explained EXCEPT ![s.attempt] = told], told \subseteq ReadingIds,
           Recalls(attempt[s.attempt], told),
           ~closed => /\ Sound(next) /\ Recalls(next, told) /\ Doubts(next, told)
                      /\ next.phase = attempt[s.attempt].phase
                      /\ next.delivered = attempt[s.attempt].delivered,
           UNCHANGED <<closed, begun, live, recovering>>
    PROVE  ComparisonInv'
<1> DEFINE r == attempt[s.attempt]
           q == Unless(r, next)
<1>1. Sound(r)
  BY CaptureAssumption DEF CaptureInv, Shapes, OneWrite, Writes, ComparisonInv, Captures
<1>2. /\ Sound(q) /\ Recalls(q, told) /\ (~closed => Doubts(q, told))
      /\ q.phase = r.phase /\ q.delivered = r.delivered
  BY <1>1 DEF Unless
<1>3. /\ attempt' = [attempt EXCEPT ![s.attempt] = q]
      /\ pending' = pending \/ (pending' = 0 /\ q.alternatives = <<>>)
  BY DEF End, Finished
<1> HIDE DEF q
<1> QED BY <1>2, <1>3, AnswerCompares

LEMMA AnswersCompare ==
    ASSUME CaptureInv, ComparisonInv, NEW s \in saves,
           \/ AttachAnswered(s) \/ (\E decision \in Decisions : StageAnswered(s, decision))
           \/ StageRefused(s) \/ StageLost(s) \/ AttachRefused(s) \/ AttachLost(s)
    PROVE  ComparisonInv'
<1> DEFINE a == s.attempt
           r == attempt[a]
           told == explained[a]
           n == Head(r.alternatives).n
<1>1. /\ a \in Captures /\ Sound(r) /\ Recalls(r, told) /\ (~closed => Doubts(r, told))
      /\ s.call = NextCall(r) /\ told \subseteq ReadingIds
      /\ explained = [explained EXCEPT ![a] = told]
  BY CaptureAssumption DEF CaptureInv, Shapes, OneWrite, Writes, ComparisonInv, Captures
<1>2. /\ s.call = "attach" => Drains(r) /\ r.staging = 0 /\ ~r.unresolved
      /\ s.call = "submit" => r.staging # 0 \/ r.unresolved
  BY <1>1 DEF NextCall
<1>3. UNCHANGED <<closed, begun, live, recovering>>
  BY DEF AttachAnswered, StageAnswered, StageRefused, StageLost, AttachRefused, AttachLost
<1>5. ASSUME s.call = "attach", Attaches(s) \/ UNCHANGED explained
      PROVE  \E told2 : /\ told2 = told \/ told2 = told \cup {n}
                        /\ explained' = [explained EXCEPT ![a] = told2]
                        /\ told2 \subseteq ReadingIds /\ Recalls(r, told2)
  <2>1. n \in ReadingIds /\ n \in r.kept /\ n \notin Accounted(r) /\ r.entry
    BY <1>1, <1>2, <1>5, SoundHead DEF Drains
  <2>2. CASE explained' = explained
    BY <1>1, <2>2
  <2>3. CASE explained' = [explained EXCEPT ![a] = told \cup {n}]
    <3>1. Recalls(r, told \cup {n}) /\ told \cup {n} \subseteq ReadingIds
      BY <1>1, <2>1 DEF Recalls, Accounted
    <3> QED BY <2>3, <3>1
  <2> QED BY <1>5, <2>2, <2>3 DEF Attaches, Sends
<1>6. 0 \notin ReadingIds
  BY CaptureAssumption DEF ReadingIds
<1>a. CASE AttachAnswered(s)
  <2>1. s.call = "attach" /\ Attaches(s)
    BY <1>a DEF AttachAnswered
  <2>2. PICK told2 : /\ told2 = told \/ told2 = told \cup {n}
                     /\ explained' = [explained EXCEPT ![a] = told2]
                     /\ told2 \subseteq ReadingIds /\ Recalls(r, told2)
    BY <1>5, <2>1
  <2> DEFINE next == Attached(r)
  <2>3. /\ Sound(next) /\ next.phase = r.phase /\ next.staging = r.staging
        /\ next.kept = r.kept /\ next.refused = r.refused /\ next.entry = r.entry
        /\ next.delivered = r.delivered
        /\ Certain(next.alternatives) \subseteq Certain(r.alternatives) \ {n}
    BY <1>1, <1>2, <2>1, SoundAttached
  <2>4. next.staging = 0
    BY <1>2, <2>1, <2>3
  <2> HIDE DEF next, n
  <2>5. Recalls(next, told2) /\ (~closed => Doubts(next, told2))
    BY <1>1, <1>6, <2>2, <2>3, <2>4 DEF Recalls, Doubts
  <2>6. CASE End(a, Unless(r, next), s, FALSE)
    BY <1>3, <2>2, <2>3, <2>5, <2>6, EndCompares
  <2>7. CASE ~closed /\ attempt' = [attempt EXCEPT ![a] = next] /\ pending' = pending
    BY <1>3, <2>2, <2>3, <2>5, <2>7, AnswerCompares
  <2> QED BY <1>a, <2>6, <2>7 DEF AttachAnswered, next
<1>b. CASE \E decision \in Decisions : StageAnswered(s, decision)
  <2>1. PICK decision \in Decisions : StageAnswered(s, decision)
    BY <1>b
  <2> DEFINE entered == Entered(r, decision)
             next == Settled(entered)
  <2>2. r.staging # 0 \/ r.unresolved
    BY <1>2, <2>1 DEF StageAnswered
  <2>3. /\ Sound(entered) /\ entered.phase = r.phase /\ entered.staging = 0 /\ entered.staged
        /\ ~entered.unresolved /\ entered.kept = r.kept /\ entered.refused = r.refused /\ ~r.entry
        /\ entered.alternatives = r.alternatives /\ entered.delivered = r.delivered
    BY <1>1, <2>2, SoundEntered
  <2> HIDE DEF entered
  <2>4. /\ Sound(next) /\ next.phase = r.phase /\ next.staging = 0 /\ next.kept = r.kept
        /\ next.refused = r.refused /\ next.delivered = r.delivered
        /\ next.alternatives = r.alternatives \/ next.alternatives = <<>>
    BY <2>3, SoundSettled
  <2> HIDE DEF next
  <2>5. Recalls(next, told) /\ (~closed => Doubts(next, told))
    BY <1>1, <1>6, <2>3, <2>4, NoNumbers DEF Recalls, Doubts
  <2>6. explained' = [explained EXCEPT ![a] = told]
    BY <1>1, <2>1 DEF StageAnswered
  <2>7. CASE End(a, Unless(r, next), s, TRUE)
    BY <1>1, <1>3, <2>4, <2>5, <2>6, <2>7, EndCompares
  <2>8. CASE ~closed /\ attempt' = [attempt EXCEPT ![a] = next] /\ pending' = pending
    BY <1>1, <1>3, <2>4, <2>5, <2>6, <2>8, AnswerCompares
  <2> QED BY <2>1, <2>7, <2>8 DEF StageAnswered, next, entered
<1>c. CASE StageRefused(s)
  <2> DEFINE next == [r EXCEPT !.staging = 0, !.refused = @ \cup {r.staging}]
  <2>1. /\ r.staging # 0 /\ ~r.unresolved /\ End(a, Unless(r, next), s, TRUE)
        /\ explained' = [explained EXCEPT ![a] = told]
    BY <1>1, <1>2, <1>c DEF StageRefused
  <2>2. /\ Sound(next) /\ next.phase = r.phase /\ next.staging = 0 /\ next.kept = r.kept
        /\ next.refused = r.refused \cup {r.staging} /\ next.entry = r.entry
        /\ next.alternatives = r.alternatives /\ next.delivered = r.delivered
    BY <1>1, <2>1, SoundRefused
  <2> HIDE DEF next
  <2>3. ~closed => Recalls(next, told) /\ Doubts(next, told)
    BY <1>1, <1>6, <2>2 DEF Recalls, Doubts
  <2> QED BY <1>1, <1>3, <2>1, <2>2, <2>3, EndCompares
<1>d. CASE StageLost(s)
  <2> DEFINE next == [r EXCEPT !.staging = 0, !.unresolved = TRUE]
  <2>1. /\ r.staging # 0 \/ r.unresolved
        /\ End(a, Unless(r, next), s, FALSE)
        /\ explained' = [explained EXCEPT ![a] = told]
    BY <1>1, <1>2, <1>d DEF StageLost
  <2>2. /\ Sound(next) /\ next.phase = r.phase /\ next.staging = 0 /\ next.kept = r.kept
        /\ next.refused = r.refused /\ next.entry = r.entry
        /\ next.alternatives = r.alternatives /\ next.delivered = r.delivered
    BY <1>1, <2>1, SoundLost
  <2> HIDE DEF next
  <2>3. Recalls(next, told) /\ (~closed => Doubts(next, told))
    BY <1>1, <1>6, <2>2 DEF Recalls, Doubts
  <2> QED BY <1>1, <1>3, <2>1, <2>2, <2>3, EndCompares
<1>e. CASE AttachRefused(s)
  <2> DEFINE next == Rejected(r)
  <2>1. /\ s.call = "attach" /\ End(a, Unless(r, next), s, FALSE)
        /\ explained' = [explained EXCEPT ![a] = told]
    BY <1>1, <1>e DEF AttachRefused
  <2>2. /\ Sound(next) /\ next.phase = r.phase /\ next.staging = r.staging /\ next.kept = r.kept
        /\ next.entry = r.entry /\ next.delivered = r.delivered
        /\ Certain(next.alternatives) \subseteq Certain(r.alternatives)
        /\ next.refused = r.refused \/ (next.refused = r.refused \cup {n} /\ n \in Certain(r.alternatives))
    BY <1>1, <1>2, <2>1, SoundRejected
  <2> HIDE DEF next, n
  <2>3. ~closed => Recalls(next, told) /\ Doubts(next, told)
    BY <1>1, <2>2 DEF Recalls, Doubts
  <2> QED BY <1>1, <1>3, <2>1, <2>2, <2>3, EndCompares
<1>f. CASE AttachLost(s)
  <2> DEFINE next == Uncertain(r)
  <2>1. /\ s.call = "attach" /\ End(a, Unless(r, next), s, FALSE)
        /\ Attaches(s) \/ UNCHANGED explained
    BY <1>f DEF AttachLost
  <2>2. PICK told2 : /\ told2 = told \/ told2 = told \cup {n}
                     /\ explained' = [explained EXCEPT ![a] = told2]
                     /\ told2 \subseteq ReadingIds /\ Recalls(r, told2)
    BY <1>5, <2>1
  <2>3. /\ Sound(next) /\ next.phase = r.phase /\ next.staging = r.staging
        /\ next.kept = r.kept /\ next.refused = r.refused /\ next.entry = r.entry
        /\ next.delivered = r.delivered
        /\ Certain(next.alternatives) \subseteq Certain(r.alternatives) \ {n}
    BY <1>1, <1>2, <2>1, SoundUncertain
  <2>4. next.staging = 0
    BY <1>2, <2>1, <2>3
  <2> HIDE DEF next, n
  <2>5. Recalls(next, told2) /\ (~closed => Doubts(next, told2))
    BY <1>1, <1>6, <2>2, <2>3, <2>4 DEF Recalls, Doubts
  <2> QED BY <1>3, <2>1, <2>2, <2>3, <2>5, EndCompares
<1> QED BY <1>a, <1>b, <1>c, <1>d, <1>e, <1>f

\* What does not concern attempts leaves their comparisons as they are.
LEMMA FrameCompares ==
    ASSUME CaptureInv, ComparisonInv, live'.current = live.current,
           UNCHANGED <<attempt, begun, pending, explained, closed>>,
           recovering' # <<>> => recovering # <<>> \/ pending = 0
    PROVE  ComparisonInv'
<1>1. \A a \in Captures : Known(a)' <=> Known(a)
  BY DEF Known
<1>2. ASSUME NEW a \in Captures, Known(a)'
      PROVE  /\ Sound(attempt'[a]) /\ Recalls(attempt'[a], explained'[a])
             /\ ~closed' => Doubts(attempt'[a], explained'[a])
             /\ ~closed' /\ pending' # a => Awaited(attempt'[a], live'.current = a)
  BY <1>1, <1>2 DEF ComparisonInv
<1> QED BY <1>2 DEF ComparisonInv

LEMMA RetryCompares ==
    ASSUME CaptureInv, ComparisonInv, Retry
    PROVE  ComparisonInv'
<1>1. ~live.busy /\ saves = {} /\ UNCHANGED <<closed, begun, live, explained>>
  BY DEF Retry, MayRetry, CaptureInv, OneWrite
<1>2. CASE pending # 0
  <2> DEFINE r == attempt[pending]
  <2>1. pending \in Captures /\ pending <= begun /\ Known(pending)
    BY <1>2, CaptureAssumption DEF CaptureInv, Shapes, Captures
  <2>2. r.phase = "over"
    BY <1>1, <2>1, KnownAttempt DEF Fits
  <2>3. Sound(r) /\ Recalls(r, explained[pending]) /\ (~closed => Doubts(r, explained[pending]))
    BY <2>1 DEF ComparisonInv
  <2>4. Continue(pending, r, "retry", saves) /\ recovering' = recovering
    BY <1>2 DEF Retry
  <2>5. recovering' # <<>> => r.phase = "over" /\ r.delivered = 0
    BY <1>2, <2>4 DEF ComparisonInv
  <2> HIDE DEF r
  <2> QED BY <1>1, <2>1, <2>2, <2>3, <2>4, <2>5, ContinueCompares
<1>3. CASE pending = 0
  <2>1. UNCHANGED <<attempt, pending>>
    BY <1>3 DEF Retry
  <2> QED BY <1>1, <1>3, <2>1, FrameCompares
<1> QED BY <1>2, <1>3

LEMMA RetryNextCompares ==
    ASSUME CaptureInv, ComparisonInv, RetryNext
    PROVE  ComparisonInv'
<1>1. saves = {} /\ ~live.busy /\ recovering # <<>> /\ UNCHANGED <<closed, begun, live, explained>>
  BY DEF RetryNext, Resumes, CaptureInv, Turns
<1>2. CASE ~closed /\ Head(recovering) \in unfinished
  <2> DEFINE a == Head(recovering)
             r == Record("over", TRUE)
  <2>u. a \in unfinished /\ Continue(a, r, "retry", saves)
    BY <1>2 DEF RetryNext
  <2> HIDE DEF a
  <2>1. a \in Captures /\ a <= begun
    BY <2>u, CaptureAssumption DEF CaptureInv, Shapes, Captures
  <2>2. /\ Sound(r) /\ r.delivered = 0 /\ r.phase = "over" /\ ~r.entry /\ r.refused = {}
        /\ r.alternatives = <<>> /\ r.staging = 0 /\ Numbers(r) = {}
    BY SoundRecord
  <2> HIDE DEF r
  <2>3. Recalls(r, explained[a]) /\ Doubts(r, explained[a])
    <3>1. 0 \notin explained[a]
      BY <2>1, CaptureAssumption DEF ComparisonInv, ReadingIds
    <3> QED BY <2>2, <3>1, NoNumbers DEF Recalls, Doubts
  <2>4. pending # 0 => Numbers(attempt[pending]) = {}
    <3> SUFFICES ASSUME pending # 0 PROVE Numbers(attempt[pending]) = {}
      OBVIOUS
    <3>1. pending \in Captures /\ Known(pending)
      BY CaptureAssumption DEF CaptureInv, Shapes, Captures
    <3>2. attempt[pending].delivered = 0 /\ Sound(attempt[pending])
      BY <1>1, <3>1 DEF ComparisonInv
    <3>3. attempt[pending].kept \subseteq 1 .. 0
      BY <3>2 DEF Sound, Tidy
    <3>4. attempt[pending].kept = {}
      BY <3>3
    <3> QED BY <3>2, <3>4 DEF Sound, Tidy
  <2>5. pending \in {0, a} \/ Numbers(attempt[pending]) = {}
    BY <2>4
  <2> QED BY <1>1, <2>u, <2>1, <2>2, <2>3, <2>5, ContinueCompares
<1>3. CASE ~(~closed /\ Head(recovering) \in unfinished)
  <2>1. UNCHANGED <<attempt, pending>>
    BY <1>3 DEF RetryNext
  <2> QED BY <1>1, <2>1, FrameCompares
<1> QED BY <1>2, <1>3

LEMMA HandleCompares ==
    ASSUME CaptureInv, ComparisonInv, NEW a \in Captures, Handle(a)
    PROVE  ComparisonInv'
<1> DEFINE before == attempt[a]
           reading == Head(before.queue)
           r == [before EXCEPT !.queue = Tail(@)]
           told == explained[a]
<1>1. Known(a) /\ before.queue # <<>> /\ \A s \in saves : s.attempt = a => s.by # "handler"
  BY DEF Handle, Handles, Known
<1>2. /\ Sound(before) /\ Recalls(before, told) /\ (~closed => Doubts(before, told)) /\ a <= begun
      /\ ~closed /\ pending # a => Awaited(before, live.current = a)
      /\ Fits(a, before)
  BY <1>1, KnownAttempt DEF ComparisonInv
<1>3. /\ Sound(r) /\ r.phase = before.phase /\ r.staging = before.staging /\ Fresh(r, reading)
      /\ r.kept = before.kept /\ r.refused = before.refused /\ r.entry = before.entry
      /\ r.unresolved = before.unresolved /\ r.staged = before.staged
      /\ r.alternatives = before.alternatives /\ r.delivered = before.delivered
      /\ NumbersOf(r.queue) = NumbersOf(before.queue) \ {reading.n}
  BY <1>1, <1>2, SoundTaken
<1>4. Recalls(r, told) /\ (~closed => Doubts(r, told))
  BY <1>2, <1>3 DEF Recalls, Doubts
<1>5. UNCHANGED <<closed, begun, live, explained, recovering>>
  BY DEF Handle
<1>6. \/ Skips(a, r) /\ (~Attends(a) \/ Drained(r, reading))
      \/ Skips(a, r) /\ (~reading.usable \/ ~r.entry)
      \/ Attends(a) /\ Continue(a, Kept(r, reading), "handler", saves)
             /\ (r.staging # 0 \/ r.unresolved \/ r.entry)
      \/ /\ Attends(a) /\ r.staging = 0 /\ ~r.unresolved /\ ~r.staged
         /\ Continue(a, [r EXCEPT !.staging = reading.n,
                                  !.alternatives = Without(@, reading.n)], "handler", saves)
  <2>1. r.entry => r.staged
    BY <1>3 DEF Sound, Submitting
  <2> HIDE DEF r, reading
  <2> QED BY <2>1 DEF Handle, r, reading, before
<1> HIDE DEF r, reading, told, before
<1>7. ASSUME Skips(a, r), ~closed /\ pending # a => Awaited(r, live.current = a)
      PROVE  ComparisonInv'
  <2>1. attempt' = [attempt EXCEPT ![a] = r] /\ pending' = pending
    BY <1>7 DEF Skips
  <2>2. recovering # <<>> /\ pending = a => r.phase = "over" /\ r.delivered = attempt[a].delivered
    <3>1. recovering # <<>> => ~live.busy
      BY DEF CaptureInv, Turns
    <3> QED BY <1>2, <1>3, <3>1 DEF Fits, before
  <2> QED BY <1>2, <1>3, <1>4, <1>5, <1>7, <2>1, <2>2, RecordCompares DEF told
<1>8. CASE Skips(a, r) /\ (~Attends(a) \/ Drained(r, reading))
  <2>1. ~Attends(a) /\ ~closed => live.current # a
    BY CaptureAssumption DEF Attends, CaptureInv, Cameras, Captures
  <2>2. Drained(r, reading) => reading.n \notin Numbers(r)
    BY DEF Drained, Holds, Numbers, NumbersOf
  <2>3. ~closed /\ pending # a => Awaited(r, live.current = a)
    BY <1>2, <1>3, <1>8, <2>1, <2>2 DEF Awaited, Numbers
  <2> QED BY <1>7, <1>8, <2>3
<1>9. CASE Skips(a, r) /\ (~reading.usable \/ ~r.entry)
  <2>1. ~reading.usable => reading.n \notin Numbers(r)
    BY <1>3 DEF Fresh, Awaits, Sound, Tidy
  <2>2. ~closed /\ pending # a => Awaited(r, live.current = a)
    BY <1>2, <1>3, <1>9, <2>1 DEF Awaited, Numbers
  <2> QED BY <1>7, <1>9, <2>2
<1>10. ASSUME Attends(a)
       PROVE  /\ live.busy /\ saves = {} /\ recovering = <<>> /\ pending \in {0, a}
              /\ r.phase = "recognizing"
  <2>1. live.current = a /\ r.phase = "recognizing" /\ live.busy
    BY <1>1, <1>2, <1>3, <1>10 DEF Fits, Attends, before
  <2> QED BY <1>1, <2>1 DEF CaptureInv, Turns, OneWrite, Shapes, Writes, Captures
<1>11. CASE Attends(a) /\ Continue(a, Kept(r, reading), "handler", saves)
              /\ (r.staging # 0 \/ r.unresolved \/ r.entry)
  <2> DEFINE q == Kept(r, reading)
  <2>1. /\ Sound(q) /\ q.phase = r.phase /\ q.queue = r.queue /\ q.staging = r.staging
        /\ r.kept \subseteq q.kept /\ q.refused = r.refused /\ q.entry = r.entry
        /\ q.unresolved = r.unresolved /\ q.delivered = r.delivered
        /\ Certain(q.alternatives) \subseteq Certain(r.alternatives) \cup (q.kept \ r.kept)
    BY <1>3, SoundKept
  <2>2. Continue(a, q, "handler", saves)
    BY <1>11
  <2> HIDE DEF q
  <2>3. Recalls(q, told) /\ (~closed => Doubts(q, told))
    BY <1>4, <1>10, <1>11, <2>1 DEF Recalls, Doubts
  <2>4. ~q.entry => q.phase = "over" \/ q.staged \/ q.staging # 0 \/ q.unresolved
    BY <1>11, <2>1
  <2> QED BY <1>2, <1>5, <1>10, <1>11, <2>1, <2>2, <2>3, <2>4, ContinueCompares DEF told
<1>12. CASE /\ Attends(a) /\ r.staging = 0 /\ ~r.unresolved /\ ~r.staged
            /\ Continue(a, [r EXCEPT !.staging = reading.n,
                                     !.alternatives = Without(@, reading.n)], "handler", saves)
  <2> DEFINE q == Submitted(r, reading.n)
             asked == [r EXCEPT !.staging = reading.n, !.alternatives = Without(@, reading.n)]
  <2>1. /\ Sound(q) /\ q.phase = r.phase /\ q.queue = r.queue /\ q.staging = reading.n
        /\ q.kept = r.kept /\ q.refused = r.refused /\ q.entry = r.entry /\ ~q.entry
        /\ q.unresolved = r.unresolved /\ q.delivered = r.delivered
        /\ Certain(q.alternatives) \subseteq Certain(r.alternatives)
    BY <1>3, <1>10, <1>12, SoundSubmitted
  <2>2. reading.n # 0
    BY <1>3, CaptureAssumption DEF Fresh, Readings, ReadingIds
  <2>3. /\ asked.staging = reading.n /\ [asked EXCEPT !.stagedBy = asked.staging] = q
    BY <1>3 DEF Submitted, Sound, Attempts
  <2>4. Continue(a, asked, "handler", saves)
    BY <1>12
  <2> HIDE DEF q, asked
  <2>5. attempt' = [attempt EXCEPT ![a] = q] /\ pending' = a
    BY <2>2, <2>3, <2>4 DEF Continue, NextCall
  <2>6. told = {}
    BY <1>4, <1>10, <1>12, <2>1 DEF Recalls
  <2>7. Recalls(q, told) /\ Doubts(q, told)
    BY <2>6 DEF Recalls, Doubts
  <2>8. told \subseteq ReadingIds /\ explained' = [explained EXCEPT ![a] = told]
    BY <1>5 DEF ComparisonInv, told
  <2>9. \A b \in Captures : b # a /\ Known(b) /\ pending' # b =>
           pending # b \/ Numbers(attempt[b]) = {}
    BY <1>10, <1>12, <2>5, CaptureAssumption DEF Captures
  <2>10. recovering' = <<>>
    BY <1>5, <1>10, <1>12
  <2> QED BY <1>2, <1>5, <2>1, <2>5, <2>7, <2>8, <2>9, <2>10, OneRecord
<1> QED BY <1>6, <1>8, <1>9, <1>11, <1>12

LEMMA DeliverCompares ==
    ASSUME CaptureInv, ComparisonInv, NEW a \in Captures, NEW usable \in BOOLEAN, Deliver(a, usable)
    PROVE  ComparisonInv'
<1> DEFINE r == attempt[a]
           keep == usable /\ (r.staging # 0 \/ r.entry)
           q == Delivered(r, usable, keep)
           told == explained[a]
<1>1. /\ Known(a) /\ r.phase = "recognizing" /\ r.delivered < MaxReadings /\ live.current = a
      /\ ~closed /\ attempt' = [attempt EXCEPT ![a] = q]
      /\ UNCHANGED <<closed, begun, live, explained, pending, recovering>>
  BY DEF Deliver, Known, Attends, Delivered, provider
<1>2. /\ Sound(r) /\ Recalls(r, told) /\ Doubts(r, told) /\ a <= begun /\ live.busy
      /\ pending # a => Awaited(r, TRUE)
  BY <1>1, KnownAttempt DEF ComparisonInv, Fits
<1>3. keep \in BOOLEAN /\ (keep => usable /\ (r.staging # 0 \/ r.entry))
  BY <1>2, SoundFields
<1> HIDE DEF keep
<1>4. /\ Sound(q) /\ q.phase = r.phase /\ q.staging = r.staging
      /\ r.kept \subseteq q.kept /\ q.refused = r.refused /\ q.entry = r.entry
      /\ q.unresolved = r.unresolved
      /\ Certain(q.alternatives) \subseteq Certain(r.alternatives) \cup (q.kept \ r.kept)
      /\ Numbers(q) \subseteq Numbers(r) \cup {r.delivered + 1}
      /\ NumbersOf(q.queue) = NumbersOf(r.queue) \cup {r.delivered + 1}
  BY <1>1, <1>2, <1>3, SoundDelivered
<1> HIDE DEF q
<1>5. Recalls(q, told) /\ Doubts(q, told)
  BY <1>1, <1>2, <1>4 DEF Recalls, Doubts
<1>6. pending # a => Awaited(q, live.current = a)
  BY <1>1, <1>2, <1>4 DEF Awaited
<1>7. recovering = <<>>
  BY <1>2 DEF CaptureInv, Turns
<1> HIDE DEF told
<1> QED BY <1>1, <1>2, <1>4, <1>5, <1>6, <1>7, RecordCompares DEF told

\* Recognition accepts or ends an attempt.
LEMMA PhaseCompares ==
    ASSUME CaptureInv, ComparisonInv, NEW a \in Captures, Known(a), attempt[a].phase # "over",
           NEW phase \in {"recognizing", "over"},
           attempt' = [attempt EXCEPT ![a].phase = phase], live'.current = live.current,
           UNCHANGED <<closed, begun, pending, recovering, explained>>
    PROVE  ComparisonInv'
<1> DEFINE r == attempt[a]
           q == [r EXCEPT !.phase = phase]
           told == explained[a]
<1>1. /\ Sound(r) /\ Recalls(r, told) /\ (~closed => Doubts(r, told)) /\ a <= begun /\ live.busy
      /\ ~closed /\ pending # a => Awaited(r, live.current = a)
  BY KnownAttempt DEF ComparisonInv, Fits
<1>2. attempt' = [attempt EXCEPT ![a] = q]
  OBVIOUS
<1>3. /\ Sound(q) /\ q.phase = phase /\ q.queue = r.queue /\ q.staging = r.staging
      /\ q.kept = r.kept /\ q.refused = r.refused /\ q.entry = r.entry
      /\ q.alternatives = r.alternatives /\ q.delivered = r.delivered
  BY <1>1, SoundPhase
<1> HIDE DEF q
<1>4. Recalls(q, told) /\ (~closed => Doubts(q, told))
  BY <1>1, <1>3 DEF Recalls, Doubts
<1>5. ~closed /\ pending # a => Awaited(q, live.current = a)
  BY <1>1, <1>3 DEF Awaited, Numbers
<1>6. recovering = <<>>
  BY <1>1 DEF CaptureInv, Turns
<1> HIDE DEF told, r
<1> QED BY <1>1, <1>2, <1>3, <1>4, <1>5, <1>6, RecordCompares DEF told

LEMMA RecognitionCompares ==
    ASSUME CaptureInv, ComparisonInv, NEW a \in Captures, Recognize(a) \/ EndAttempt(a)
    PROVE  ComparisonInv'
<1>1. live \in Lives
  BY DEF CaptureInv, Shapes
<1>2. CASE Recognize(a)
  <2> DEFINE phase == IF live.prepared THEN "recognizing" ELSE "over"
  <2>1. /\ Known(a) /\ attempt[a].phase # "over" /\ phase \in {"recognizing", "over"}
        /\ attempt' = [attempt EXCEPT ![a].phase = phase]
        /\ UNCHANGED <<closed, begun, pending, recovering, explained>>
    BY <1>2 DEF Recognize, Known, provider
  <2>2. live'.current = live.current
    BY <1>1, <1>2 DEF Recognize, Lives
  <2> HIDE DEF phase
  <2> QED BY <2>1, <2>2, PhaseCompares
<1>3. CASE EndAttempt(a)
  <2>1. /\ Known(a) /\ attempt[a].phase # "over"
        /\ attempt' = [attempt EXCEPT ![a].phase = "over"]
        /\ UNCHANGED <<closed, begun, pending, recovering, explained>>
    BY <1>3 DEF EndAttempt, Known, provider
  <2>2. live'.current = live.current
    BY <1>1, <1>3 DEF EndAttempt, Lives
  <2> QED BY <2>1, <2>2, PhaseCompares
<1> QED BY <1>2, <1>3

\* While nothing settles, an entry's comparisons are all the pending write's.
LEMMA NothingAwaited ==
    ASSUME CaptureInv, ComparisonInv, ~Settling, ~closed,
           NEW a \in Captures, Known(a), pending # a, attempt[a].entry
    PROVE  Numbers(attempt[a]) = {}
<1> SUFFICES ASSUME Numbers(attempt[a]) # {}
             PROVE  FALSE
  OBVIOUS
<1>1. Numbers(attempt[a]) \subseteq NumbersOf(attempt[a].queue)
  BY DEF ComparisonInv, Awaited
<1>2. attempt[a].queue # <<>>
  BY <1>1, NoNumbers
<1>3. Handles(a)
  BY <1>2 DEF Handles, Known, CaptureInv, OneWrite
<1> QED BY <1>3 DEF Settling

LEMMA AttemptCompares ==
    ASSUME CaptureInv, ComparisonInv, Attempt
    PROVE  ComparisonInv'
<1> DEFINE a == begun + 1
<1>1. /\ ~closed /\ pending = 0 /\ ~Settling /\ begun < MaxCaptures /\ begun' = a
      /\ UNCHANGED <<closed, pending, recovering, explained>>
  BY DEF Attempt, MayAttempt, provider
<1>2. begun \in Nat /\ a \in Captures /\ a > begun
  BY <1>1, CaptureAssumption DEF CaptureInv, Shapes, Captures
<1>3. PICK phase \in {"preparing", "over"} : attempt' = [attempt EXCEPT ![a] = Record(phase, FALSE)]
  BY <1>1 DEF Attempt
<1> DEFINE r == Record(phase, FALSE)
<1>4. /\ Sound(r) /\ r.delivered = 0 /\ r.phase = phase /\ ~r.entry /\ r.refused = {}
      /\ r.alternatives = <<>> /\ r.staging = 0 /\ Numbers(r) = {}
  BY SoundRecord
<1> HIDE DEF r
<1>5. explained[a] = {}
  BY <1>2 DEF ComparisonInv
<1>6. \A b \in Captures : attempt'[b] = IF b = a THEN r ELSE attempt[b]
  BY <1>3 DEF CaptureInv, Shapes, r
<1>7. \A b \in Captures : b > begun' => explained'[b] = {}
  BY <1>1, <1>2 DEF ComparisonInv, Captures
<1>8. ASSUME NEW b \in Captures, Known(b)'
      PROVE  /\ Sound(attempt'[b]) /\ Recalls(attempt'[b], explained'[b])
             /\ ~closed' => Doubts(attempt'[b], explained'[b])
             /\ ~closed' /\ pending' # b => Awaited(attempt'[b], live'.current = b)
  <2>1. CASE b = a
    <3>1. attempt'[b] = r /\ explained'[b] = {}
      BY <1>1, <1>5, <1>6, <2>1
    <3> QED BY <1>4, <3>1, NoNumbers DEF Recalls, Doubts, Awaited
  <2>2. CASE b # a
    <3>1. attempt'[b] = attempt[b] /\ explained'[b] = explained[b] /\ Known(b) /\ b # 0
      BY <1>1, <1>6, <1>8, <2>2, CaptureAssumption DEF Known, Captures
    <3>2. attempt[b].entry => Numbers(attempt[b]) = {}
      BY <1>1, <3>1, NothingAwaited
    <3>3. Awaited(attempt[b], live'.current = b)
      BY <3>2 DEF Awaited
    <3> QED BY <1>1, <3>1, <3>3 DEF ComparisonInv
  <2> QED BY <2>1, <2>2
<1> QED BY <1>1, <1>7, <1>8 DEF ComparisonInv

LEMMA EndedCompares ==
    ASSUME CaptureInv, ComparisonInv, attempt' = Ended, ~Settling, ~closed,
           UNCHANGED <<begun, pending, recovering, explained>>
    PROVE  ComparisonInv'
<1>1. ASSUME NEW b \in Captures
      PROVE  attempt'[b] = IF Known(b) /\ b = live.current THEN [attempt[b] EXCEPT !.phase = "over"]
                           ELSE attempt[b]
  BY DEF Ended, Known
<1>2. ASSUME NEW b \in Captures, Known(b)
      PROVE  /\ Sound(attempt'[b]) /\ attempt'[b].staging = attempt[b].staging
             /\ attempt'[b].phase \in {attempt[b].phase, "over"}
             /\ attempt'[b].kept = attempt[b].kept /\ attempt'[b].refused = attempt[b].refused
             /\ attempt'[b].entry = attempt[b].entry
             /\ attempt'[b].alternatives = attempt[b].alternatives
             /\ attempt'[b].delivered = attempt[b].delivered
  <2>1. Sound(attempt[b])
    BY <1>2 DEF ComparisonInv
  <2>2. CASE b = live.current
    <3> DEFINE q == [attempt[b] EXCEPT !.phase = "over"]
    <3>1. /\ Sound(q) /\ q.phase = "over" /\ q.staging = attempt[b].staging
          /\ q.kept = attempt[b].kept /\ q.refused = attempt[b].refused
          /\ q.entry = attempt[b].entry /\ q.alternatives = attempt[b].alternatives
          /\ q.delivered = attempt[b].delivered
      BY <2>1, SoundPhase
    <3>2. attempt'[b] = q
      BY <1>1, <1>2, <2>2
    <3> HIDE DEF q
    <3> QED BY <3>1, <3>2
  <2>3. CASE b # live.current
    BY <1>1, <2>1, <2>3
  <2> QED BY <2>2, <2>3
<1>3. ASSUME NEW b \in Captures, Known(b)'
      PROVE  /\ Sound(attempt'[b]) /\ Recalls(attempt'[b], explained'[b])
             /\ ~closed' => Doubts(attempt'[b], explained'[b])
             /\ ~closed' /\ pending' # b => Awaited(attempt'[b], live'.current = b)
  <2>1. Known(b)
    BY <1>1, <1>3 DEF Known
  <2>2. Recalls(attempt[b], explained[b]) /\ Doubts(attempt[b], explained[b])
    BY <2>1 DEF ComparisonInv
  <2>3. pending # b /\ attempt[b].entry => Numbers(attempt[b]) = {}
    BY <2>1, NothingAwaited
  <2>4. Recalls(attempt'[b], explained'[b]) /\ Doubts(attempt'[b], explained'[b])
    BY <1>2, <2>1, <2>2 DEF Recalls, Doubts
  <2>5. pending' # b => Awaited(attempt'[b], live'.current = b)
    BY <1>2, <2>1, <2>3 DEF Awaited, Numbers
  <2> QED BY <1>2, <2>1, <2>4, <2>5
<1>4. recovering' # <<>> /\ pending' # 0 =>
         attempt'[pending'].phase = "over" /\ attempt'[pending'].delivered = 0
  <2>1. pending # 0 => pending \in Captures /\ Known(pending)
    BY CaptureAssumption DEF CaptureInv, Shapes, Captures
  <2> QED BY <1>2, <2>1 DEF ComparisonInv
<1> QED BY <1>3, <1>4 DEF ComparisonInv

LEMMA InitCompares ==
    ASSUME Init
    PROVE  ComparisonInv
<1>1. \A a \in Captures : ~Known(a)
  BY DEF Init, Known
<1> QED BY <1>1 DEF Init, ComparisonInv

LEMMA NextCompares ==
    ASSUME CaptureInv, ComparisonInv, [Next]_vars
    PROVE  ComparisonInv'
<1>1. live \in Lives
  BY DEF CaptureInv, Shapes
<1>2. CASE Prepare
  <2>1. live'.current = live.current
    BY <1>1, <1>2 DEF Prepare, Lives
  <2> QED BY <1>2, <2>1, FrameCompares DEF Prepare, provider
<1>3. CASE Stop
  BY <1>3, EndedCompares DEF Stop, provider
<1>4. CASE Dispose
  BY <1>4, EndedCompares DEF Dispose, provider
<1>5. CASE Retry
  BY <1>5, RetryCompares
<1>6. CASE Device
  <2>1. PICK l \in Lifetimes : Granted(l) \/ Denied(l) \/ \E ready \in BOOLEAN : Prepared(l, ready)
    BY <1>6 DEF Device
  <2>2. l \in opening /\ Owns(l) => live.current = 0
    BY DEF Owns, CaptureInv, Cameras
  <2>3. live'.current = live.current
    <3>1. CASE Granted(l)
      BY <1>1, <3>1 DEF Granted, Lives
    <3>2. CASE Denied(l)
      BY <2>2, <3>2, ReleasedLives DEF Denied, StopLive
    <3>3. CASE \E ready \in BOOLEAN : Prepared(l, ready)
      BY <1>1, <3>3 DEF Prepared, Lives
    <3> QED BY <2>1, <3>1, <3>2, <3>3
  <2>4. UNCHANGED <<attempt, begun, pending, explained, closed, recovering>>
    BY <2>1 DEF Granted, Denied, Prepared, provider
  <2> QED BY <2>3, <2>4, FrameCompares
<1>7. CASE Attempt
  BY <1>7, AttemptCompares
<1>8. CASE Recognition
  BY <1>8, RecognitionCompares, HandleCompares, DeliverCompares DEF Recognition
<1>9. CASE Answer
  BY <1>9, AnswersCompare DEF Answer, Established
<1>10. CASE (\E a \in Captures : Review(a)) \/ UNCHANGED vars
  BY <1>10, FrameCompares DEF Review, vars
<1>11. CASE RetryNext
  BY <1>11, RetryNextCompares
<1> QED BY <1>2, <1>3, <1>4, <1>5, <1>6, <1>7, <1>8, <1>9, <1>10, <1>11
       DEF Next, Owner, UserCards

\* The invariant of the readings: what each attempt holds, waits for and has
\* accounted for, and what UserCards recorded of it, agree through every lost
\* answer, stop and retry.
THEOREM ComparisonsInductive == Spec => []ComparisonInv
<1>1. Init => ComparisonInv
  BY InitCompares
<1>2. CaptureInv /\ ComparisonInv /\ [Next]_vars => ComparisonInv'
  BY NextCompares
<1> QED BY <1>1, <1>2, CaptureInductive, PTL DEF Spec

\* A usable comparison of an admitted capture is attached, refused, submitted as
\* the observation itself or still held by a write that goes on; it is attached
\* once; and one reported as refused is none UserCards recorded.
THEOREM AccountsForComparisons == Spec => []ComparisonsAccounted
<1>1. CaptureInv /\ ComparisonInv => ComparisonsAccounted
  <2> SUFFICES ASSUME CaptureInv, ComparisonInv PROVE ComparisonsAccounted
    OBVIOUS
  <2>1. NoComparisonLost
    <3> SUFFICES ASSUME NEW a \in Captures, Known(a), attempt[a].entry, ~closed,
                        NEW n \in attempt[a].kept
                 PROVE  \/ n \in attempt[a].attached \cup attempt[a].refused \cup {attempt[a].stagedBy}
                        \/ Holds(attempt[a], n) /\ (pending = a \/ live.current = a)
      BY DEF NoComparisonLost, Known
    <3>1. n \in Numbers(attempt[a]) \cup Accounted(attempt[a])
      BY DEF ComparisonInv, Sound, NothingLost
    <3>2. n \in Numbers(attempt[a]) => Holds(attempt[a], n)
      BY DEF Numbers, NumbersOf, Holds
    <3>3. pending # a /\ n \in Numbers(attempt[a]) => live.current = a
      BY DEF ComparisonInv, Awaited
    <3> QED BY <3>1, <3>2, <3>3 DEF Accounted
  <2>2. AttachedOnce
    BY DEF AttachedOnce, ComparisonInv, Known, Sound, Tidy
  <2>3. RefusedIsNotRecorded
    BY DEF RefusedIsNotRecorded, ComparisonInv, Known, Recalls
  <2> QED BY <2>1, <2>2, <2>3 DEF ComparisonsAccounted, EveryComparisonOnce
<1> QED BY <1>1, CaptureInductive, ComparisonsInductive, PTL
=============================================================================
