---------------------------- MODULE CaptureSession ----------------------------
(***************************************************************************)
(* One live capture session (src/capture/internal/session.ts): the camera  *)
(* and Recognition lifetimes it opens and leaves, the attempts it runs, and *)
(* the writes by which their readings reach UserCards.  Every await is a   *)
(* step of its own: devices, Recognition, UserCards and the owner act in   *)
(* between.                                                                *)
(***************************************************************************)
EXTENDS Integers, Sequences, FiniteSets, SequencesExt

CONSTANTS
    None,
    Foreign,        \* captures of earlier sessions UserCards may still retain
    MaxCaptures,    \* bound on the captures, foreign ones included
    MaxReadings,    \* bound on the readings one attempt delivers
    MaxLifetimes,   \* bound on the times the camera is asked for
    Room            \* comparisons an entry has room for beside its observation

ASSUME CaptureAssumption ==
    /\ {Foreign, MaxCaptures, MaxReadings, MaxLifetimes, Room} \subseteq Nat
    /\ Foreign <= MaxCaptures

VARIABLES
    closed,     \* the session was disposed
    live,       \* its live work: what stopLive releases
    status,
    lifetimes,  \* how many camera lifetimes were begun
    opening,    \* lifetimes whose camera request is not answered
    open,       \* lifetimes whose camera stream is open
    readying,   \* lifetimes Recognition is preparing for
    begun,      \* how many captures exist
    attempt,    \* what the session knows of each capture
    pending,    \* the attempt whose write is not finished
    saving,     \* whether a write is in flight, as the session believes
    saves,      \* the writes in flight: [attempt, by, call]
    retained,   \* the unfinished captures last read back from UserCards
    recovering, \* what the running retry has left
    unfinished, \* staging operations UserCards retains
    recorded,   \* the decision UserCards recorded for each capture
    explained,  \* the comparisons UserCards recorded as its entry's alternatives
    reviewed    \* entries the review confirmed or removed meanwhile

vars == <<closed, live, status, lifetimes, opening, open, readying, begun, attempt, pending,
          saving, saves, retained, recovering, unfinished, recorded, explained, reviewed>>

device == <<lifetimes, opening, open, readying>>
provider == <<unfinished, recorded, explained, reviewed>>

Captures == 1 .. MaxCaptures
ReadingIds == 1 .. MaxReadings
Lifetimes == 0 .. MaxLifetimes  \* zero: none

Readings == [n : ReadingIds, usable : BOOLEAN, retained : BOOLEAN]
Alternatives == [n : ReadingIds, uncertain : BOOLEAN]

\* `staging` is the reading being submitted, zero for none; `kept`, `stagedBy`,
\* `attached` and `refused` remember what became of its readings.
Attempts ==
    [phase : {"preparing", "recognizing", "over"}, delivered : 0 .. MaxReadings,
     queue : Seq(Readings), staged : BOOLEAN, entry : BOOLEAN, staging : 0 .. MaxReadings,
     unresolved : BOOLEAN, alternatives : Seq(Alternatives), kept : SUBSET ReadingIds,
     stagedBy : 0 .. MaxReadings, attached : SUBSET ReadingIds, refused : SUBSET ReadingIds,
     twice : BOOLEAN]

ASSUME CaptureAttemptAssumption == None \notin Attempts

Record(phase, unresolved) ==
    [phase |-> phase, delivered |-> 0, queue |-> <<>>, staged |-> FALSE, entry |-> FALSE,
     staging |-> 0, unresolved |-> unresolved, alternatives |-> <<>>, kept |-> {},
     stagedBy |-> 0, attached |-> {}, refused |-> {}, twice |-> FALSE]

Released ==
    [running |-> FALSE, starting |-> FALSE, controller |-> 0, camera |-> 0, prepared |-> FALSE,
     preparing |-> 0, busy |-> FALSE, current |-> 0]

Statuses == {"idle", "starting", "preparing", "running", "stopped", "failed"}

\* A reading waits for the handler of the one before it, that for its write.
Handles(a) ==
    /\ attempt[a] # None /\ attempt[a].queue # <<>>
    /\ \A s \in saves : s.attempt = a => s.by # "handler"

Resumes == recovering # <<>> /\ \A s \in saves : s.by # "retry"

\* Promise reactions run before any timer or user event: nothing else begins
\* before a delivered reading is handled, or between the writes of one retry.
Settling == Resumes \/ \E a \in Captures : Handles(a)

Attends(a) == ~closed /\ live.running /\ live.current = a

--------
(* The live session.                                                       *)

\* stopLive: the camera's stream is closed, and its lifetime ends.
StopLive ==
    /\ live' = Released
    /\ open' = open \ {live.camera}

\* Slip: what earlier sessions left does not hold the camera back.
MayPrepareSlip == ~live.running /\ ~live.starting /\ ~closed /\ pending = 0

MayPrepare == ~live.running /\ ~live.starting /\ ~closed /\ pending = 0 /\ retained = {}

Prepare ==
    /\ MayPrepare /\ ~Settling
    /\ lifetimes < MaxLifetimes
    /\ lifetimes' = lifetimes + 1
    /\ opening' = opening \cup {lifetimes'}
    /\ live' = [live EXCEPT !.starting = TRUE, !.controller = lifetimes']
    /\ status' = "starting"
    /\ UNCHANGED <<closed, open, readying, begun, attempt, pending, saving, saves, retained,
                   recovering, provider>>

\* A continuation belongs to the camera lifetime that began it.
Owns(l) == ~closed /\ live.controller = l

\* openCamera resolved: a superseded stream is closed at once.
Granted(l) ==
    /\ l \in opening
    /\ opening' = opening \ {l}
    /\ IF Owns(l)
       THEN /\ open' = open \cup {l}
            /\ live' = [live EXCEPT !.camera = l, !.running = TRUE, !.starting = FALSE,
                                    !.prepared = FALSE, !.preparing = l]
            /\ readying' = readying \cup {l}
            /\ status' = "preparing"
       ELSE UNCHANGED <<open, live, readying, status>>
    /\ UNCHANGED <<closed, lifetimes, begun, attempt, pending, saving, saves, retained,
                   recovering, provider>>

\* openCamera rejected: a superseded request changes nothing.
Denied(l) ==
    /\ l \in opening
    /\ opening' = opening \ {l}
    /\ IF Owns(l) THEN StopLive /\ status' = "failed" ELSE UNCHANGED <<open, live, status>>
    /\ UNCHANGED <<closed, lifetimes, readying, begun, attempt, pending, saving, saves,
                   retained, recovering, provider>>

\* ensurePrepared's continuations; a failure leaves the next attempt to retry.
Prepared(l, ready) ==
    /\ l \in readying
    /\ readying' = readying \ {l}
    /\ live' = [live EXCEPT
           !.prepared = IF Owns(l) /\ ready THEN TRUE ELSE @,
           !.preparing = IF @ = l THEN 0 ELSE @]
    /\ status' = IF Owns(l) /\ ready /\ live.running THEN "running" ELSE status
    /\ UNCHANGED <<closed, lifetimes, opening, open, begun, attempt, pending, saving, saves,
                   retained, recovering, provider>>

\* Recognition ends the attempts of a session it disposed.
Ended == [a \in Captures |->
    IF attempt[a] # None /\ a = live.current THEN [attempt[a] EXCEPT !.phase = "over"]
    ELSE attempt[a]]

Stop ==
    /\ ~closed /\ ~Settling
    /\ StopLive
    /\ attempt' = Ended
    /\ status' = IF status = "failed" THEN status ELSE "stopped"
    /\ UNCHANGED <<closed, lifetimes, opening, readying, begun, pending, saving, saves,
                   retained, recovering, provider>>

Dispose ==
    /\ ~closed /\ ~Settling
    /\ closed' = TRUE
    /\ StopLive
    /\ attempt' = Ended
    /\ UNCHANGED <<status, lifetimes, opening, readying, begun, pending, saving, saves,
                   retained, recovering, provider>>

--------
(* The writes of an attempt.                                               *)

\* A comparison is left for the entry to explain.
Drains(r) == r.entry /\ r.alternatives # <<>>

\* The call a save makes first, if any.
NextCall(r) ==
    IF r.staging # 0 \/ r.unresolved THEN "submit" ELSE IF Drains(r) THEN "attach" ELSE "none"

Finished(r) == ~r.unresolved /\ r.staging = 0 /\ r.alternatives = <<>>

\* Without an entry there is nothing to attach to.
Settled(r) == IF r.entry THEN r ELSE [r EXCEPT !.alternatives = <<>>]

\* saveCapture up to its next await, or to its end.  `r` is the attempt as the
\* caller, or the last answer, left it.
Continue(a, r, by, others) ==
    LET call == NextCall(r)
        left == IF call = "none" THEN Settled(r) ELSE r
    IN  /\ attempt' = [attempt EXCEPT ![a] =
               IF call = "submit" /\ r.staging # 0 THEN [r EXCEPT !.stagedBy = r.staging]
               ELSE left]
        /\ saves' = others \cup
               (IF call = "none" THEN {} ELSE {[attempt |-> a, by |-> by, call |-> call]})
        /\ saving' = (call # "none")
        /\ pending' = IF call = "none" /\ Finished(left) THEN 0 ELSE a
        /\ unfinished' = IF call = "submit" THEN unfinished \cup {a} ELSE unfinished
        /\ retained' = IF call = "none" THEN unfinished' \ {pending'} ELSE retained

\* saveCapture's end without another call.
End(a, r, s, established) ==
    /\ attempt' = [attempt EXCEPT ![a] = r]
    /\ saves' = saves \ {s}
    /\ saving' = FALSE
    /\ pending' = IF Finished(r) THEN 0 ELSE pending
    /\ unfinished' = unfinished \ (IF established THEN {a} ELSE {})
    /\ retained' = unfinished' \ {pending'}

\* UserCards admits a capture, or recognises the previous card again; what it
\* recorded stands.
Decisions == {"admitted", "suppressed"}

Decides(a, decision) ==
    /\ recorded[a] \in {None, decision}
    /\ recorded' = [recorded EXCEPT ![a] = decision]

\* Slip: the decision leaves the submission unresolved.
EnteredSlip(r, decision) ==
    [r EXCEPT !.staging = 0, !.staged = TRUE, !.entry = decision = "admitted"]

\* The attempt once UserCards reported its decision.
Entered(r, decision) ==
    [r EXCEPT !.staging = 0, !.unresolved = FALSE, !.staged = TRUE, !.entry = decision = "admitted"]

\* A disposed session applies no answer.
Unless(r, next) == IF closed THEN r ELSE next

\* The submission is answered; an entry's alternatives follow it at once.
StageAnswered(s, decision) ==
    LET a == s.attempt
        next == Settled(Entered(attempt[a], decision))
    IN  /\ s.call = "submit"
        /\ Decides(a, decision)
        /\ IF closed \/ ~Drains(next)
           THEN End(a, Unless(attempt[a], next), s, TRUE)
           ELSE /\ attempt' = [attempt EXCEPT ![a] = next]
                /\ saves' = (saves \ {s}) \cup {[s EXCEPT !.call = "attach"]}
                /\ unfinished' = unfinished \ {a}
                /\ UNCHANGED <<saving, pending, retained>>
        /\ UNCHANGED <<closed, live, status, device, begun, recovering, explained, reviewed>>

\* Refused: no earlier dispatch of the operation left a doubt.
StageRefused(s) ==
    LET r == attempt[s.attempt]
    IN  /\ s.call = "submit" /\ ~r.unresolved /\ recorded[s.attempt] = None
        /\ End(s.attempt, Unless(r, [r EXCEPT !.staging = 0, !.refused = @ \cup {r.staging}]), s, TRUE)
        /\ UNCHANGED <<closed, live, status, device, begun, recovering, recorded, explained,
                       reviewed>>

\* Not known: UserCards recorded a decision, or it did not.
StageLost(s) ==
    LET r == attempt[s.attempt]
    IN  /\ s.call = "submit"
        /\ UNCHANGED recorded \/ \E decision \in Decisions : Decides(s.attempt, decision)
        /\ End(s.attempt, Unless(r, [r EXCEPT !.staging = 0, !.unresolved = TRUE]), s, FALSE)
        /\ UNCHANGED <<closed, live, status, device, begun, recovering, explained, reviewed>>

\* The comparison a save attaches now.
Sends(s) == Head(attempt[s.attempt].alternatives).n

\* UserCards adds an alternative once, to an entry in review that has room.
Attaches(s) ==
    LET a == s.attempt
    IN  /\ Sends(s) \in explained[a] \/ a \in reviewed \/ Cardinality(explained[a]) < Room
        /\ explained' =
               IF a \in reviewed THEN explained ELSE [explained EXCEPT ![a] = @ \cup {Sends(s)}]

Attached(r) ==
    [r EXCEPT !.alternatives = Tail(@), !.attached = @ \cup {Head(r.alternatives).n},
              !.twice = @ \/ Head(r.alternatives).n \in r.attached]

AttachAnswered(s) ==
    LET a == s.attempt
        next == Attached(attempt[a])
    IN  /\ s.call = "attach"
        /\ Attaches(s)
        /\ IF closed \/ ~Drains(next) THEN End(a, Unless(attempt[a], next), s, FALSE)
           ELSE /\ attempt' = [attempt EXCEPT ![a] = next]
                /\ UNCHANGED <<saves, saving, pending, retained, unfinished>>
        /\ UNCHANGED <<closed, live, status, device, begun, recovering, recorded, reviewed>>

\* Slip: a replay that is rejected settles the request before it.
RejectedSlip(r) ==
    [r EXCEPT !.alternatives = Tail(@), !.refused = @ \cup {Head(r.alternatives).n}]

\* A first request that was rejected has no lost outcome to recover; an
\* uncertain one stays.
Rejected(r) ==
    IF Head(r.alternatives).uncertain THEN r
    ELSE [r EXCEPT !.alternatives = Tail(@), !.refused = @ \cup {Head(r.alternatives).n}]

\* Rejected: the entry is full, or the account was not accepted just then.
AttachRefused(s) ==
    LET r == attempt[s.attempt]
    IN  /\ s.call = "attach"
        /\ End(s.attempt, Unless(r, Rejected(r)), s, FALSE)
        /\ UNCHANGED <<closed, live, status, device, begun, recovering, recorded, explained,
                       reviewed>>

Uncertain(r) ==
    LET first == [Head(r.alternatives) EXCEPT !.uncertain = TRUE]
    IN  [r EXCEPT !.alternatives = <<first>> \o Tail(@)]

AttachLost(s) ==
    LET r == attempt[s.attempt]
    IN  /\ s.call = "attach"
        /\ Attaches(s) \/ UNCHANGED explained
        /\ End(s.attempt, Unless(r, Uncertain(r)), s, FALSE)
        /\ UNCHANGED <<closed, live, status, device, begun, recovering, recorded, reviewed>>

\* The owner confirms or removes the pending entry.
Review(a) ==
    /\ recorded[a] = "admitted" /\ a \notin reviewed
    /\ reviewed' = reviewed \cup {a}
    /\ UNCHANGED <<closed, live, status, device, begun, attempt, pending, saving, saves,
                   retained, recovering, unfinished, recorded, explained>>

--------
(* Recovery.                                                               *)

MayRetry == ~live.busy /\ ~saving /\ ~closed

Retry ==
    /\ MayRetry /\ ~Settling
    /\ IF pending # 0
       THEN Continue(pending, attempt[pending], "retry", saves) /\ UNCHANGED recovering
       ELSE /\ retained' = unfinished
            /\ recovering' = SetToSortSeq(retained', <)
            /\ UNCHANGED <<attempt, pending, saving, saves, unfinished>>
    /\ UNCHANGED <<closed, live, status, device, begun, recorded, explained, reviewed>>

\* The next retained capture, resumed under a record of its own.
RetryNext ==
    /\ Resumes
    /\ recovering' = IF closed THEN <<>> ELSE Tail(recovering)
    /\ IF ~closed /\ Head(recovering) \in unfinished
       THEN Continue(Head(recovering), Record("over", TRUE), "retry", saves)
       ELSE UNCHANGED <<attempt, pending, saving, saves, retained, unfinished>>
    /\ UNCHANGED <<closed, live, status, device, begun, recorded, explained, reviewed>>

--------
(* Attempts and their readings.                                            *)

\* tick, when the scheduler finds the settled frame due.
MayAttempt == live.running /\ ~closed /\ ~live.busy /\ pending = 0

\* attempt up to its preparation; a frame that cannot be read ends it.
Attempt ==
    /\ MayAttempt /\ ~Settling
    /\ begun < MaxCaptures
    /\ begun' = begun + 1
    /\ \/ /\ attempt' = [attempt EXCEPT ![begun'] = Record("over", FALSE)]
          /\ live' = [live EXCEPT !.current = begun']
          /\ UNCHANGED readying
       \/ /\ attempt' = [attempt EXCEPT ![begun'] = Record("preparing", FALSE)]
          /\ live' = [live EXCEPT !.current = begun', !.busy = TRUE,
                 !.preparing = IF live.prepared THEN @ ELSE live.controller]
          /\ readying' = IF live.prepared THEN readying ELSE readying \cup {live.controller}
    /\ UNCHANGED <<closed, status, lifetimes, opening, open, pending, saving, saves, retained,
                   recovering, provider>>

Recognize(a) ==
    /\ attempt[a] # None /\ attempt[a].phase = "preparing"
    /\ ~closed /\ live.current = a /\ live.preparing = 0
    /\ attempt' = [attempt EXCEPT ![a].phase = IF live.prepared THEN "recognizing" ELSE "over"]
    /\ live' = [live EXCEPT !.busy = live.prepared]
    /\ UNCHANGED <<closed, status, device, begun, pending, saving, saves, retained,
                   recovering, provider>>

\* handle: a reading is kept on delivery, before any wait.
Deliver(a, usable) ==
    /\ attempt[a] # None /\ attempt[a].phase = "recognizing" /\ Attends(a)
    /\ attempt[a].delivered < MaxReadings
    /\ LET r == attempt[a]
           n == r.delivered + 1
           keep == usable /\ (r.staging # 0 \/ r.entry)
       IN  attempt' = [attempt EXCEPT ![a] =
               [r EXCEPT !.delivered = n,
                         !.queue = Append(@, [n |-> n, usable |-> usable, retained |-> keep]),
                         !.kept = IF keep THEN @ \cup {n} ELSE @,
                         !.alternatives =
                             IF keep THEN Append(@, [n |-> n, uncertain |-> FALSE]) ELSE @]]
    /\ UNCHANGED <<closed, live, status, device, begun, pending, saving, saves, retained,
                   recovering, provider>>

Holds(r, n) == \E k \in DOMAIN r.alternatives : r.alternatives[k].n = n

\* An earlier write attached it, or had it rejected, while this handler waited.
Drained(r, reading) == reading.retained /\ r.staged /\ ~Holds(r, reading.n)

\* A usable comparison is retained, once.
Kept(r, reading) ==
    IF ~reading.usable \/ reading.retained THEN r
    ELSE [r EXCEPT !.alternatives = Append(@, [n |-> reading.n, uncertain |-> FALSE]),
                   !.kept = @ \cup {reading.n}]

\* The comparisons left when a reading, held at most once, is submitted instead.
Without(alternatives, n) ==
    LET places == {k \in DOMAIN alternatives : alternatives[k].n = n}
    IN  IF places = {} THEN alternatives
        ELSE RemoveAt(alternatives, CHOOSE k \in places : TRUE)

Skips(a, r) ==
    /\ attempt' = [attempt EXCEPT ![a] = r]
    /\ UNCHANGED <<pending, saving, saves, retained, unfinished>>

\* handleReading up to its write; readings of one attempt are handled in turn.
Handle(a) ==
    LET reading == Head(attempt[a].queue)
        r == [attempt[a] EXCEPT !.queue = Tail(@)]
    IN  /\ Handles(a)
        /\ IF ~Attends(a) \/ Drained(r, reading) THEN Skips(a, r)
           ELSE IF r.staging # 0 \/ r.unresolved
           THEN Continue(a, Kept(r, reading), "handler", saves)
           ELSE IF reading.usable /\ ~r.staged
           THEN Continue(a, [r EXCEPT
                    !.staging = reading.n,
                    !.alternatives = Without(@, reading.n)], "handler", saves)
           ELSE IF reading.usable /\ r.entry
           THEN Continue(a, Kept(r, reading), "handler", saves)
           ELSE Skips(a, r)
        /\ UNCHANGED <<closed, live, status, device, begun, recovering, recorded, explained,
                       reviewed>>

\* Recognition completes or fails, and every reading was handled.
EndAttempt(a) ==
    /\ attempt[a] # None /\ attempt[a].phase = "recognizing"
    /\ attempt[a].queue = <<>> /\ \A s \in saves : s.attempt = a => s.by # "handler"
    /\ attempt' = [attempt EXCEPT ![a].phase = "over"]
    /\ live' = [live EXCEPT !.busy = IF live.current = a THEN FALSE ELSE @]
    /\ UNCHANGED <<closed, status, device, begun, pending, saving, saves, retained,
                   recovering, provider>>

--------

Init ==
    /\ closed = FALSE
    /\ live = Released
    /\ status = "idle"
    /\ lifetimes = 0 /\ opening = {} /\ open = {} /\ readying = {}
    /\ begun = Foreign
    /\ attempt = [a \in Captures |-> None]
    /\ pending = 0 /\ saving = FALSE /\ saves = {}
    /\ unfinished = 1 .. Foreign
    /\ retained = unfinished
    /\ recovering = <<>>
    /\ recorded \in [Captures -> {None, "admitted"}]
    /\ \A a \in Captures : recorded[a] # None => a <= Foreign
    /\ explained = [a \in Captures |-> {}]
    /\ reviewed = {}

Owner == Prepare \/ Stop \/ Dispose \/ Retry

Device ==
    \E l \in Lifetimes : Granted(l) \/ Denied(l) \/ \E ready \in BOOLEAN : Prepared(l, ready)

Recognition ==
    \E a \in Captures :
        \/ Recognize(a) \/ Handle(a) \/ EndAttempt(a)
        \/ \E usable \in BOOLEAN : Deliver(a, usable)

Established ==
    \E s \in saves : AttachAnswered(s) \/ \E decision \in Decisions : StageAnswered(s, decision)

Answer ==
    \/ Established
    \/ \E s \in saves : StageRefused(s) \/ StageLost(s) \/ AttachRefused(s) \/ AttachLost(s)

UserCards == Answer \/ \E a \in Captures : Review(a)

Next == Owner \/ Device \/ Attempt \/ Recognition \/ UserCards \/ RetryNext

Spec == Init /\ [][Next]_vars

\* The owner of a stopped session retries for as long as it asks for that,
\* UserCards answers every call, and neither every acceptance nor every refusal
\* is lost.
RecoverySpec ==
    /\ Spec
    /\ WF_vars(Retry /\ ~live.running) /\ WF_vars(RetryNext)
    /\ WF_vars(Answer) /\ SF_vars(Established) /\ SF_vars(\E s \in saves : AttachRefused(s))
    /\ \A a \in Captures : WF_vars(Handle(a))

--------

\* The types of the state; an attachment in flight has a comparison to send.
TypeOK ==
    /\ closed \in BOOLEAN /\ saving \in BOOLEAN
    /\ DOMAIN live = DOMAIN Released
    /\ status \in Statuses
    /\ lifetimes \in Lifetimes
    /\ opening \cup open \cup readying \subseteq 1 .. lifetimes
    /\ begun \in Foreign .. MaxCaptures
    /\ attempt \in [Captures -> Attempts \cup {None}]
    /\ pending \in 0 .. MaxCaptures
    /\ \A s \in saves : /\ s.attempt \in Captures /\ s.by \in {"handler", "retry"}
                        /\ s.call = "attach" => attempt[s.attempt].alternatives # <<>>
    /\ explained \in [Captures -> SUBSET ReadingIds]
    /\ retained \cup unfinished \cup reviewed \subseteq 1 .. begun

\* One write at a time, of the attempt the session holds as pending, whether a
\* reading or the owner's recovery started it and whether the camera still runs.
OneWriteAtATime ==
    /\ Cardinality(saves) <= 1
    /\ saving = (saves # {})
    /\ \A s \in saves : s.attempt = pending

\* A usable comparison of an admitted capture is attached, definitely refused,
\* was submitted as the observation itself, or is still held by the write the
\* session goes on with, whatever was lost and whenever the camera stopped.
NoComparisonLost ==
    \A a \in Captures :
        attempt[a] # None /\ attempt[a].entry /\ ~closed =>
            \A n \in attempt[a].kept :
                \/ n \in attempt[a].attached \cup attempt[a].refused \cup {attempt[a].stagedBy}
                \/ Holds(attempt[a], n) /\ (pending = a \/ live.current = a)

\* A comparison is attached once: an acknowledged one is not sent again, and the
\* observation an entry was made of is none of its alternatives.
AttachedOnce ==
    \A a \in Captures : attempt[a] # None =>
        ~attempt[a].twice /\ attempt[a].stagedBy \notin attempt[a].attached

\* No comparison is lost on its way to the entry, and none arrives there twice.
EveryComparisonOnce == NoComparisonLost /\ AttachedOnce

\* The camera does not run while UserCards still retains an unfinished capture of
\* an earlier session, however stale the list the session last read.
RecoveredFirst == live.running => unfinished \cap 1 .. Foreign = {}

\* A comparison the session reports as rejected is none that UserCards recorded:
\* a replay that is rejected leaves open what the lost request did.
RefusedIsNotRecorded ==
    \A a \in Captures : attempt[a] # None => attempt[a].refused \cap explained[a] = {}

\* The camera streams that are open are the one the running session shows, and
\* the status is that of this lifetime, whatever superseded requests and
\* preparations answer: a late grant leaves no stream open, and a session that
\* says it runs has a prepared Recognition session of its own.
OneCamera ==
    /\ open = {live.camera} \ {0} /\ (live.camera # 0) = live.running
    /\ status = "running" /\ ~closed =>
           live.running /\ live.prepared /\ live.controller \notin readying
    /\ status = "preparing" /\ ~closed => live.running /\ ~live.prepared
    /\ live.starting <=> status = "starting" /\ ~closed

\* One camera, one status and one write at a time, and no camera before what an
\* earlier session left unfinished.
OneAtATime == OneWriteAtATime /\ OneCamera /\ RecoveredFirst

\* Every comparison is accounted for, and as what became of it.
ComparisonsAccounted == EveryComparisonOnce /\ RefusedIsNotRecorded

\* What the snapshot says of a recoverable attempt: its owner resolves it by
\* retrying.
RetryResolves == pending # 0 /\ ~live.running ~> pending = 0 \/ closed \/ live.running
=============================================================================
