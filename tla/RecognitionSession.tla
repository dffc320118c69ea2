------------------------- MODULE RecognitionSession -------------------------
(***************************************************************************)
(* The Recognition lifecycle (src/recognition/internal/service.ts): the    *)
(* sessions prepared under one identity, the callers that share a          *)
(* preparation, and the capture attempts that run on the pipeline of their *)
(* session.  A caller's cancellation, the failure of a preparation, the    *)
(* disposal of a session and every continuation of a promise are steps of  *)
(* their own.  The pipeline is outside: it prepares, infers, reports       *)
(* readings and settles whenever it likes, also after it was released.     *)
(***************************************************************************)
EXTENDS Naturals, FiniteSets

CONSTANTS
    Pipelines,      \* pipelines the factory creates, from 1
    Joiners,        \* callers that ask for a session that is there
    Attempts,       \* capture attempts
    MaxReadings,    \* bound: outcomes a pipeline reports for one attempt
    NoSession

ASSUME PipelinesAreNumbers ==
    Pipelines \subseteq Nat /\ NoSession \notin Pipelines \cup Attempts

VARIABLES
    sessions,       \* the session registered under the identity
    pipelines,      \* each pipeline: its preparation, its initiator, its release
    joiners,        \* the session each joining caller waits on
    attempts        \* each attempt

recognitionVars == <<sessions, pipelines, joiners, attempts>>

--------
Unused == [preparation |-> "none", initiator |-> "none", aborted |-> FALSE, released |-> 0,
           active |-> NoSession]

NotBegun == [of |-> NoSession, stage |-> "none", aborted |-> FALSE, outcomes |-> 0, mapping |-> FALSE,
         revision |-> 0, initial |-> "none", finished |-> FALSE]

RecognitionInit ==
    /\ sessions = NoSession
    /\ pipelines = [p \in Pipelines |-> Unused]
    /\ joiners = [j \in Joiners |-> NoSession]
    /\ attempts = [a \in Attempts |-> NotBegun]

\* The signal an attempt follows: its caller's, its own, its session's.
Aborted(a) == attempts[a].aborted \/ pipelines[attempts[a].of].aborted

\* onAbort of an attempt: the call is answered and nothing more is delivered.
Cancelled(attempt) ==
    IF attempt.finished THEN attempt
    ELSE [attempt EXCEPT !.finished = TRUE,
                         !.initial = IF @ = "waits" THEN "rejected" ELSE @]

Running(attempt, p) == attempt.of = p /\ attempt.stage \notin {"none", "done"}

\* controller.abort of a session reaches the attempts that run on it.
SessionAborted(p) ==
    [a \in Attempts |-> IF Running(attempts[a], p) THEN Cancelled(attempts[a]) ELSE attempts[a]]

--------
(* prepare                                                                  *)

\* The factory creates a pipeline, and the session is registered.
Prepare(p) ==
    /\ sessions = NoSession
    /\ pipelines[p] = Unused /\ \A q \in Pipelines : q < p => pipelines[q] # Unused
    /\ sessions' = p
    /\ pipelines' = [pipelines EXCEPT ![p] =
                        [Unused EXCEPT !.preparation = "running", !.initiator = "waiting"]]
    /\ UNCHANGED <<joiners, attempts>>

\* A later caller waits on the shared preparation.
Join(j) ==
    /\ sessions # NoSession
    /\ joiners[j] = NoSession
    /\ joiners' = [joiners EXCEPT ![j] = sessions]
    /\ UNCHANGED <<sessions, pipelines, attempts>>

\* The pipeline's own preparation settles, whether or not it was aborted.
Settle(p, outcome) ==
    /\ pipelines[p].preparation = "running"
    /\ pipelines' = [pipelines EXCEPT ![p].preparation = outcome]
    /\ UNCHANGED <<sessions, joiners, attempts>>

\* watch of the initiator: the preparation settled, or a signal aborted first.
WatchSettles(p) ==
    /\ pipelines[p].initiator = "waiting"
    /\ pipelines[p].preparation # "running" \/ pipelines[p].aborted
    /\ pipelines' = [pipelines EXCEPT ![p].initiator =
                        IF ~pipelines[p].aborted /\ pipelines[p].preparation = "ready"
                        THEN "resolved" ELSE "rejected"]
    /\ UNCHANGED <<sessions, joiners, attempts>>

\* The initiator continues: a rejected wait ends the session it registered,
\* unless that already ended.
Ends(p) == sessions = p

InitiatorContinues(p) ==
    LET fails == pipelines[p].initiator = "rejected"
    IN  /\ pipelines[p].initiator \in {"resolved", "rejected"}
        /\ sessions' = IF fails /\ Ends(p) THEN NoSession ELSE sessions
        /\ pipelines' = [pipelines EXCEPT ![p] =
              [pipelines[p] EXCEPT !.initiator = "done",
                                   !.released = IF fails /\ Ends(p) THEN @ + 1 ELSE @]]
        /\ UNCHANGED <<joiners, attempts>>

\* The initiator's signal, until its call settled: the shared preparation and
\* its session end for everyone.
InitiatorAborts(p) ==
    /\ pipelines[p].initiator \in {"waiting", "resolved", "rejected"}
    /\ sessions = p
    /\ sessions' = NoSession
    /\ pipelines' = [pipelines EXCEPT ![p] =
                        [pipelines[p] EXCEPT
                            !.aborted = TRUE, !.released = @ + 1,
                            !.initiator = IF @ = "waiting" THEN "rejected" ELSE @]]
    /\ attempts' = SessionAborted(p)
    /\ UNCHANGED joiners

\* A joining caller's own cancellation ends only its wait.
JoinerAborts(j) ==
    /\ joiners[j] # NoSession
    /\ joiners' = [joiners EXCEPT ![j] = NoSession]
    /\ UNCHANGED <<sessions, pipelines, attempts>>

JoinerContinues(j) ==
    /\ joiners[j] # NoSession
    /\ LET p == pipelines[joiners[j]] IN p.preparation # "running" \/ p.aborted
    /\ joiners' = [joiners EXCEPT ![j] = NoSession]
    /\ UNCHANGED <<sessions, pipelines, attempts>>

\* dispose: the session, its attempts and its pipeline.
DisposeService ==
    /\ sessions # NoSession
    /\ sessions' = NoSession
    /\ pipelines' = [pipelines EXCEPT ![sessions] =
                        [pipelines[sessions] EXCEPT !.aborted = TRUE, !.released = @ + 1]]
    /\ attempts' = SessionAborted(sessions)
    /\ UNCHANGED joiners

--------
(* recognize                                                                *)

\* A session that is busy, or absent, answers at once and keeps no state.
Recognize(a) ==
    /\ attempts[a] = NotBegun
    /\ sessions # NoSession
    /\ pipelines[sessions].active = NoSession
    /\ attempts' = [attempts EXCEPT ![a] =
                      [NotBegun EXCEPT !.of = sessions, !.stage = "waiting", !.initial = "waits"]]
    /\ pipelines' = [pipelines EXCEPT ![sessions].active = a]
    /\ UNCHANGED <<sessions, joiners>>

\* One attempt changes, and no session.
AttemptBecomes(a, next) ==
    /\ attempts' = [attempts EXCEPT ![a] = next]
    /\ UNCHANGED <<sessions, pipelines, joiners>>

\* The caller's signal.
CallerAborts(a) ==
    /\ attempts[a].stage \notin {"none", "done"} /\ ~attempts[a].aborted
    /\ AttemptBecomes(a, [Cancelled(attempts[a]) EXCEPT !.aborted = TRUE])

\* The attempt may use the pipeline it waited for: nothing was aborted and the
\* session is still the registered one.
MayInfer(a) == ~Aborted(a) /\ sessions = attempts[a].of

\* watch of the preparation, and what follows it.
Infer(a) ==
    /\ attempts[a].stage = "waiting"
    /\ pipelines[attempts[a].of].preparation = "ready"
    /\ MayInfer(a)
    /\ AttemptBecomes(a, [attempts[a] EXCEPT !.stage = "inferring"])

\* The wait ends without inference, and the attempt fails with it.
GiveUp(a) ==
    /\ attempts[a].stage = "waiting"
    /\ \/ Aborted(a)
       \/ pipelines[attempts[a].of].preparation = "failed"
       \/ pipelines[attempts[a].of].preparation = "ready" /\ sessions # attempts[a].of
    /\ AttemptBecomes(a, [attempts[a] EXCEPT !.stage = "draining"])

\* The pipeline reports an outcome while it infers; publish queues it.
Report(a) ==
    /\ attempts[a].stage = "inferring"
    /\ attempts[a].revision + attempts[a].outcomes < MaxReadings
    /\ AttemptBecomes(a, [attempts[a] EXCEPT !.outcomes = @ + 1])

\* The pipeline settles: its last outcome is queued, or it failed.
PipelineSettles(a, last) ==
    /\ attempts[a].stage = "inferring"
    /\ attempts[a].revision + attempts[a].outcomes + last <= MaxReadings
    /\ AttemptBecomes(a, [attempts[a] EXCEPT !.stage = "draining", !.outcomes = @ + last])

\* deliver: one outcome at a time is mapped; a closed attempt maps none.
Map(a) ==
    /\ attempts[a].outcomes > 0 /\ ~attempts[a].mapping
    /\ AttemptBecomes(a, IF attempts[a].finished \/ Aborted(a)
                         THEN [attempts[a] EXCEPT !.outcomes = @ - 1]
                         ELSE [attempts[a] EXCEPT !.mapping = TRUE])

\* The reading may still be delivered after its mapping was awaited.
StillOpen(a) == ~attempts[a].finished /\ ~Aborted(a)

Mapped(a) ==
    /\ attempts[a].mapping
    /\ AttemptBecomes(a,
          [attempts[a] EXCEPT
              !.mapping = FALSE, !.outcomes = @ - 1,
              !.revision = IF StillOpen(a) THEN @ + 1 ELSE @,
              !.initial = IF StillOpen(a) /\ @ = "waits" THEN "delivered" ELSE @])

\* A first reading that cannot be mapped ends the attempt and cancels its
\* inference; a later one is dropped.
MappingFails(a) ==
    LET terminal == attempts[a].initial = "waits" /\ StillOpen(a)
    IN  /\ attempts[a].mapping
        /\ AttemptBecomes(a,
              [attempts[a] EXCEPT
                  !.mapping = FALSE, !.outcomes = @ - 1,
                  !.initial = IF terminal THEN "rejected" ELSE @,
                  !.finished = @ \/ terminal,
                  !.aborted = @ \/ terminal])

\* The session accepts another capture.
\* Slip: as soon as the delivery of this one is finished.
ReleasesSlip(a) == attempts[a].stage = "draining" \/ attempts[a].finished
Releases(a) == attempts[a].stage = "draining" /\ attempts[a].outcomes = 0

\* The end of the attempt's task, once what was reported is drained.
FinishAttempt(a) ==
    /\ attempts[a].stage # "done" /\ attempts[a].of # NoSession
    /\ Releases(a)
    /\ attempts' = [attempts EXCEPT ![a] =
          [attempts[a] EXCEPT !.stage = IF @ = "draining" THEN "done" ELSE @,
                              !.finished = TRUE,
                              !.initial = IF @ = "waits" THEN "rejected" ELSE @]]
    /\ pipelines' = [pipelines EXCEPT ![attempts[a].of].active =
                        IF @ = a THEN NoSession ELSE @]
    /\ UNCHANGED <<sessions, joiners>>

RecognitionNext ==
    \/ \E p \in Pipelines :
         \/ Prepare(p) \/ WatchSettles(p) \/ InitiatorContinues(p) \/ InitiatorAborts(p)
         \/ \E outcome \in {"ready", "failed"} : Settle(p, outcome)
    \/ \E j \in Joiners : Join(j) \/ JoinerAborts(j) \/ JoinerContinues(j)
    \/ DisposeService
    \/ \E a \in Attempts :
         \/ Recognize(a) \/ CallerAborts(a) \/ Infer(a) \/ GiveUp(a) \/ Report(a)
         \/ Map(a) \/ Mapped(a) \/ MappingFails(a) \/ FinishAttempt(a)
         \/ \E last \in {0, 1} : PipelineSettles(a, last)

RecognitionSpec == RecognitionInit /\ [][RecognitionNext]_recognitionVars

--------
(* Properties.                                                              *)

Inferring(p) == {a \in Attempts : attempts[a].of = p /\ attempts[a].stage = "inferring"}

\* A pipeline runs one inference at a time and begins none after it was
\* released, however its session, its callers and its attempts end
\* (service.ts recognize, releaseSession; docs/recognition.md#execution).
InferenceIsExclusive ==
    [][\A p \in Pipelines :
         /\ Cardinality(Inferring(p)') <= 1
         /\ Inferring(p)' \subseteq Inferring(p) \/ pipelines[p].released = 0]_recognitionVars

\* Every pipeline the factory created is released exactly once: when its
\* session ends, never while the session is registered and never by the end
\* of another (service.ts prepare, dispose).
PipelinesReleasedOnce ==
    \A p \in Pipelines :
        pipelines[p].released = IF pipelines[p] = Unused \/ sessions = p THEN 0 ELSE 1

\* An attempt's first answer and its completion are final: nothing is
\* delivered after completion, and the end of a session answers everyone who
\* still waits on it (service.ts deliver, onAbort, finishDelivery).
CompletionIsFinal ==
    [][\A a \in Attempts :
         LET before == attempts[a]
             after == attempts'[a]
         IN  /\ before.finished => after.finished /\ after.revision = before.revision
             /\ before.initial \in {"delivered", "rejected"} => after.initial = before.initial
             /\ after.finished => after.initial # "waits"
             /\ Running(after, after.of) /\ pipelines'[after.of].aborted => after.finished]_recognitionVars

\* The attempts of a session take turns on its pipeline and end for good.
AttemptsTakeTurns == InferenceIsExclusive /\ CompletionIsFinal
=============================================================================
