---------------------------- MODULE BrowserSession ----------------------------
(***************************************************************************)
(* The session of one browser page: sign-in, sign-out and token refresh    *)
(* (src/application/internal/browser-authentication.ts), the authenticated *)
(* transport, and what the page ends when an account leaves                *)
(* (src/application/internal/client.ts).  Every await is a step of its     *)
(* own, so transitions of the session overtake the work they supersede.    *)
(***************************************************************************)
EXTENDS Integers, FiniteSets

CONSTANTS
    None,
    Accounts,
    Requests,         \* calls of the page through the transport
    MaxTransitions    \* bound on the transitions of the session, counted from one

ASSUME SessionAssumption == MaxTransitions \in Nat \ {0} /\ None \notin Accounts

VARIABLES
    session,     \* the stored session, or None
    generation,  \* counts the transitions, from one: zero names none
    refreshing,  \* the refresh token() joins, zero for none
    refreshes,   \* the refreshes in flight
    signIns,     \* the sign-ins in flight
    epoch,       \* the transport's counter of ended sessions
    requests,    \* what became of each call
    lastIn,      \* the transition the latest sign-in began with
    lastOut      \* the transition of the latest sign-out

vars == <<session, generation, refreshing, refreshes, signIns, epoch, requests, lastIn, lastOut>>

Transitions == 0 .. MaxTransitions

\* `by` is the sign-in a session was established by; a refresh keeps it.
Sessions == [account : Accounts, fresh : BOOLEAN, by : Transitions]

\* A refresh is known by the generation it began in, and is of that session.
Refreshes == [began : Transitions, account : Accounts, by : Transitions]

SignIns == [by : Transitions, phase : {"prompt", "provider", "newPassword", "respond"}]

\* `outcome` is what the transport told the caller; an operation handle reports
\* it unless its account's scope was released.
Calls ==
    [asked : Accounts, opened : Transitions, credential : Accounts \cup {None},
     phase : {"waiting", "ready", "sent", "served", "over"}, waits : Transitions,
     applied : BOOLEAN, released : BOOLEAN,
     outcome : {"none", "ok", "unauthorized", "unavailable"}]

ASSUME NoneIsNoRecord == None \notin Sessions \cup Calls

AccountOf(s) == IF s = None THEN None ELSE s.account

--------
(* Transitions of the session.                                             *)

Owns(g) == g = generation

\* Slip: the departed account keeps its operations.
ReleasedSlip(calls, next) == calls

\* Application ends the scope of the account that leaves.
Released(calls, next) ==
    [r \in Requests |->
        IF calls[r] # None /\ AccountOf(next) # AccountOf(session) /\ session # None
           /\ calls[r].asked = session.account
        THEN [calls[r] EXCEPT !.released = TRUE]
        ELSE calls[r]]

\* remember and forget, and the report that follows them: the subscriber ends
\* the account's scope and then the transport's session when the account moves.
Becomes(next, calls) ==
    /\ generation < MaxTransitions
    /\ generation' = generation + 1
    /\ session' = next
    /\ refreshing' = 0
    /\ epoch' = IF AccountOf(next) = AccountOf(session) THEN epoch ELSE epoch + 1
    /\ requests' = Released(calls, next)

SignOut ==
    /\ session # None
    /\ Becomes(None, requests)
    /\ lastOut' = generation'
    /\ UNCHANGED <<refreshes, signIns, lastIn>>

BeginSignIn ==
    /\ generation < MaxTransitions
    /\ generation' = generation + 1
    /\ signIns' = signIns \cup {[by |-> generation', phase |-> "prompt"]}
    /\ lastIn' = generation'
    /\ UNCHANGED <<session, refreshing, refreshes, epoch, requests, lastOut>>

\* The owner gives up, the provider refuses, or the session moved on.
DropSignIn(s) ==
    /\ signIns' = signIns \ {s}
    /\ UNCHANGED <<session, generation, refreshing, refreshes, epoch, requests, lastIn, lastOut>>

\* The prompt, or the provider's challenge, leads to the next exchange.
ContinueSignIn(s) ==
    /\ Owns(s.by)
    /\ \E phase \in CASE s.phase = "prompt" -> {"provider"}
                      [] s.phase = "provider" -> {"newPassword"}
                      [] s.phase = "newPassword" -> {"respond"}
                      [] s.phase = "respond" -> {} :
           signIns' = (signIns \ {s}) \cup {[s EXCEPT !.phase = phase]}
    /\ UNCHANGED <<session, generation, refreshing, refreshes, epoch, requests, lastIn, lastOut>>

CompleteSignIn(s, account) ==
    /\ Owns(s.by) /\ s.phase \in {"provider", "respond"}
    /\ signIns' = signIns \ {s}
    /\ Becomes([account |-> account, fresh |-> TRUE, by |-> s.by], requests)
    /\ UNCHANGED <<refreshes, lastIn, lastOut>>

\* The clock reaches the refresh margin of the token.
Expire ==
    /\ session # None /\ session.fresh
    /\ session' = [session EXCEPT !.fresh = FALSE]
    /\ UNCHANGED <<generation, refreshing, refreshes, signIns, epoch, requests, lastIn, lastOut>>

--------
(* The refresh and the calls that wait for it.                             *)

\* The calls that joined refresh g learn its credential or its failure.
Settled(g, credential, failure) ==
    [r \in Requests |->
        IF requests[r] # None /\ requests[r].phase = "waiting" /\ requests[r].waits = g
        THEN IF credential # None
             THEN [requests[r] EXCEPT !.phase = "ready", !.credential = credential]
             ELSE [requests[r] EXCEPT !.phase = "over", !.outcome = failure]
        ELSE requests[r]]

EndRefresh(f) ==
    /\ refreshes' = refreshes \ {f}
    /\ UNCHANGED <<signIns, lastIn, lastOut>>

\* The slot is cleared by the refresh that holds it.
Slot(f) == IF refreshing = f.began THEN 0 ELSE refreshing

\* The session the refresh belonged to moved on: its answer changes nothing.
RefreshDropped(f) ==
    /\ ~Owns(f.began)
    /\ EndRefresh(f)
    /\ refreshing' = Slot(f)
    /\ requests' = Settled(f.began, None, "unauthorized")
    /\ UNCHANGED <<session, generation, epoch>>

RefreshAnswered(f) ==
    /\ Owns(f.began)
    /\ EndRefresh(f)
    /\ Becomes([account |-> f.account, fresh |-> TRUE, by |-> f.by],
               Settled(f.began, f.account, "none"))

\* A refusal ends the session.
RefreshRefused(f) ==
    /\ Owns(f.began)
    /\ EndRefresh(f)
    /\ Becomes(None, Settled(f.began, None, "unauthorized"))

\* A service that could not be reached keeps the session.
RefreshUnreachable(f) ==
    /\ Owns(f.began)
    /\ EndRefresh(f)
    /\ refreshing' = Slot(f)
    /\ requests' = Settled(f.began, None, "unavailable")
    /\ UNCHANGED <<session, generation, epoch>>

--------
(* The transport.                                                          *)

\* token(): the credential in hand, the refresh in flight, or a new one.
Issue(r) ==
    /\ requests[r] = None /\ session # None
    /\ LET slot == IF refreshing # 0 THEN refreshing ELSE generation
       IN  /\ requests' = [requests EXCEPT ![r] =
                  [asked |-> session.account, opened |-> epoch, applied |-> FALSE,
                   released |-> FALSE, outcome |-> "none",
                   phase |-> IF session.fresh THEN "ready" ELSE "waiting",
                   credential |-> IF session.fresh THEN session.account ELSE None,
                   waits |-> IF session.fresh THEN 0 ELSE slot]]
           /\ refreshing' = IF session.fresh THEN refreshing ELSE slot
           /\ refreshes' =
                  IF session.fresh \/ refreshing # 0 THEN refreshes
                  ELSE refreshes \cup
                      {[began |-> slot, account |-> session.account, by |-> session.by]}
    /\ UNCHANGED <<session, generation, signIns, epoch, lastIn, lastOut>>

Calling(r, phase) == requests[r] # None /\ requests[r].phase = phase

Call(r, next) ==
    /\ requests' = [requests EXCEPT ![r] = next]
    /\ UNCHANGED <<session, generation, refreshing, refreshes, signIns, epoch, lastIn, lastOut>>

Over(r, outcome) == [requests[r] EXCEPT !.phase = "over", !.outcome = outcome]

MaySend(r) == requests[r].opened = epoch

Send(r) ==
    /\ Calling(r, "ready")
    /\ Call(r, IF MaySend(r) THEN [requests[r] EXCEPT !.phase = "sent"]
               ELSE Over(r, "unauthorized"))

\* The server applies the call of the credential's account, or fails first.
Serve(r) ==
    /\ Calling(r, "sent")
    /\ Call(r, [requests[r] EXCEPT !.phase = "served", !.applied = TRUE])

\* Slip: an answer reaches its caller although that session ended.
MayAnswerSlip(r) == TRUE

MayAnswer(r) == requests[r].opened = epoch

Answer(r) ==
    /\ Calling(r, "served")
    /\ Call(r, Over(r, IF MayAnswer(r) THEN "ok" ELSE "unauthorized"))

\* The network loses the call, before or after the server applied it.
Lose(r) ==
    /\ Calling(r, "sent") \/ Calling(r, "served")
    /\ Call(r, Over(r, "unavailable"))

--------

\* The page opens signed out, or with the session its tab stored.
Init ==
    /\ session \in {None} \cup [account : Accounts, fresh : BOOLEAN, by : {0}]
    /\ generation = 1 /\ refreshing = 0 /\ refreshes = {}
    /\ signIns = {}
    /\ epoch = 0
    /\ requests = [r \in Requests |-> None]
    /\ lastIn = 0 /\ lastOut = 0

SignIn ==
    \/ BeginSignIn
    \/ \E s \in signIns :
          \/ DropSignIn(s) \/ ContinueSignIn(s)
          \/ \E account \in Accounts : CompleteSignIn(s, account)

Refresh ==
    \E f \in refreshes :
        RefreshDropped(f) \/ RefreshAnswered(f) \/ RefreshRefused(f) \/ RefreshUnreachable(f)

Transport == \E r \in Requests : Issue(r) \/ Send(r) \/ Serve(r) \/ Answer(r) \/ Lose(r)

Next == SignIn \/ SignOut \/ Expire \/ Refresh \/ Transport

Spec == Init /\ [][Next]_vars

--------

\* The types of the state; token() joins only a refresh that is in flight.
TypeOK ==
    /\ session \in {None} \cup Sessions
    /\ generation \in Transitions
    /\ refreshing \in {f.began : f \in refreshes} \cup {0}
    /\ refreshes \subseteq Refreshes
    /\ signIns \subseteq SignIns
    /\ epoch \in 0 .. generation
    /\ requests \in [Requests -> {None} \cup Calls]
    /\ lastIn \in Transitions /\ lastOut \in Transitions

\* After a sign-out the page is signed in again only by a sign-in begun later,
\* and the sign-in that completes is the latest one begun: no answer to an
\* earlier one, or to a refresh, brings a session back or replaces it.
LatestSignInWins ==
    [][session' # None =>
          /\ lastOut' # 0 => session'.by > lastOut'
          /\ session'.by # (IF session = None THEN 0 ELSE session.by)
                => session'.by = lastIn]_vars

\* A call is sent for the account that made it, while that account is signed
\* in and with its credential, and no caller is told of an account that left,
\* were it back meanwhile or not.
ServedForItsAccount ==
    [][\A r \in Requests : requests'[r] # None =>
          /\ requests'[r].phase = "sent" /\ ~Calling(r, "sent")
                => AccountOf(session) = requests[r].asked
                   /\ requests[r].credential = requests[r].asked
          /\ requests'[r].outcome = "ok" /\ ~Calling(r, "over")
                => AccountOf(session) = requests[r].asked /\ ~requests[r].released]_vars

\* The page serves the latest sign-in, and only the account of it.
ServesTheLatest == LatestSignInWins /\ ServedForItsAccount

\* An operation that is still observed is not refused once the server applied
\* it: "unauthorized" is a definite refusal to the operations.
NoFalseRefusal ==
    \A r \in Requests :
        requests[r] # None /\ requests[r].outcome = "unauthorized" /\ requests[r].applied
            => requests[r].released
=============================================================================
