-------------------------- MODULE BrowserPage_proofs --------------------------
(***************************************************************************)
(* What three parts of a browser page promise for any number of accounts,  *)
(* calls, transitions, pipelines, attempts, pages and history entries: the *)
(* session, that it serves the latest sign-in and refuses no operation the *)
(* server applied while somebody observes it; Recognition, that the        *)
(* attempts of a session take turns on its pipeline and end for good; the  *)
(* shell, that it presents the account's entry and gives every retained    *)
(* state back once.                                                        *)
(*                                                                         *)
(* The session's argument is about two counters.  A call whose transport   *)
(* session still stands was made by the account that is signed in; any     *)
(* other was released with its account (CallAgrees).  A refresh that began *)
(* in the current transition renews the current session, so that its       *)
(* answer brings nothing back (RefreshAgrees), and a sign-in that is still *)
(* on its way began after the latest sign-out (SignInsOrdered).            *)
(*                                                                         *)
(* The shell's is about what the page and the store know of one another: a *)
(* page restores the one snapshot its entry keeps, until it hands newer    *)
(* state over, and no handle is given back while it is kept, or kept twice *)
(* (StoreAgrees, HandlesAgree, PageAgrees).                                *)
(***************************************************************************)
EXTENDS MCBrowserSession, FiniteSetTheorems, SequenceTheorems, TLAPS

--------
(* The session.                                                            *)

\* A call of an ended transport session was released; one of the session that
\* stands is its account's, with its account's credential.
CallAgrees(c) ==
    /\ c.opened <= epoch
    /\ c.opened = epoch => AccountOf(session) = c.asked /\ ~c.released
    /\ c.opened # epoch => c.released
    /\ c.waits <= generation
    /\ c.phase = "waiting" /\ c.waits = generation => AccountOf(session) = c.asked
    /\ c.phase \in {"ready", "sent", "served"} => c.credential = c.asked
    /\ c.phase \in {"waiting", "ready", "sent"} => ~c.applied
    /\ c.phase # "over" => c.outcome = "none"
    /\ c.outcome = "unauthorized" /\ c.applied => c.released

CallsAgree == \A r \in Requests : requests[r] # None => CallAgrees(requests[r])

\* A refresh of the current transition renews the session that is stored.
RefreshAgrees(f) ==
    /\ f.began <= generation
    /\ f.began = generation =>
          session # None /\ session.account = f.account /\ session.by = f.by

RefreshesAgree == \A f \in refreshes : RefreshAgrees(f)

\* Sign-ins on their way are not older than the latest one begun, and none
\* began with the transition of the latest sign-out.
SignInsOrdered ==
    /\ lastIn <= generation /\ lastOut <= generation
    /\ \A s \in signIns : 1 <= s.by /\ s.by <= lastIn /\ s.by # lastOut
    /\ session # None /\ lastOut # 0 => session.by > lastOut

SessionInv == TypeOK /\ CallsAgree /\ RefreshesAgree /\ SignInsOrdered

--------
(* The calls, as transitions and refreshes change them.                    *)

SameCall(c, d) == d.asked = c.asked /\ d.opened = c.opened /\ d.waits = c.waits

\* Nothing was sent or answered.
Waits(c, d) ==
    /\ c = None <=> d = None
    /\ d # None =>
          /\ d.phase = "sent" => c.phase = "sent"
          /\ d.outcome = "ok" => c.phase = "over"

CallTable == [Requests -> {None} \cup Calls]

Follow(calls) ==
    /\ calls \in CallTable
    /\ \A r \in Requests : Waits(requests[r], calls[r])
    /\ \A r \in Requests : calls[r] # None => CallAgrees(calls[r])

\* What the calls are leaves them as they agree.
LEMMA CallsFollow == ASSUME SessionInv PROVE Follow(requests)
<1>1. requests \in CallTable
  BY DEF SessionInv, TypeOK, CallTable
<1>2. ASSUME NEW r \in Requests PROVE Waits(requests[r], requests[r])
  <2>1. CASE requests[r] = None
    BY <2>1 DEF Waits
  <2>2. CASE requests[r] # None
    <3>1. CallAgrees(requests[r])
      BY <2>2 DEF SessionInv, CallsAgree
    <3> QED
      BY <2>2, <3>1 DEF Waits, CallAgrees
  <2> QED
    BY <2>1, <2>2
<1> QED
  BY <1>1, <1>2 DEF Follow, SessionInv, CallsAgree

\* A refresh that is over gives its waiting calls the credential of the
\* account they were made for, or its failure.
LEMMA SettledFollow ==
    ASSUME SessionInv, NEW f \in refreshes,
           NEW credential \in Accounts \cup {None}, NEW failure \in {"none", "unauthorized", "unavailable"},
           credential # None => Owns(f.began) /\ credential = f.account
    PROVE  Follow(Settled(f.began, credential, failure))
<1> DEFINE calls == Settled(f.began, credential, failure)
           Joined(r) == requests[r] # None /\ requests[r].phase = "waiting"
                            /\ requests[r].waits = f.began
<1>1. requests \in CallTable /\ \A r \in Requests : Waits(requests[r], requests[r])
  BY CallsFollow DEF Follow
<1>2. \A r \in Requests :
          calls[r] = IF Joined(r)
                     THEN IF credential # None
                          THEN [requests[r] EXCEPT !.phase = "ready", !.credential = credential]
                          ELSE [requests[r] EXCEPT !.phase = "over", !.outcome = failure]
                     ELSE requests[r]
  BY DEF Settled
<1>3. DOMAIN calls = Requests /\ calls = [r \in Requests |-> calls[r]]
  BY DEF Settled
<1> HIDE DEF calls
<1>4. ASSUME NEW r \in Requests
      PROVE  /\ calls[r] \in {None} \cup Calls
             /\ Waits(requests[r], calls[r])
             /\ calls[r] # None => CallAgrees(calls[r])
  <2>1. CASE ~Joined(r)
    BY <1>1, <1>2, <2>1 DEF CallTable, SessionInv, CallsAgree
  <2>2. CASE Joined(r)
    <3> DEFINE c == requests[r]
               d == calls[r]
    <3>1. c \in Calls /\ CallAgrees(c) /\ c.phase = "waiting" /\ c.waits = f.began
      BY <1>1, <2>2 DEF CallTable, SessionInv, CallsAgree
    <3>2. CASE credential # None
      <4>1. d = [c EXCEPT !.phase = "ready", !.credential = credential]
        BY <1>2, <2>2, <3>2
      <4>2. c.asked = f.account
        <5>1. RefreshAgrees(f) /\ f.began = generation
          BY <3>2 DEF SessionInv, RefreshesAgree, Owns
        <5> QED
          BY <3>1, <5>1 DEF RefreshAgrees, CallAgrees, AccountOf
      <4> HIDE DEF c, d
      <4>6. c \in Calls /\ credential \in Accounts \cup {None}
        BY <3>1
      <4>3. /\ d \in Calls /\ SameCall(c, d) /\ d.released = c.released
            /\ d.phase = "ready" /\ d.credential = credential /\ d.applied = c.applied
            /\ d.outcome = c.outcome
        BY ONLY <4>1, <4>6 DEF Calls, SameCall
      <4>4. d # None
        BY <4>3, NoneIsNoRecord
      <4>5. Waits(c, d) /\ CallAgrees(d)
        BY <2>2, <3>1, <3>2, <4>2, <4>3, <4>4 DEF Waits, CallAgrees, SameCall, c
      <4> QED
        BY <4>3, <4>5 DEF c, d
    <3>3. CASE credential = None
      <4>1. d = [c EXCEPT !.phase = "over", !.outcome = failure]
        BY <1>2, <2>2, <3>3
      <4> HIDE DEF c, d
      <4>5. failure \in {"none", "ok", "unauthorized", "unavailable"} /\ c \in Calls
        BY <3>1
      <4>2. /\ d \in Calls /\ SameCall(c, d) /\ d.released = c.released
            /\ d.phase = "over" /\ d.credential = c.credential /\ d.applied = c.applied
            /\ d.outcome = failure
        BY ONLY <4>1, <4>5 DEF Calls, SameCall
      <4>3. Waits(c, d) /\ CallAgrees(d)
        BY <2>2, <3>1, <4>2, NoneIsNoRecord DEF Waits, CallAgrees, SameCall, c
      <4> QED
        BY <4>2, <4>3 DEF c, d
    <3> QED
      BY <3>2, <3>3
  <2> QED
    BY <2>1, <2>2
<1>5. calls \in CallTable
  BY <1>3, <1>4 DEF CallTable
<1> QED
  BY <1>4, <1>5 DEF Follow, calls

\* A transition of the session releases the calls of the account that leaves,
\* so that those it does not release are the account's that stays.
LEMMA TransitionFollows ==
    ASSUME SessionInv, NEW next \in {None} \cup Sessions, NEW calls, Follow(calls),
           Becomes(next, calls)
    PROVE  /\ requests' \in CallTable
           /\ \A r \in Requests : Waits(requests[r], requests'[r])
           /\ CallsAgree'
<1> DEFINE Leaves(r) == calls[r] # None /\ AccountOf(next) # AccountOf(session)
                            /\ session # None /\ calls[r].asked = session.account
<1>1. calls \in CallTable /\ \A r \in Requests :
          /\ Waits(requests[r], calls[r])
          /\ calls[r] # None => CallAgrees(calls[r])
  BY DEF Follow
<1>2. /\ requests' = [r \in Requests |-> requests'[r]] /\ DOMAIN requests' = Requests
      /\ \A r \in Requests :
            requests'[r] = IF Leaves(r) THEN [calls[r] EXCEPT !.released = TRUE] ELSE calls[r]
  BY DEF Becomes, Released
<1>3. /\ generation \in Nat /\ generation' = generation + 1 /\ session' = next
      /\ epoch \in Nat
      /\ epoch' = IF AccountOf(next) = AccountOf(session) THEN epoch ELSE epoch + 1
  BY SessionAssumption DEF Becomes, SessionInv, TypeOK, Transitions
<1>4. ASSUME NEW r \in Requests
      PROVE  /\ requests'[r] \in {None} \cup Calls
             /\ Waits(requests[r], requests'[r])
             /\ requests'[r] # None => CallAgrees(requests[r])'
  <2> DEFINE c == calls[r]
             d == requests[r]
  <2>1. CASE c = None
    BY <1>1, <1>2, <2>1
  <2>2. CASE c # None
    <3>1. c \in Calls /\ CallAgrees(c) /\ Waits(requests[r], c)
      BY <1>1, <2>2 DEF CallTable
    <3>2. /\ d' \in Calls /\ SameCall(c, d') /\ d'.phase = c.phase
          /\ d'.credential = c.credential /\ d'.applied = c.applied /\ d'.outcome = c.outcome
          /\ d'.released \in BOOLEAN
          /\ d'.released <=> (c.released \/ Leaves(r))
      <4>1. CASE ~Leaves(r)
        BY <1>2, <3>1, <4>1 DEF Calls, SameCall
      <4>2. CASE Leaves(r)
        <5>1. PICK v : v = TRUE
          OBVIOUS
        <5>2. d' = [c EXCEPT !.released = v] /\ v \in BOOLEAN /\ v
          BY <1>2, <4>2, <5>1
        <5> HIDE DEF c, d
        <5>3. /\ d' \in Calls /\ SameCall(c, d') /\ d'.phase = c.phase
              /\ d'.credential = c.credential /\ d'.applied = c.applied
              /\ d'.outcome = c.outcome /\ d'.released = v
          BY ONLY <3>1, <5>2 DEF Calls, SameCall
        <5> QED
          BY <4>2, <5>2, <5>3
      <4> QED
        BY <4>1, <4>2
    <3>3. d' # None
      BY <3>2, NoneIsNoRecord
    <3>4. Waits(requests[r], d')
      BY <2>2, <3>1, <3>2, <3>3 DEF Waits
    <3>5. c.asked \in Accounts /\ c.opened \in Nat /\ c.waits \in Nat
      BY <3>1, SessionAssumption DEF Calls, Transitions
    <3>6. c.opened = epoch => session # None /\ c.asked = session.account /\ ~c.released
      BY <3>1, <3>5, SessionAssumption DEF CallAgrees, AccountOf
    <3>7. CASE AccountOf(next) = AccountOf(session)
      <4>1. ~Leaves(r) /\ epoch' = epoch /\ AccountOf(session') = AccountOf(session)
        BY <1>3, <3>7
      <4> HIDE DEF c, d, Leaves
      <4>2. CallAgrees(d)'
        BY <1>3, <3>1, <3>2, <3>5, <4>1 DEF CallAgrees, SameCall
      <4> QED
        BY <3>2, <3>4, <4>2 DEF d
    <3>8. CASE AccountOf(next) # AccountOf(session)
      <4>1. epoch' = epoch + 1 /\ c.opened <= epoch
        BY <1>3, <3>1, <3>8 DEF CallAgrees
      <4>2. c.released \/ Leaves(r)
        BY <2>2, <3>1, <3>6, <3>8 DEF CallAgrees
      <4> HIDE DEF c, d, Leaves
      <4>3. CallAgrees(d)'
        BY <1>3, <3>1, <3>2, <3>5, <4>1, <4>2 DEF CallAgrees, SameCall
      <4> QED
        BY <3>2, <3>4, <4>3 DEF d
    <3> QED
      BY <3>7, <3>8
  <2> QED
    BY <2>1, <2>2
<1> QED
  BY <1>2, <1>4 DEF CallTable, CallsAgree

\* Steps that leave the account and its transport session as they are.
LEMMA QuietFollows ==
    ASSUME SessionInv, NEW calls, Follow(calls), requests' = calls,
           AccountOf(session') = AccountOf(session), epoch' = epoch,
           generation' \in Nat, generation <= generation'
    PROVE  /\ requests' \in CallTable
           /\ \A r \in Requests : Waits(requests[r], requests'[r])
           /\ CallsAgree'
<1>1. calls \in CallTable /\ \A r \in Requests :
          /\ Waits(requests[r], calls[r])
          /\ calls[r] # None => CallAgrees(calls[r])
  BY DEF Follow
<1>2. generation \in Nat
  BY SessionAssumption DEF SessionInv, TypeOK, Transitions
<1>3. ASSUME NEW r \in Requests, requests'[r] # None
      PROVE  CallAgrees(requests[r])'
  <2>1. calls[r] \in Calls /\ CallAgrees(calls[r])
    BY <1>1, <1>3 DEF CallTable
  <2>2. calls[r].waits \in Nat
    BY <2>1, SessionAssumption DEF Calls, Transitions
  <2> QED
    BY <1>2, <2>1, <2>2 DEF CallAgrees
<1> QED
  BY <1>1, <1>3 DEF CallsAgree

--------
(* What a step does.                                                       *)

\* The step of LatestSignInWins, and of ServedForItsAccount.
Latest ==
    session' # None =>
        /\ lastOut' # 0 => session'.by > lastOut'
        /\ session'.by # (IF session = None THEN 0 ELSE session.by) => session'.by = lastIn

Served ==
    \A r \in Requests : requests'[r] # None =>
        /\ requests'[r].phase = "sent" /\ ~Calling(r, "sent")
              => AccountOf(session) = requests[r].asked
                 /\ requests[r].credential = requests[r].asked
        /\ requests'[r].outcome = "ok" /\ ~Calling(r, "over")
              => AccountOf(session) = requests[r].asked /\ ~requests[r].released

SessionKept == SessionInv' /\ Latest /\ Served

\* A step that neither sends nor answers a call serves nobody.
LEMMA WaitingServes ==
    ASSUME \A r \in Requests : Waits(requests[r], requests'[r])
    PROVE  Served
BY DEF Served, Waits, Calling

\* A transition's types.
LEMMA TransitionTypes ==
    ASSUME SessionInv, NEW next \in {None} \cup Sessions, NEW calls, Becomes(next, calls)
    PROVE  /\ session' = next /\ session' \in {None} \cup Sessions
           /\ generation \in Nat /\ generation' = generation + 1 /\ generation' \in Transitions
           /\ refreshing' = 0 /\ epoch' \in 0 .. generation'
BY SessionAssumption DEF Becomes, SessionInv, TypeOK, Transitions

\* The refreshes that a transition leaves behind are not of the new session.
LEMMA RefreshesLeft ==
    ASSUME SessionInv, refreshes' \subseteq refreshes, generation' = generation + 1
    PROVE  RefreshesAgree' /\ refreshes' \subseteq Refreshes
<1>1. generation \in Nat /\ \A f \in refreshes : f \in Refreshes /\ RefreshAgrees(f)
  BY SessionAssumption DEF SessionInv, TypeOK, RefreshesAgree, Transitions
<1>2. ASSUME NEW f \in refreshes PROVE RefreshAgrees(f)'
  <2>1. f.began \in Nat /\ f.began <= generation
    BY <1>1, SessionAssumption DEF RefreshAgrees, Refreshes, Transitions
  <2> QED
    BY <1>1, <2>1 DEF RefreshAgrees
<1> QED
  BY <1>1, <1>2 DEF RefreshesAgree

--------
(* Transitions.                                                            *)

LEMMA SignOutKept == ASSUME SessionInv, SignOut PROVE SessionKept
<1>1. Becomes(None, requests) /\ lastOut' = generation'
      /\ UNCHANGED <<refreshes, signIns, lastIn>>
  BY DEF SignOut
<1>2. /\ session' = None
      /\ generation \in Nat /\ generation' = generation + 1 /\ generation' \in Transitions
      /\ refreshing' = 0 /\ epoch' \in 0 .. generation'
  BY <1>1, TransitionTypes
<1>3. /\ requests' \in CallTable /\ CallsAgree'
      /\ \A r \in Requests : Waits(requests[r], requests'[r])
  BY <1>1, CallsFollow, TransitionFollows
<1>4. RefreshesAgree' /\ refreshes' \subseteq Refreshes
  BY <1>1, <1>2, RefreshesLeft
<1>5. TypeOK'
  BY <1>1, <1>2, <1>3, <1>4 DEF TypeOK, SessionInv, CallTable
<1>6. SignInsOrdered'
  <2>1. lastIn \in Nat /\ lastIn <= generation /\ \A s \in signIns : s.by \in Nat
    BY SessionAssumption DEF SessionInv, TypeOK, SignInsOrdered, SignIns, Transitions
  <2> QED
    BY <1>1, <1>2, <2>1 DEF SignInsOrdered, SessionInv
<1> QED
  BY <1>2, <1>3, <1>4, <1>5, <1>6, WaitingServes DEF SessionKept, Latest, SessionInv

LEMMA CompleteSignInKept ==
    ASSUME SessionInv, NEW s \in signIns, NEW a \in Accounts, CompleteSignIn(s, a)
    PROVE  SessionKept
<1> DEFINE next == [account |-> a, fresh |-> TRUE, by |-> s.by]
<1>1. /\ s \in SignIns /\ s.by \in Transitions /\ s.by = generation /\ s.by = lastIn
      /\ s.by # lastOut /\ lastOut < s.by /\ lastOut \in Nat
  <2>1. s \in SignIns /\ s.by \in Transitions /\ s.by = generation
    BY DEF CompleteSignIn, Owns, SessionInv, TypeOK, SignIns
  <2>2. /\ s.by <= lastIn /\ s.by # lastOut /\ lastIn <= generation /\ lastOut <= generation
        /\ lastIn \in Nat /\ lastOut \in Nat /\ generation \in Nat
    BY SessionAssumption DEF SessionInv, SignInsOrdered, TypeOK, Transitions
  <2> QED
    BY <2>1, <2>2
<1>2. next \in Sessions /\ next.by = s.by /\ next.account = a
  BY <1>1 DEF Sessions
<1>3. /\ Becomes(next, requests) /\ signIns' = signIns \ {s}
      /\ UNCHANGED <<refreshes, lastIn, lastOut>>
  BY DEF CompleteSignIn
<1> HIDE DEF next
<1>4. /\ session' = next /\ session' \in {None} \cup Sessions
      /\ generation \in Nat /\ generation' = generation + 1 /\ generation' \in Transitions
      /\ refreshing' = 0 /\ epoch' \in 0 .. generation'
  BY <1>2, <1>3, TransitionTypes
<1>5. /\ requests' \in CallTable /\ CallsAgree'
      /\ \A r \in Requests : Waits(requests[r], requests'[r])
  BY <1>2, <1>3, CallsFollow, TransitionFollows
<1>6. RefreshesAgree' /\ refreshes' \subseteq Refreshes
  BY <1>3, <1>4, RefreshesLeft
<1>7. TypeOK'
  BY <1>3, <1>4, <1>5, <1>6 DEF TypeOK, SessionInv, CallTable
<1>8. SignInsOrdered'
  <2>1. /\ lastIn \in Nat /\ lastIn <= generation
        /\ lastOut \in Nat /\ lastOut <= generation
    BY SessionAssumption DEF SessionInv, TypeOK, SignInsOrdered, Transitions
  <2>2. /\ \A t \in signIns' : 1 <= t.by /\ t.by <= lastIn' /\ t.by # lastOut'
        /\ lastIn' = lastIn /\ lastOut' = lastOut
    BY <1>3 DEF SignInsOrdered, SessionInv
  <2>3. session'.by > lastOut'
    BY <1>1, <1>2, <1>4, <2>2
  <2>4. lastIn <= generation' /\ lastOut <= generation'
    BY <1>4, <2>1
  <2> QED
    BY <2>2, <2>3, <2>4 DEF SignInsOrdered
<1>9. Latest
  BY <1>1, <1>2, <1>3, <1>4 DEF Latest
<1> QED
  BY <1>5, <1>6, <1>7, <1>8, <1>9, WaitingServes DEF SessionKept, SessionInv

LEMMA RefreshAnsweredKept ==
    ASSUME SessionInv, NEW f \in refreshes, RefreshAnswered(f) PROVE SessionKept
<1> DEFINE next == [account |-> f.account, fresh |-> TRUE, by |-> f.by]
           calls == Settled(f.began, f.account, "none")
<1>1. /\ f.account \in Accounts /\ f.by \in Transitions
      /\ session # None /\ session.account = f.account /\ session.by = f.by
      /\ Owns(f.began)
  BY DEF RefreshAnswered, Owns, SessionInv, TypeOK, RefreshesAgree, RefreshAgrees, Refreshes
<1>2. next \in Sessions /\ next.by = f.by
  BY <1>1 DEF Sessions
<1>3. /\ Becomes(next, calls) /\ refreshes' = refreshes \ {f}
      /\ UNCHANGED <<signIns, lastIn, lastOut>>
  BY DEF RefreshAnswered, EndRefresh
<1>4. Follow(calls)
  BY <1>1, SettledFollow
<1> HIDE DEF next, calls
<1>5. /\ session' = next /\ session' \in {None} \cup Sessions
      /\ generation \in Nat /\ generation' = generation + 1 /\ generation' \in Transitions
      /\ refreshing' = 0 /\ epoch' \in 0 .. generation'
  BY <1>2, <1>3, TransitionTypes
<1>6. /\ requests' \in CallTable /\ CallsAgree'
      /\ \A r \in Requests : Waits(requests[r], requests'[r])
  BY <1>2, <1>3, <1>4, TransitionFollows
<1>7. RefreshesAgree' /\ refreshes' \subseteq Refreshes
  BY <1>3, <1>5, RefreshesLeft
<1>8. TypeOK'
  BY <1>3, <1>5, <1>6, <1>7 DEF TypeOK, SessionInv, CallTable
<1>9. SignInsOrdered' /\ Latest
  <2>1. /\ lastIn \in Nat /\ lastOut \in Nat /\ lastIn <= generation /\ lastOut <= generation
        /\ lastOut # 0 => f.by > lastOut
    BY <1>1, SessionAssumption DEF SessionInv, TypeOK, SignInsOrdered, Transitions
  <2>2. lastIn <= generation' /\ lastOut <= generation'
    BY <1>5, <2>1
  <2>3. session'.by = f.by
    BY <1>2, <1>5
  <2> QED
    BY <1>1, <1>3, <2>1, <2>2, <2>3 DEF SignInsOrdered, Latest, SessionInv
<1> QED
  BY <1>6, <1>7, <1>8, <1>9, WaitingServes DEF SessionKept, SessionInv

LEMMA RefreshRefusedKept ==
    ASSUME SessionInv, NEW f \in refreshes, RefreshRefused(f) PROVE SessionKept
<1> DEFINE calls == Settled(f.began, None, "unauthorized")
<1>1. /\ Becomes(None, calls) /\ refreshes' = refreshes \ {f}
      /\ UNCHANGED <<signIns, lastIn, lastOut>>
  BY DEF RefreshRefused, EndRefresh
<1>2. Follow(calls)
  BY SettledFollow
<1> HIDE DEF calls
<1>3. /\ session' = None
      /\ generation \in Nat /\ generation' = generation + 1 /\ generation' \in Transitions
      /\ refreshing' = 0 /\ epoch' \in 0 .. generation'
  BY <1>1, TransitionTypes
<1>4. /\ requests' \in CallTable /\ CallsAgree'
      /\ \A r \in Requests : Waits(requests[r], requests'[r])
  BY <1>1, <1>2, TransitionFollows
<1>5. RefreshesAgree' /\ refreshes' \subseteq Refreshes
  BY <1>1, <1>3, RefreshesLeft
<1>6. TypeOK'
  BY <1>1, <1>3, <1>4, <1>5 DEF TypeOK, SessionInv, CallTable
<1>7. SignInsOrdered'
  <2>1. lastIn \in Nat /\ lastOut \in Nat /\ lastIn <= generation /\ lastOut <= generation
    BY SessionAssumption DEF SessionInv, TypeOK, SignInsOrdered, Transitions
  <2>2. lastIn <= generation' /\ lastOut <= generation'
    BY <1>3, <2>1
  <2> QED
    BY <1>1, <1>3, <2>2 DEF SignInsOrdered, SessionInv
<1> QED
  BY <1>3, <1>4, <1>5, <1>6, <1>7, WaitingServes DEF SessionKept, Latest, SessionInv

--------
(* Steps within a transition.                                              *)

\* A refresh that ended without a transition leaves its slot, if it held it.
LEMMA RefreshOver ==
    ASSUME SessionInv, NEW f \in refreshes, EndRefresh(f), refreshing' = Slot(f),
           NEW failure \in {"unauthorized", "unavailable"},
           requests' = Settled(f.began, None, failure),
           UNCHANGED <<session, generation, epoch>>
    PROVE  SessionKept
<1>1. generation \in Nat /\ refreshes' = refreshes \ {f} /\ UNCHANGED <<signIns, lastIn, lastOut>>
  BY SessionAssumption DEF EndRefresh, SessionInv, TypeOK, Transitions
<1>2. Follow(Settled(f.began, None, failure))
  BY SettledFollow
<1>3. /\ requests' \in CallTable /\ CallsAgree'
      /\ \A r \in Requests : Waits(requests[r], requests'[r])
  BY <1>1, <1>2, QuietFollows
<1>4. refreshing' \in {g.began : g \in refreshes'} \cup {0}
  BY <1>1 DEF Slot, SessionInv, TypeOK
<1>5. TypeOK'
  BY <1>1, <1>3, <1>4 DEF TypeOK, SessionInv, CallTable
<1>6. RefreshesAgree' /\ SignInsOrdered'
  BY <1>1 DEF SessionInv, RefreshesAgree, RefreshAgrees, SignInsOrdered
<1>7. Latest
  BY <1>1 DEF Latest, SessionInv, SignInsOrdered
<1> QED
  BY <1>3, <1>5, <1>6, <1>7, WaitingServes DEF SessionKept, SessionInv

LEMMA RefreshQuietKept ==
    ASSUME SessionInv, NEW f \in refreshes, RefreshDropped(f) \/ RefreshUnreachable(f)
    PROVE  SessionKept
BY RefreshOver DEF RefreshDropped, RefreshUnreachable

LEMMA SignInQuietKept ==
    ASSUME SessionInv,
           BeginSignIn \/ (\E s \in signIns : DropSignIn(s) \/ ContinueSignIn(s)) \/ Expire
    PROVE  SessionKept
<1>1. /\ generation \in Nat /\ lastIn \in Nat /\ lastOut \in Nat
      /\ lastIn <= generation /\ lastOut <= generation
  BY SessionAssumption DEF SessionInv, TypeOK, SignInsOrdered, Transitions
<1>2. Follow(requests)
  BY CallsFollow
<1>3. /\ generation' \in Transitions /\ generation <= generation' /\ generation' \in Nat
      /\ requests' = requests /\ epoch' = epoch
      /\ UNCHANGED <<refreshing, refreshes, lastOut>>
      /\ generation' # generation => generation' = generation + 1
  BY <1>1, SessionAssumption
     DEF BeginSignIn, DropSignIn, ContinueSignIn, Expire, Transitions, SessionInv, TypeOK
<1>4. /\ session' \in {None} \cup Sessions
      /\ session' = None <=> session = None
      /\ AccountOf(session') = AccountOf(session)
      /\ session # None => session'.by = session.by /\ session'.account = session.account
  <2>1. CASE session' = session
    BY <2>1 DEF SessionInv, TypeOK
  <2>2. CASE Expire
    <3>1. PICK v : v = FALSE
      OBVIOUS
    <3>2. session \in Sessions /\ session' = [session EXCEPT !.fresh = v] /\ v \in BOOLEAN
      BY <2>2, <3>1 DEF Expire, SessionInv, TypeOK
    <3>3. session' \in Sessions /\ session'.by = session.by /\ session'.account = session.account
      BY ONLY <3>2 DEF Sessions
    <3>4. session # None /\ session' # None
      BY <3>2, <3>3, NoneIsNoRecord
    <3> QED
      BY <3>3, <3>4 DEF AccountOf
  <2> QED
    BY <2>1, <2>2 DEF BeginSignIn, DropSignIn, ContinueSignIn
<1>5. /\ requests' \in CallTable /\ CallsAgree'
      /\ \A r \in Requests : Waits(requests[r], requests'[r])
  BY <1>2, <1>3, <1>4, QuietFollows
<1>6. RefreshesAgree'
  <2>1. \A f \in refreshes : f.began \in Nat /\ RefreshAgrees(f)
    BY SessionAssumption DEF SessionInv, TypeOK, RefreshesAgree, Refreshes, Transitions
  <2> QED
    BY <1>1, <1>3, <1>4, <2>1 DEF RefreshesAgree, RefreshAgrees
<1>7. /\ signIns' \subseteq SignIns /\ lastIn' \in Transitions /\ lastIn' <= generation'
      /\ lastIn <= lastIn'
      /\ \A s \in signIns' : 1 <= s.by /\ s.by <= lastIn' /\ s.by # lastOut
  <2>1. CASE BeginSignIn
    <3>1. \A s \in signIns : s \in SignIns /\ s.by \in Nat /\ 1 <= s.by /\ s.by <= lastIn /\ s.by # lastOut
      BY SessionAssumption DEF SessionInv, TypeOK, SignInsOrdered, SignIns, Transitions
    <3>2. lastIn' = generation' /\ generation' = generation + 1
      BY <2>1 DEF BeginSignIn
    <3> DEFINE s == [by |-> generation', phase |-> "prompt"]
    <3>3. s \in SignIns /\ s.by = generation' /\ signIns' = signIns \cup {s}
      BY <1>3, <2>1 DEF BeginSignIn, SignIns
    <3> HIDE DEF s
    <3> QED
      BY <1>1, <1>3, <3>1, <3>2, <3>3
  <2>2. CASE \E s \in signIns : DropSignIn(s)
    BY <1>1, <2>2 DEF DropSignIn, SessionInv, TypeOK, SignInsOrdered
  <2>3. ASSUME NEW s \in signIns, ContinueSignIn(s)
        PROVE  /\ signIns' \subseteq SignIns /\ UNCHANGED <<lastIn, generation>>
               /\ \A t \in signIns' : 1 <= t.by /\ t.by <= lastIn /\ t.by # lastOut
    <3>1. PICK phase \in {"provider", "newPassword", "respond"} :
              signIns' = (signIns \ {s}) \cup {[s EXCEPT !.phase = phase]}
      BY <2>3 DEF ContinueSignIn, SessionInv, TypeOK, SignIns
    <3> DEFINE t == [s EXCEPT !.phase = phase]
    <3>2. t \in SignIns /\ t.by = s.by
      BY DEF SessionInv, TypeOK, SignIns
    <3> HIDE DEF t
    <3> QED
      BY <2>3, <3>1, <3>2 DEF ContinueSignIn, SessionInv, TypeOK, SignInsOrdered, t
  <2>4. CASE Expire
    BY <1>1, <2>4 DEF Expire, SessionInv, TypeOK, SignInsOrdered
  <2> QED
    BY <1>1, <2>1, <2>2, <2>3, <2>4 DEF SessionInv, TypeOK
<1>8. TypeOK'
  <2>1. epoch' \in 0 .. generation'
    BY <1>1, <1>3 DEF SessionInv, TypeOK
  <2> QED
    BY <1>3, <1>4, <1>5, <1>7, <2>1 DEF TypeOK, SessionInv, CallTable
<1>9. SignInsOrdered'
  BY <1>1, <1>3, <1>4, <1>7 DEF SignInsOrdered, SessionInv
<1>10. Latest
  BY <1>3, <1>4 DEF Latest, SessionInv, SignInsOrdered
<1> QED
  BY <1>5, <1>6, <1>8, <1>9, <1>10, WaitingServes DEF SessionKept, SessionInv

--------
(* The transport.                                                          *)

\* A step that replaces one call, and changes nothing the others rest on.
LEMMA OneCall ==
    ASSUME SessionInv, NEW r \in Requests, NEW c, c \in Calls, CallAgrees(c),
           requests' = [requests EXCEPT ![r] = c],
           UNCHANGED <<session, generation, epoch>>
    PROVE  requests' \in CallTable /\ CallsAgree'
<1>1. /\ requests \in CallTable /\ requests' \in CallTable
      /\ \A x \in Requests : requests'[x] = IF x = r THEN c ELSE requests[x]
  BY DEF SessionInv, TypeOK, CallTable
<1>2. ASSUME NEW x \in Requests, requests'[x] # None
      PROVE  CallAgrees(requests[x])'
  <2> DEFINE d == requests'[x]
  <2>1. CallAgrees(d)
    BY <1>1, <1>2 DEF SessionInv, CallsAgree
  <2> QED
    BY <2>1 DEF CallAgrees
<1> QED
  BY <1>1, <1>2 DEF CallsAgree

LEMMA CallKept ==
    ASSUME SessionInv, NEW r \in Requests, NEW c, c \in Calls, CallAgrees(c), Call(r, c)
    PROVE  SessionInv' /\ Latest /\ \A x \in Requests : requests'[x] = IF x = r THEN c ELSE requests[x]
<1>1. /\ requests' = [requests EXCEPT ![r] = c]
      /\ UNCHANGED <<session, generation, refreshing, refreshes, signIns, epoch, lastIn, lastOut>>
  BY DEF Call
<1>2. requests' \in CallTable /\ CallsAgree'
  BY <1>1, OneCall
<1>3. TypeOK' /\ RefreshesAgree' /\ SignInsOrdered'
  BY <1>1, <1>2
     DEF SessionInv, TypeOK, CallTable, RefreshesAgree, RefreshAgrees, SignInsOrdered
<1>4. Latest
  BY <1>1 DEF Latest, SessionInv, SignInsOrdered
<1> QED
  BY <1>1, <1>2, <1>3, <1>4 DEF SessionInv, TypeOK

\* Nobody else is served by a step that replaces one call.
LEMMA OnlyServes ==
    ASSUME NEW r \in Requests, NEW c,
           \A x \in Requests : requests'[x] = IF x = r THEN c ELSE requests[x],
           /\ c.phase = "sent" /\ ~Calling(r, "sent")
                => AccountOf(session) = requests[r].asked /\ requests[r].credential = requests[r].asked
           /\ c.outcome = "ok" /\ ~Calling(r, "over")
                => AccountOf(session) = requests[r].asked /\ ~requests[r].released,
           CallsAgree
    PROVE  Served
<1>1. \A x \in Requests : x # r /\ requests[x] # None =>
          /\ requests[x].phase = "sent" => Calling(x, "sent")
          /\ requests[x].outcome = "ok" => Calling(x, "over")
  BY DEF Calling, CallsAgree, CallAgrees
<1> QED
  BY <1>1 DEF Served

\* A call in a phase is a call, and agrees.
LEMMA CallFacts ==
    ASSUME SessionInv, NEW r \in Requests, NEW phase, Calling(r, phase)
    PROVE  /\ requests[r] \in Calls /\ CallAgrees(requests[r]) /\ requests[r].phase = phase
           /\ requests[r] # None
BY DEF SessionInv, TypeOK, CallsAgree, Calling

LEMMA OverFields ==
    ASSUME NEW r \in Requests, requests[r] \in Calls,
           NEW outcome \in {"none", "ok", "unauthorized", "unavailable"}
    PROVE  /\ Over(r, outcome) \in Calls /\ SameCall(requests[r], Over(r, outcome))
           /\ Over(r, outcome).phase = "over" /\ Over(r, outcome).outcome = outcome
           /\ Over(r, outcome).applied = requests[r].applied
           /\ Over(r, outcome).released = requests[r].released
           /\ Over(r, outcome).credential = requests[r].credential
BY DEF Calls, SameCall, Over

LEMMA SendKept == ASSUME SessionInv, NEW r \in Requests, Send(r) PROVE SessionKept
<1> DEFINE c == requests[r]
           d == IF MaySend(r) THEN [c EXCEPT !.phase = "sent"] ELSE Over(r, "unauthorized")
<1>1. c \in Calls /\ CallAgrees(c) /\ c.phase = "ready" /\ c # None /\ Call(r, d)
  BY CallFacts DEF Send
<1>2. /\ d \in Calls /\ SameCall(c, d)
      /\ d.applied = c.applied /\ d.released = c.released /\ d.credential = c.credential
      /\ \/ c.opened = epoch /\ d.phase = "sent" /\ d.outcome = c.outcome
         \/ d.phase = "over" /\ d.outcome = "unauthorized"
  <2>1. CASE MaySend(r)
    <3>1. d = [c EXCEPT !.phase = "sent"] /\ c.opened = epoch
      BY <2>1 DEF MaySend
    <3> HIDE DEF c, d
    <3>2. /\ d \in Calls /\ SameCall(c, d)
          /\ d.applied = c.applied /\ d.released = c.released /\ d.credential = c.credential
          /\ d.phase = "sent" /\ d.outcome = c.outcome
      BY ONLY <1>1, <3>1 DEF Calls, SameCall
    <3> QED
      BY <3>1, <3>2
  <2>2. CASE ~MaySend(r)
    <3>1. d = Over(r, "unauthorized")
      BY <2>2
    <3> HIDE DEF d
    <3> QED
      BY <1>1, <3>1, OverFields
  <2> QED
    BY <2>1, <2>2
<1> HIDE DEF c, d
<1>3. CallAgrees(d)
  BY <1>1, <1>2 DEF CallAgrees, SameCall
<1>4. SessionInv' /\ Latest /\ \A x \in Requests : requests'[x] = IF x = r THEN d ELSE requests[x]
  BY <1>1, <1>2, <1>3, CallKept
<1>5. /\ d.phase = "sent" /\ ~Calling(r, "sent")
            => AccountOf(session) = c.asked /\ c.credential = c.asked
      /\ d.outcome # "ok"
  BY <1>1, <1>2 DEF CallAgrees
<1> QED
  BY <1>4, <1>5, OnlyServes DEF SessionKept, SessionInv, c

LEMMA ServeKept == ASSUME SessionInv, NEW r \in Requests, Serve(r) PROVE SessionKept
<1> DEFINE c == requests[r]
           d == [c EXCEPT !.phase = "served", !.applied = TRUE]
<1>1. c \in Calls /\ CallAgrees(c) /\ c.phase = "sent" /\ c # None /\ Call(r, d)
  BY CallFacts DEF Serve
<1>2. /\ d \in Calls /\ SameCall(c, d) /\ d.phase = "served"
      /\ d.released = c.released /\ d.credential = c.credential /\ d.outcome = c.outcome
  <2>1. PICK v : v = TRUE
    OBVIOUS
  <2>2. d = [c EXCEPT !.phase = "served", !.applied = v] /\ v \in BOOLEAN
    BY <2>1
  <2> HIDE DEF c, d
  <2> QED
    BY ONLY <1>1, <2>2 DEF Calls, SameCall
<1> HIDE DEF c, d
<1>3. CallAgrees(d)
  BY <1>1, <1>2 DEF CallAgrees, SameCall
<1>4. SessionInv' /\ Latest /\ \A x \in Requests : requests'[x] = IF x = r THEN d ELSE requests[x]
  BY <1>1, <1>2, <1>3, CallKept
<1>5. d.phase # "sent" /\ d.outcome # "ok"
  BY <1>1, <1>2 DEF CallAgrees
<1> QED
  BY <1>4, <1>5, OnlyServes DEF SessionKept, SessionInv

LEMMA AnswerKept == ASSUME SessionInv, NEW r \in Requests, Answer(r) PROVE SessionKept
<1> DEFINE c == requests[r]
           outcome == IF MayAnswer(r) THEN "ok" ELSE "unauthorized"
           d == Over(r, outcome)
<1>1. c \in Calls /\ CallAgrees(c) /\ c.phase = "served" /\ c # None /\ Call(r, d)
  BY CallFacts DEF Answer
<1>2. /\ outcome \in {"ok", "unauthorized"}
      /\ outcome = "ok" => c.opened = epoch
      /\ outcome = "unauthorized" => c.opened # epoch
  BY DEF MayAnswer
<1> HIDE DEF outcome
<1>3. /\ d \in Calls /\ SameCall(c, d) /\ d.phase = "over" /\ d.outcome = outcome
      /\ d.applied = c.applied /\ d.released = c.released /\ d.credential = c.credential
  BY <1>1, <1>2, OverFields
<1> HIDE DEF c, d
<1>4. CallAgrees(d)
  BY <1>1, <1>2, <1>3 DEF CallAgrees, SameCall
<1>5. SessionInv' /\ Latest /\ \A x \in Requests : requests'[x] = IF x = r THEN d ELSE requests[x]
  BY <1>1, <1>3, <1>4, CallKept
<1>6. /\ d.phase # "sent"
      /\ d.outcome = "ok" => AccountOf(session) = c.asked /\ ~c.released
  BY <1>1, <1>2, <1>3 DEF CallAgrees
<1> QED
  BY <1>5, <1>6, OnlyServes DEF SessionKept, SessionInv, c

LEMMA LoseKept == ASSUME SessionInv, NEW r \in Requests, Lose(r) PROVE SessionKept
<1> DEFINE c == requests[r]
           d == Over(r, "unavailable")
<1>1. c \in Calls /\ CallAgrees(c) /\ c # None /\ Call(r, d)
  BY CallFacts DEF Lose
<1>2. /\ d \in Calls /\ SameCall(c, d) /\ d.phase = "over" /\ d.outcome = "unavailable"
      /\ d.applied = c.applied /\ d.released = c.released /\ d.credential = c.credential
  BY <1>1, OverFields
<1> HIDE DEF c, d
<1>3. CallAgrees(d)
  BY <1>1, <1>2 DEF CallAgrees, SameCall
<1>4. SessionInv' /\ Latest /\ \A x \in Requests : requests'[x] = IF x = r THEN d ELSE requests[x]
  BY <1>1, <1>2, <1>3, CallKept
<1>5. d.phase # "sent" /\ d.outcome # "ok"
  BY <1>2
<1> QED
  BY <1>4, <1>5, OnlyServes DEF SessionKept, SessionInv

\* token() of a new call: with the credential in hand, or waiting for the
\* refresh of the transition it belongs to.
LEMMA IssueKept == ASSUME SessionInv, NEW r \in Requests, Issue(r) PROVE SessionKept
<1> DEFINE slot == IF refreshing # 0 THEN refreshing ELSE generation
           c == [asked |-> session.account, opened |-> epoch, applied |-> FALSE,
                 released |-> FALSE, outcome |-> "none",
                 phase |-> IF session.fresh THEN "ready" ELSE "waiting",
                 credential |-> IF session.fresh THEN session.account ELSE None,
                 waits |-> IF session.fresh THEN 0 ELSE slot]
           f == [began |-> slot, account |-> session.account, by |-> session.by]
<1>1. /\ session \in Sessions /\ session # None /\ session.account \in Accounts
      /\ session.by \in Transitions /\ AccountOf(session) = session.account
      /\ requests[r] = None
  BY DEF Issue, SessionInv, TypeOK, Sessions, AccountOf
<1>2. /\ generation \in Nat /\ generation \in Transitions /\ epoch \in Nat /\ epoch \in Transitions
      /\ lastIn <= generation /\ lastOut <= generation
  BY SessionAssumption DEF SessionInv, TypeOK, Transitions, SignInsOrdered
<1>3. /\ refreshing \in Transitions /\ refreshing <= generation
      /\ refreshing # 0 => \E g \in refreshes : g.began = refreshing
  BY <1>2, SessionAssumption
     DEF SessionInv, TypeOK, RefreshesAgree, RefreshAgrees, Refreshes, Transitions
<1>4. slot \in Transitions /\ slot <= generation /\ 0 \in Transitions /\ 0 <= generation
  BY <1>2, <1>3, SessionAssumption DEF Transitions
<1>5. /\ requests' = [requests EXCEPT ![r] = c]
      /\ refreshing' = IF session.fresh THEN refreshing ELSE slot
      /\ refreshes' = IF session.fresh \/ refreshing # 0 THEN refreshes ELSE refreshes \cup {f}
      /\ UNCHANGED <<session, generation, signIns, epoch, lastIn, lastOut>>
  BY DEF Issue
<1>6. /\ f \in Refreshes /\ f.began = slot /\ f.account = session.account /\ f.by = session.by
  BY <1>1, <1>4 DEF Refreshes
<1>7. /\ c \in Calls /\ c.asked = session.account /\ c.opened = epoch /\ ~c.applied /\ ~c.released
      /\ c.outcome = "none" /\ c.waits <= generation
      /\ \/ c.phase = "ready" /\ c.credential = session.account
         \/ c.phase = "waiting"
  BY <1>1, <1>2, <1>4 DEF Calls
<1> HIDE DEF slot, c, f
<1>8. CallAgrees(c)
  BY <1>1, <1>2, <1>7 DEF CallAgrees
<1>9. requests' \in CallTable /\ CallsAgree'
  BY <1>5, <1>7, <1>8, OneCall
<1>10. refreshes' \subseteq Refreshes /\ RefreshesAgree'
  <2>1. \A g \in refreshes' : g \in Refreshes /\ RefreshAgrees(g)
    BY <1>1, <1>4, <1>5, <1>6 DEF SessionInv, TypeOK, RefreshesAgree, RefreshAgrees
  <2> QED
    BY <1>5, <2>1 DEF RefreshesAgree, RefreshAgrees
<1>11. refreshing' \in {g.began : g \in refreshes'} \cup {0}
  BY <1>3, <1>5, <1>6 DEF slot, SessionInv, TypeOK
<1>12. TypeOK' /\ SignInsOrdered'
  BY <1>5, <1>9, <1>10, <1>11 DEF SessionInv, TypeOK, CallTable, SignInsOrdered
<1>13. Latest
  BY <1>5 DEF Latest, SessionInv, SignInsOrdered
<1>14. Served
  <2>1. \A x \in Requests : requests'[x] = IF x = r THEN c ELSE requests[x]
    BY <1>5 DEF SessionInv, TypeOK
  <2> QED
    BY <1>7, <2>1, OnlyServes DEF SessionInv
<1> QED
  BY <1>9, <1>10, <1>12, <1>13, <1>14 DEF SessionKept, SessionInv

--------
(* The theorems of the session.                                            *)

LEMMA SessionInit == Init => SessionInv
<1> SUFFICES ASSUME Init PROVE SessionInv
  OBVIOUS
<1>1. 0 \in Transitions /\ 1 \in Transitions
  BY SessionAssumption DEF Transitions
<1>2. session \in {None} \cup Sessions
  BY <1>1 DEF Init, Sessions
<1>3. TypeOK
  BY <1>1, <1>2 DEF Init, TypeOK, Calls
<1> QED
  BY <1>3 DEF Init, SessionInv, CallsAgree, RefreshesAgree, SignInsOrdered

LEMMA SessionStep == SessionInv /\ [Next]_vars => SessionKept
<1> SUFFICES ASSUME SessionInv, [Next]_vars PROVE SessionKept
  OBVIOUS
<1>1. CASE UNCHANGED vars
  <2>1. SessionInv' /\ Latest
    BY <1>1 DEF vars, SessionInv, TypeOK, CallsAgree, CallAgrees, RefreshesAgree,
                RefreshAgrees, SignInsOrdered, Latest
  <2>2. \A r \in Requests : Waits(requests[r], requests'[r])
    BY <1>1, CallsFollow DEF Follow, vars
  <2> QED
    BY <2>1, <2>2, WaitingServes DEF SessionKept
<1>2. CASE SignIn
  BY <1>2, SignInQuietKept, CompleteSignInKept DEF SignIn
<1>3. CASE SignOut
  BY <1>3, SignOutKept
<1>4. CASE Expire
  BY <1>4, SignInQuietKept
<1>5. CASE Refresh
  BY <1>5, RefreshAnsweredKept, RefreshRefusedKept, RefreshQuietKept DEF Refresh
<1>6. CASE Transport
  BY <1>6, IssueKept, SendKept, ServeKept, AnswerKept, LoseKept DEF Transport
<1> QED
  BY <1>1, <1>2, <1>3, <1>4, <1>5, <1>6 DEF Next

\* Calls agree with the transport's session they were made in, refreshes with
\* the session they renew, and sign-ins with the transitions they follow.
THEOREM SessionInductive == Spec => []SessionInv
<1>1. Init => SessionInv
  BY SessionInit
<1>2. SessionInv /\ [Next]_vars => SessionInv'
  BY SessionStep DEF SessionKept
<1> QED
  BY <1>1, <1>2, PTL DEF Spec

\* The types of the session's state, for any number of calls.
THEOREM SessionTypes == Spec => []TypeOK
BY SessionInductive, PTL DEF SessionInv

\* Whoever still observes an operation is not told that it was refused once
\* the server applied it: the transport refuses only what it never sent and
\* the answers of an account that left, whose operations were released with it
\* (client.ts, browser-authentication.ts).
THEOREM RefusalsAreTrue == Spec => []NoFalseRefusal
<1>1. SessionInv => NoFalseRefusal
  BY DEF SessionInv, CallsAgree, CallAgrees, NoFalseRefusal
<1> QED
  BY <1>1, SessionInductive, PTL

\* The page serves the latest sign-in, and only the account of it: no answer
\* to an earlier sign-in or refresh brings a session back, and a call is sent
\* and answered only for the account that made it.
THEOREM LatestServed == Spec => ServesTheLatest
<1>1. SessionInv /\ [Next]_vars => [Latest]_vars /\ [Served]_vars
  BY SessionStep DEF SessionKept
<1>2. Spec => [][Latest]_vars /\ [][Served]_vars
  BY <1>1, SessionInductive, PTL DEF Spec
<1> QED
  BY <1>2 DEF ServesTheLatest, LatestSignInWins, ServedForItsAccount, Latest, Served

--------
(* Recognition.                                                            *)

PipelineStates ==
    [preparation : {"none", "running", "ready", "failed"},
     initiator : {"none", "waiting", "resolved", "rejected", "done"},
     aborted : BOOLEAN, released : Nat, active : Attempts \cup {NoSession}]

AttemptStates ==
    [of : Pipelines \cup {NoSession}, stage : {"none", "waiting", "inferring", "draining", "done"},
     aborted : BOOLEAN, outcomes : Nat, mapping : BOOLEAN, revision : Nat,
     initial : {"none", "waits", "delivered", "rejected"}, finished : BOOLEAN]

Shapes ==
    /\ sessions \in Pipelines \cup {NoSession}
    /\ pipelines \in [Pipelines -> PipelineStates]
    /\ joiners \in [Joiners -> Pipelines \cup {NoSession}]
    /\ attempts \in [Attempts -> AttemptStates]

\* The registered session's pipeline is in use; any other that was used is
\* released.
PipelineAgrees(p, c) ==
    /\ c.preparation = "none" => c = Unused
    /\ sessions = p => c.preparation # "none" /\ ~c.aborted /\ c.released = 0
    /\ sessions # p /\ c.preparation # "none" => c.released = 1

\* An attempt that runs holds its pipeline, and is finished with its session.
AttemptAgrees(a, c) ==
    /\ c.stage = "none" => c = NotBegun
    /\ c.stage # "none" => c.of \in Pipelines
    /\ c.stage \notin {"none", "done"} =>
          /\ pipelines[c.of].active = a
          /\ pipelines[c.of].aborted => c.finished
    /\ c.finished => c.initial # "waits"
    /\ c.outcomes > 0 => c.stage \in {"inferring", "draining"}
    /\ c.mapping => c.outcomes > 0

RecognitionInv ==
    /\ Shapes
    /\ \A p \in Pipelines : PipelineAgrees(p, pipelines[p])
    /\ \A a \in Attempts : AttemptAgrees(a, attempts[a])

\* What a step does to an attempt: what was answered or completed stays, and
\* an inference begins only on a pipeline that was not released.
Goes(c, d) ==
    /\ c.finished => d.finished /\ d.revision = c.revision
    /\ c.initial \in {"delivered", "rejected"} => d.initial = c.initial
    /\ d.stage = "inferring" =>
          \/ c.stage = "inferring" /\ c.of = d.of
          \/ pipelines[d.of].released = 0

Proceeds == RecognitionInv' /\ \A a \in Attempts : Goes(attempts[a], attempts'[a])

LEMMA GoesStill == ASSUME NEW c PROVE Goes(c, c)
BY DEF Goes

\* A step that replaces one attempt, and leaves the sessions as they are.
LEMMA OneAttempt ==
    ASSUME RecognitionInv, NEW a \in Attempts, NEW d \in AttemptStates,
           AttemptAgrees(a, d), Goes(attempts[a], d),
           attempts' = [attempts EXCEPT ![a] = d],
           UNCHANGED <<sessions, pipelines, joiners>>
    PROVE  Proceeds
<1>1. /\ attempts' \in [Attempts -> AttemptStates]
      /\ \A b \in Attempts : attempts'[b] = IF b = a THEN d ELSE attempts[b]
  BY DEF RecognitionInv, Shapes
<1>2. Shapes'
  BY <1>1 DEF RecognitionInv, Shapes
<1>3. ASSUME NEW p \in Pipelines PROVE PipelineAgrees(p, pipelines[p])'
  BY DEF RecognitionInv, PipelineAgrees
<1>4. ASSUME NEW b \in Attempts PROVE AttemptAgrees(b, attempts[b])' /\ Goes(attempts[b], attempts'[b])
  <2> DEFINE e == attempts'[b]
  <2>1. AttemptAgrees(b, e) /\ Goes(attempts[b], e)
    BY <1>1, GoesStill DEF RecognitionInv
  <2> QED
    BY <2>1 DEF AttemptAgrees
<1> QED
  BY <1>2, <1>3, <1>4 DEF Proceeds, RecognitionInv

\* A step that replaces one pipeline and keeps who runs on it, and which of
\* them its session's end reached.
LEMMA OnePipeline ==
    ASSUME RecognitionInv, NEW p \in Pipelines, NEW d \in PipelineStates,
           d.active = pipelines[p].active, d.aborted = pipelines[p].aborted,
           d.preparation # "none",
           sessions' = p => ~d.aborted /\ d.released = 0,
           sessions' # p => d.released = 1,
           sessions' \in Pipelines \cup {NoSession},
           sessions' # sessions => sessions \in {p, NoSession} /\ sessions' \in {p, NoSession},
           pipelines' = [pipelines EXCEPT ![p] = d],
           UNCHANGED <<joiners, attempts>>
    PROVE  Proceeds
<1>1. /\ pipelines' \in [Pipelines -> PipelineStates]
      /\ \A q \in Pipelines : pipelines'[q] = IF q = p THEN d ELSE pipelines[q]
  BY DEF RecognitionInv, Shapes
<1>2. Shapes'
  BY <1>1 DEF RecognitionInv, Shapes
<1>3. ASSUME NEW q \in Pipelines PROVE PipelineAgrees(q, pipelines[q])'
  <2>1. CASE q = p
    BY <1>1, <2>1 DEF PipelineAgrees
  <2>2. CASE q # p
    <3>1. sessions' = q <=> sessions = q
      BY <2>2, PipelinesAreNumbers
    <3>2. PipelineAgrees(q, pipelines[q]) /\ pipelines'[q] = pipelines[q]
      BY <1>1, <2>2 DEF RecognitionInv
    <3> QED
      BY <3>1, <3>2 DEF PipelineAgrees
  <2> QED
    BY <2>1, <2>2
<1>4. ASSUME NEW b \in Attempts PROVE AttemptAgrees(b, attempts[b])'
  <2>1. \A q \in Pipelines : /\ pipelines'[q].active = pipelines[q].active
                             /\ pipelines'[q].aborted = pipelines[q].aborted
    BY <1>1
  <2> QED
    BY <2>1 DEF RecognitionInv, AttemptAgrees
<1> QED
  BY <1>2, <1>3, <1>4, GoesStill DEF Proceeds, RecognitionInv

\* A cancelled attempt is finished and answered, and otherwise the same.
LEMMA CancelledFields ==
    ASSUME NEW c \in AttemptStates, c.finished => c.initial # "waits"
    PROVE  LET e == Cancelled(c)
           IN  /\ e \in AttemptStates /\ e.of = c.of /\ e.stage = c.stage
               /\ e.outcomes = c.outcomes /\ e.mapping = c.mapping /\ e.revision = c.revision
               /\ e.finished /\ e.initial # "waits"
               /\ c.initial \in {"delivered", "rejected"} => e.initial = c.initial
<1> DEFINE e == Cancelled(c)
<1>1. CASE ~c.finished
  <2>1. PICK v : v = TRUE
    OBVIOUS
  <2>2. PICK first \in {"none", "waits", "delivered", "rejected"} :
            first = IF c.initial = "waits" THEN "rejected" ELSE c.initial
    BY DEF AttemptStates
  <2>3. e = [c EXCEPT !.finished = v, !.initial = first] /\ v \in BOOLEAN
    BY <1>1, <2>1, <2>2 DEF Cancelled
  <2> HIDE DEF e
  <2>4. /\ e \in AttemptStates /\ e.of = c.of /\ e.stage = c.stage
        /\ e.outcomes = c.outcomes /\ e.mapping = c.mapping /\ e.revision = c.revision
        /\ e.finished = v /\ e.initial = first
    BY ONLY <2>2, <2>3, c \in AttemptStates DEF AttemptStates
  <2> QED
    BY <2>1, <2>2, <2>4 DEF e
<1>2. CASE c.finished
  BY <1>2 DEF Cancelled
<1> QED
  BY <1>1, <1>2

\* The end of a session reaches the attempts that run on it.
LEMMA SessionEnds ==
    ASSUME RecognitionInv, NEW p \in Pipelines, NEW d \in PipelineStates,
           d.active = pipelines[p].active, d.preparation # "none", d.released = 1,
           sessions = p, sessions' = NoSession,
           pipelines' = [pipelines EXCEPT ![p] = d],
           attempts' = SessionAborted(p), UNCHANGED joiners
    PROVE  Proceeds
<1>1. /\ pipelines' \in [Pipelines -> PipelineStates]
      /\ \A q \in Pipelines : pipelines'[q] = IF q = p THEN d ELSE pipelines[q]
  BY DEF RecognitionInv, Shapes
<1>2. /\ attempts' = [a \in Attempts |-> attempts'[a]]
      /\ \A a \in Attempts : attempts'[a] = IF Running(attempts[a], p) THEN Cancelled(attempts[a])
                                            ELSE attempts[a]
  BY DEF SessionAborted
<1>3. ASSUME NEW a \in Attempts
      PROVE  /\ attempts'[a] \in AttemptStates /\ Goes(attempts[a], attempts'[a])
             /\ AttemptAgrees(a, attempts[a])'
  <2> DEFINE c == attempts[a]
             e == attempts'[a]
  <2>1. c \in AttemptStates /\ AttemptAgrees(a, c)
    BY DEF RecognitionInv, Shapes
  <2>2. /\ e \in AttemptStates /\ e.of = c.of /\ e.stage = c.stage
        /\ e.outcomes = c.outcomes /\ e.mapping = c.mapping /\ e.revision = c.revision
        /\ c.finished => e.finished
        /\ e.finished => e.initial # "waits"
        /\ c.initial \in {"delivered", "rejected"} => e.initial = c.initial
        /\ Running(c, p) => e.finished
        /\ c.stage = "none" => e = c
    <3>1. CASE Running(c, p)
      BY <1>2, <2>1, <3>1, CancelledFields DEF AttemptAgrees, Running
    <3>2. CASE ~Running(c, p)
      BY <1>2, <2>1, <3>2 DEF AttemptAgrees
    <3> QED
      BY <3>1, <3>2
  <2> HIDE DEF c, e
  <2>3. Goes(c, e)
    BY <2>1, <2>2 DEF Goes
  <2>4. /\ e.stage \notin {"none", "done"} =>
              /\ pipelines'[e.of].active = a
              /\ pipelines'[e.of].aborted => e.finished
    BY <1>1, <2>1, <2>2 DEF AttemptAgrees, Running
  <2>5. AttemptAgrees(a, attempts[a])'
    BY <2>1, <2>2, <2>4 DEF AttemptAgrees, e
  <2> QED
    BY <2>2, <2>3, <2>5 DEF c, e
<1>4. Shapes'
  BY <1>1, <1>2, <1>3 DEF RecognitionInv, Shapes
<1>5. ASSUME NEW q \in Pipelines PROVE PipelineAgrees(q, pipelines[q])'
  BY <1>1, PipelinesAreNumbers DEF RecognitionInv, PipelineAgrees
<1> QED
  BY <1>3, <1>4, <1>5 DEF Proceeds, RecognitionInv

LEMMA PipelineFacts ==
    ASSUME RecognitionInv, NEW p \in Pipelines
    PROVE  /\ pipelines[p] \in PipelineStates /\ PipelineAgrees(p, pipelines[p])
           /\ Unused \in PipelineStates /\ Unused.preparation = "none"
           /\ Unused.active = NoSession /\ Unused.aborted = FALSE /\ Unused.released = 0
BY DEF RecognitionInv, Shapes, Unused, PipelineStates

LEMMA PrepareKept == ASSUME RecognitionInv, NEW p \in Pipelines, Prepare(p) PROVE Proceeds
<1> DEFINE d == [Unused EXCEPT !.preparation = "running", !.initiator = "waiting"]
<1>1. /\ sessions = NoSession /\ pipelines[p] = Unused /\ sessions' = p
      /\ pipelines' = [pipelines EXCEPT ![p] = d] /\ UNCHANGED <<joiners, attempts>>
  BY DEF Prepare
<1>2. /\ d \in PipelineStates /\ d.preparation = "running" /\ d.active = Unused.active
      /\ d.aborted = Unused.aborted /\ d.released = Unused.released
  BY PipelineFacts DEF PipelineStates
<1> HIDE DEF d
<1> QED
  BY <1>1, <1>2, PipelineFacts, OnePipeline

LEMMA SettleKept ==
    ASSUME RecognitionInv, NEW p \in Pipelines, NEW outcome \in {"ready", "failed"},
           Settle(p, outcome)
    PROVE  Proceeds
<1> DEFINE c == pipelines[p]
           d == [c EXCEPT !.preparation = outcome]
<1>1. c \in PipelineStates /\ PipelineAgrees(p, c) /\ c.preparation = "running"
  BY PipelineFacts DEF Settle
<1>2. /\ pipelines' = [pipelines EXCEPT ![p] = d] /\ UNCHANGED <<sessions, joiners, attempts>>
  BY DEF Settle
<1> HIDE DEF c, d
<1>3. /\ d \in PipelineStates /\ d.preparation = outcome /\ d.active = c.active
      /\ d.aborted = c.aborted /\ d.released = c.released
  BY <1>1 DEF PipelineStates, d
<1>4. /\ sessions = p => ~d.aborted /\ d.released = 0
      /\ sessions # p => d.released = 1
      /\ d.preparation # "none"
  BY <1>1, <1>3 DEF PipelineAgrees
<1>5. sessions \in Pipelines \cup {NoSession}
  BY DEF RecognitionInv, Shapes
<1> QED
  BY <1>2, <1>3, <1>4, <1>5, OnePipeline DEF c

LEMMA WatchSettlesKept ==
    ASSUME RecognitionInv, NEW p \in Pipelines, WatchSettles(p) PROVE Proceeds
<1> DEFINE c == pipelines[p]
<1>1. c \in PipelineStates /\ PipelineAgrees(p, c) /\ c.initiator = "waiting"
  BY PipelineFacts DEF WatchSettles
<1>2. PICK initiator \in {"resolved", "rejected"} :
          /\ pipelines' = [pipelines EXCEPT ![p] = [c EXCEPT !.initiator = initiator]]
          /\ UNCHANGED <<sessions, joiners, attempts>>
  BY DEF WatchSettles
<1> DEFINE d == [c EXCEPT !.initiator = initiator]
<1>3. c.preparation # "none"
  BY <1>1 DEF PipelineAgrees, Unused
<1> HIDE DEF c, d
<1>4. /\ d \in PipelineStates /\ d.preparation = c.preparation /\ d.active = c.active
      /\ d.aborted = c.aborted /\ d.released = c.released
  BY <1>1 DEF PipelineStates, d
<1>5. /\ sessions = p => ~d.aborted /\ d.released = 0
      /\ sessions # p => d.released = 1
      /\ d.preparation # "none"
  BY <1>1, <1>3, <1>4 DEF PipelineAgrees
<1>6. sessions \in Pipelines \cup {NoSession}
  BY DEF RecognitionInv, Shapes
<1> QED
  BY <1>2, <1>4, <1>5, <1>6, OnePipeline DEF c, d

LEMMA InitiatorContinuesKept ==
    ASSUME RecognitionInv, NEW p \in Pipelines, InitiatorContinues(p) PROVE Proceeds
<1> DEFINE c == pipelines[p]
           ends == c.initiator = "rejected" /\ sessions = p
<1>1. /\ c \in PipelineStates /\ PipelineAgrees(p, c) /\ c.initiator \in {"resolved", "rejected"}
  BY PipelineFacts DEF InitiatorContinues
<1>2. c.preparation # "none" /\ c.released \in Nat
  BY <1>1 DEF PipelineAgrees, Unused, PipelineStates
<1>3. PICK n \in Nat : n = IF ends THEN c.released + 1 ELSE c.released
  BY <1>2
<1> DEFINE d == [c EXCEPT !.initiator = "done", !.released = n]
<1>4. /\ pipelines' = [pipelines EXCEPT ![p] = d]
      /\ sessions' = IF ends THEN NoSession ELSE sessions
      /\ UNCHANGED <<joiners, attempts>>
  <2>1. d = [c EXCEPT !.initiator = "done",
                      !.released = IF ends THEN c.released + 1 ELSE c.released]
    BY <1>3
  <2>2. /\ pipelines' = [pipelines EXCEPT ![p] =
              [c EXCEPT !.initiator = "done",
                        !.released = IF ends THEN c.released + 1 ELSE c.released]]
        /\ sessions' = IF ends THEN NoSession ELSE sessions
        /\ UNCHANGED <<joiners, attempts>>
    BY DEF InitiatorContinues, Ends
  <2> HIDE DEF d, c, ends
  <2> QED
    BY <2>1, <2>2
<1> HIDE DEF c, d
<1>5. /\ d \in PipelineStates /\ d.preparation = c.preparation /\ d.active = c.active
      /\ d.aborted = c.aborted /\ d.released = n
  BY ONLY <1>1, <1>3 DEF PipelineStates, d
<1>6. sessions \in Pipelines \cup {NoSession} /\ NoSession # p
  BY PipelinesAreNumbers DEF RecognitionInv, Shapes
<1>7. /\ sessions' = p => ~d.aborted /\ d.released = 0
      /\ sessions' # p => d.released = 1
      /\ d.preparation # "none"
  BY <1>1, <1>2, <1>3, <1>4, <1>5, <1>6 DEF PipelineAgrees
<1>8. sessions' # sessions => sessions \in {p, NoSession} /\ sessions' \in {p, NoSession}
  BY <1>4
<1> QED
  BY <1>4, <1>5, <1>6, <1>7, <1>8, OnePipeline DEF c

LEMMA InitiatorAbortsKept ==
    ASSUME RecognitionInv, NEW p \in Pipelines, InitiatorAborts(p) PROVE Proceeds
<1> DEFINE c == pipelines[p]
<1>1. /\ c \in PipelineStates /\ PipelineAgrees(p, c) /\ sessions = p
  BY PipelineFacts DEF InitiatorAborts
<1>2. c.preparation # "none" /\ c.released = 0
  BY <1>1 DEF PipelineAgrees
<1>3. PICK initiator \in {"none", "waiting", "resolved", "rejected", "done"} :
          initiator = IF c.initiator = "waiting" THEN "rejected" ELSE c.initiator
  BY <1>1 DEF PipelineStates
<1>4. PICK v : v = TRUE
  OBVIOUS
<1> DEFINE d == [c EXCEPT !.aborted = v, !.released = 1, !.initiator = initiator]
<1>5. /\ pipelines' = [pipelines EXCEPT ![p] = d] /\ sessions' = NoSession
      /\ attempts' = SessionAborted(p) /\ UNCHANGED joiners
  <2>1. d = [c EXCEPT !.aborted = TRUE, !.released = c.released + 1,
                      !.initiator = IF c.initiator = "waiting" THEN "rejected" ELSE c.initiator]
    BY <1>2, <1>3, <1>4
  <2>2. pipelines' = [pipelines EXCEPT ![p] =
            [c EXCEPT !.aborted = TRUE, !.released = c.released + 1,
                      !.initiator = IF c.initiator = "waiting" THEN "rejected" ELSE c.initiator]]
    BY DEF InitiatorAborts
  <2>3. sessions' = NoSession /\ attempts' = SessionAborted(p) /\ UNCHANGED joiners
    BY DEF InitiatorAborts
  <2> HIDE DEF d, c
  <2> QED
    BY <2>1, <2>2, <2>3
<1>6. v \in BOOLEAN
  BY <1>4
<1> HIDE DEF c, d
<1>7. /\ d \in PipelineStates /\ d.preparation = c.preparation /\ d.active = c.active
      /\ d.released = 1
  BY ONLY <1>1, <1>3, <1>6 DEF PipelineStates, d
<1> QED
  BY <1>1, <1>2, <1>5, <1>7, SessionEnds DEF c

LEMMA DisposeKept == ASSUME RecognitionInv, DisposeService PROVE Proceeds
<1> DEFINE p == sessions
           c == pipelines[p]
<1>1. p \in Pipelines /\ c \in PipelineStates /\ PipelineAgrees(p, c)
  BY PipelineFacts DEF DisposeService, RecognitionInv, Shapes
<1>2. c.preparation # "none" /\ c.released = 0
  BY <1>1 DEF PipelineAgrees
<1>3. PICK v : v = TRUE
  OBVIOUS
<1> DEFINE d == [c EXCEPT !.aborted = v, !.released = 1]
<1>4. /\ pipelines' = [pipelines EXCEPT ![p] = d] /\ sessions' = NoSession
      /\ attempts' = SessionAborted(p) /\ UNCHANGED joiners
  <2>1. d = [c EXCEPT !.aborted = TRUE, !.released = c.released + 1]
    BY <1>2, <1>3
  <2>2. pipelines' = [pipelines EXCEPT ![p] = [c EXCEPT !.aborted = TRUE, !.released = c.released + 1]]
    BY DEF DisposeService
  <2>3. sessions' = NoSession /\ attempts' = SessionAborted(p) /\ UNCHANGED joiners
    BY DEF DisposeService
  <2> HIDE DEF d, c, p
  <2> QED
    BY <2>1, <2>2, <2>3
<1>5. v \in BOOLEAN
  BY <1>3
<1> HIDE DEF c, d
<1>6. /\ d \in PipelineStates /\ d.preparation = c.preparation /\ d.active = c.active
      /\ d.released = 1
  BY ONLY <1>1, <1>5 DEF PipelineStates, d
<1> QED
  BY <1>1, <1>2, <1>4, <1>6, SessionEnds DEF c

\* A caller that joins, or leaves, changes nobody else's session.
LEMMA JoinersKept ==
    ASSUME RecognitionInv, NEW j \in Joiners, Join(j) \/ JoinerAborts(j) \/ JoinerContinues(j)
    PROVE  Proceeds
<1>1. joiners' \in [Joiners -> Pipelines \cup {NoSession}] /\ UNCHANGED <<sessions, pipelines, attempts>>
  BY DEF Join, JoinerAborts, JoinerContinues, RecognitionInv, Shapes
<1>2. Shapes'
  BY <1>1 DEF RecognitionInv, Shapes
<1>3. \A a \in Attempts : AttemptAgrees(a, attempts[a])'
  BY <1>1 DEF RecognitionInv, AttemptAgrees
<1>4. \A p \in Pipelines : PipelineAgrees(p, pipelines[p])'
  BY <1>1 DEF RecognitionInv, PipelineAgrees
<1> QED
  BY <1>1, <1>2, <1>3, <1>4, GoesStill DEF Proceeds, RecognitionInv

LEMMA AttemptFacts ==
    ASSUME RecognitionInv, NEW a \in Attempts
    PROVE  /\ attempts[a] \in AttemptStates /\ AttemptAgrees(a, attempts[a])
           /\ NotBegun \in AttemptStates /\ NotBegun.stage = "none" /\ ~NotBegun.finished
           /\ NotBegun.outcomes = 0 /\ ~NotBegun.mapping /\ NotBegun.initial = "none"
BY DEF RecognitionInv, Shapes, NotBegun, AttemptStates

\* What most steps do to the attempt they are of: it goes on, and what was
\* answered or completed stays.
Continues(c, d) ==
    /\ d \in AttemptStates /\ d.of = c.of
    /\ c.stage # "none" /\ d.stage # "none" /\ c.stage # "done" /\ d.stage # "done"
    /\ c.finished => d.finished /\ d.revision = c.revision
    /\ c.initial \in {"delivered", "rejected"} => d.initial = c.initial
    /\ d.finished => d.initial # "waits"
    /\ d.outcomes > 0 => d.stage \in {"inferring", "draining"}
    /\ d.mapping => d.outcomes > 0

LEMMA ContinuesKept ==
    ASSUME RecognitionInv, NEW a \in Attempts, NEW d, AttemptBecomes(a, d),
           Continues(attempts[a], d),
           d.stage = "inferring" =>
               attempts[a].stage = "inferring" \/ pipelines[attempts[a].of].released = 0
    PROVE  Proceeds
<1> DEFINE c == attempts[a]
<1>1. c \in AttemptStates /\ AttemptAgrees(a, c)
  BY AttemptFacts
<1> HIDE DEF c
<1>2. AttemptAgrees(a, d) /\ Goes(c, d) /\ d \in AttemptStates
  BY <1>1 DEF Continues, AttemptAgrees, Goes, c
<1>3. attempts' = [attempts EXCEPT ![a] = d] /\ UNCHANGED <<sessions, pipelines, joiners>>
  BY DEF AttemptBecomes
<1> QED
  BY <1>2, <1>3, OneAttempt DEF c

LEMMA CallerAbortsKept == ASSUME RecognitionInv, NEW a \in Attempts, CallerAborts(a) PROVE Proceeds
<1> DEFINE c == attempts[a]
           e == Cancelled(c)
           d == [e EXCEPT !.aborted = TRUE]
<1>1. /\ c \in AttemptStates /\ AttemptAgrees(a, c) /\ c.stage \notin {"none", "done"}
      /\ AttemptBecomes(a, d)
  BY AttemptFacts DEF CallerAborts
<1>2. /\ e \in AttemptStates /\ e.of = c.of /\ e.stage = c.stage
      /\ e.outcomes = c.outcomes /\ e.mapping = c.mapping /\ e.revision = c.revision
      /\ e.finished /\ e.initial # "waits"
      /\ c.initial \in {"delivered", "rejected"} => e.initial = c.initial
  BY <1>1, CancelledFields DEF AttemptAgrees
<1>3. PICK v \in BOOLEAN : d = [e EXCEPT !.aborted = v]
  OBVIOUS
<1> HIDE DEF c, d, e
<1>4. /\ d \in AttemptStates /\ d.of = e.of /\ d.stage = e.stage
      /\ d.outcomes = e.outcomes /\ d.mapping = e.mapping /\ d.revision = e.revision
      /\ d.finished = e.finished /\ d.initial = e.initial
  BY ONLY <1>2, <1>3 DEF AttemptStates
<1>5. Continues(c, d)
  BY <1>1, <1>2, <1>4 DEF Continues, AttemptAgrees
<1> QED
  BY <1>1, <1>2, <1>4, <1>5, ContinuesKept DEF c

\* An attempt goes on to infer, on a registered session, or to drain.
LEMMA StageKept ==
    ASSUME RecognitionInv, NEW a \in Attempts, Infer(a) \/ GiveUp(a) PROVE Proceeds
<1> DEFINE c == attempts[a]
<1>1. c \in AttemptStates /\ AttemptAgrees(a, c) /\ c.stage = "waiting"
  BY AttemptFacts DEF Infer, GiveUp
<1>2. PICK stage \in {"inferring", "draining"} :
          /\ AttemptBecomes(a, [c EXCEPT !.stage = stage])
          /\ stage = "inferring" => sessions = c.of
  BY DEF Infer, MayInfer, GiveUp
<1> DEFINE d == [c EXCEPT !.stage = stage]
<1> HIDE DEF c, d
<1>3. /\ d \in AttemptStates /\ d.of = c.of /\ d.stage = stage
      /\ d.outcomes = c.outcomes /\ d.mapping = c.mapping /\ d.revision = c.revision
      /\ d.finished = c.finished /\ d.initial = c.initial
  BY ONLY <1>1, stage \in {"inferring", "draining"} DEF AttemptStates, d
<1>4. Continues(c, d)
  BY <1>1, <1>2, <1>3 DEF Continues, AttemptAgrees
<1>5. sessions = c.of => pipelines[c.of].released = 0
  BY <1>1 DEF AttemptAgrees, RecognitionInv, PipelineAgrees
<1> QED
  BY <1>2, <1>3, <1>4, <1>5, ContinuesKept DEF c, d

LEMMA ReportKept == ASSUME RecognitionInv, NEW a \in Attempts, Report(a) PROVE Proceeds
<1> DEFINE c == attempts[a]
           d == [c EXCEPT !.outcomes = @ + 1]
<1>1. c \in AttemptStates /\ AttemptAgrees(a, c) /\ c.stage = "inferring" /\ AttemptBecomes(a, d)
  BY AttemptFacts DEF Report
<1>2. c.outcomes + 1 \in Nat
  BY <1>1 DEF AttemptStates
<1> HIDE DEF c, d
<1>3. /\ d \in AttemptStates /\ d.of = c.of /\ d.stage = c.stage
      /\ d.outcomes = c.outcomes + 1 /\ d.mapping = c.mapping /\ d.revision = c.revision
      /\ d.finished = c.finished /\ d.initial = c.initial
  BY ONLY <1>1, <1>2 DEF AttemptStates, d
<1>4. Continues(c, d)
  BY <1>1, <1>2, <1>3 DEF Continues, AttemptAgrees, AttemptStates
<1> QED
  BY <1>1, <1>4, ContinuesKept DEF c

LEMMA PipelineSettlesKept ==
    ASSUME RecognitionInv, NEW a \in Attempts, NEW last \in {0, 1}, PipelineSettles(a, last)
    PROVE  Proceeds
<1> DEFINE c == attempts[a]
           d == [c EXCEPT !.stage = "draining", !.outcomes = @ + last]
<1>1. c \in AttemptStates /\ AttemptAgrees(a, c) /\ c.stage = "inferring" /\ AttemptBecomes(a, d)
  BY AttemptFacts DEF PipelineSettles
<1>2. PICK n \in Nat : n = c.outcomes + last
  BY <1>1 DEF AttemptStates
<1>3. d = [c EXCEPT !.stage = "draining", !.outcomes = n]
  BY <1>2
<1> HIDE DEF c, d
<1>4. /\ d \in AttemptStates /\ d.of = c.of /\ d.stage = "draining"
      /\ d.outcomes = n /\ d.mapping = c.mapping /\ d.revision = c.revision
      /\ d.finished = c.finished /\ d.initial = c.initial
  BY ONLY <1>1, <1>2, <1>3 DEF AttemptStates
<1>5. Continues(c, d)
  <2>1. c.mapping => n > 0
    BY <1>1, <1>2 DEF AttemptAgrees, AttemptStates
  <2> QED
    BY <1>1, <1>4, <2>1 DEF Continues, AttemptAgrees
<1> QED
  BY <1>1, <1>4, <1>5, ContinuesKept DEF c

LEMMA MapKept == ASSUME RecognitionInv, NEW a \in Attempts, Map(a) PROVE Proceeds
<1> DEFINE c == attempts[a]
<1>1. /\ c \in AttemptStates /\ AttemptAgrees(a, c) /\ c.outcomes > 0 /\ ~c.mapping
      /\ c.stage \in {"inferring", "draining"} /\ c.outcomes \in Nat
  BY AttemptFacts DEF Map, AttemptAgrees, AttemptStates
<1>2. CASE AttemptBecomes(a, [c EXCEPT !.outcomes = @ - 1])
  <2> DEFINE d == [c EXCEPT !.outcomes = @ - 1]
  <2>1. c.outcomes - 1 \in Nat
    BY <1>1
  <2> HIDE DEF c, d
  <2>2. /\ d \in AttemptStates /\ d.of = c.of /\ d.stage = c.stage
        /\ ~d.mapping /\ d.revision = c.revision
        /\ d.finished = c.finished /\ d.initial = c.initial
    BY ONLY <1>1, <2>1 DEF AttemptStates, d
  <2>3. Continues(c, d)
    BY <1>1, <2>2 DEF Continues, AttemptAgrees
  <2> QED
    BY <1>2, <2>2, <2>3, ContinuesKept DEF c, d
<1>3. CASE AttemptBecomes(a, [c EXCEPT !.mapping = TRUE])
  <2>1. PICK v \in BOOLEAN : [c EXCEPT !.mapping = TRUE] = [c EXCEPT !.mapping = v]
    OBVIOUS
  <2> DEFINE d == [c EXCEPT !.mapping = v]
  <2>4. AttemptBecomes(a, d)
    BY <1>3, <2>1
  <2> HIDE DEF c, d
  <2>2. /\ d \in AttemptStates /\ d.of = c.of /\ d.stage = c.stage
        /\ d.outcomes = c.outcomes /\ d.revision = c.revision
        /\ d.finished = c.finished /\ d.initial = c.initial
    BY ONLY <1>1, v \in BOOLEAN DEF AttemptStates, d
  <2>3. Continues(c, d)
    BY <1>1, <2>2 DEF Continues, AttemptAgrees
  <2> QED
    BY <2>4, <2>2, <2>3, ContinuesKept DEF c
<1> QED
  BY <1>2, <1>3 DEF Map

LEMMA MappedKept == ASSUME RecognitionInv, NEW a \in Attempts, Mapped(a) PROVE Proceeds
<1> DEFINE c == attempts[a]
           d == [c EXCEPT !.mapping = FALSE, !.outcomes = @ - 1,
                          !.revision = IF StillOpen(a) THEN @ + 1 ELSE @,
                          !.initial = IF StillOpen(a) /\ @ = "waits" THEN "delivered" ELSE @]
<1>1. /\ c \in AttemptStates /\ AttemptAgrees(a, c) /\ c.mapping /\ AttemptBecomes(a, d)
  BY AttemptFacts DEF Mapped
<1>2. PICK m \in Nat : m = c.outcomes - 1
  BY <1>1 DEF AttemptAgrees, AttemptStates
<1>3. PICK n \in Nat : n = IF StillOpen(a) THEN c.revision + 1 ELSE c.revision
  BY <1>1 DEF AttemptStates
<1>4. PICK first \in {"none", "waits", "delivered", "rejected"} :
          first = IF StillOpen(a) /\ c.initial = "waits" THEN "delivered" ELSE c.initial
  BY <1>1 DEF AttemptStates
<1>5. PICK v \in BOOLEAN : v = FALSE
  OBVIOUS
<1>6. c.finished \in BOOLEAN /\ c.aborted \in BOOLEAN
  BY <1>1 DEF AttemptStates
<1>7. d = [c EXCEPT !.mapping = v, !.outcomes = m, !.revision = n, !.initial = first]
  BY <1>2, <1>3, <1>4, <1>5
<1>8. /\ c.finished => n = c.revision /\ first # "waits"
      /\ c.initial \in {"delivered", "rejected"} => first = c.initial
  BY <1>1, <1>3, <1>4 DEF StillOpen, AttemptAgrees
<1> HIDE DEF c, d
<1>9. /\ d \in AttemptStates /\ d.of = c.of /\ d.stage = c.stage /\ d.mapping = v
      /\ d.revision = n /\ d.initial = first /\ d.finished = c.finished
  BY ONLY <1>1, <1>2, <1>3, <1>4, <1>5, <1>7 DEF AttemptStates
<1>10. Continues(c, d)
  BY <1>1, <1>5, <1>8, <1>9 DEF Continues, AttemptAgrees
<1> QED
  BY <1>1, <1>9, <1>10, ContinuesKept DEF c

LEMMA MappingFailsKept == ASSUME RecognitionInv, NEW a \in Attempts, MappingFails(a) PROVE Proceeds
<1> DEFINE c == attempts[a]
           terminal == c.initial = "waits" /\ StillOpen(a)
           d == [c EXCEPT !.mapping = FALSE, !.outcomes = @ - 1,
                          !.initial = IF terminal THEN "rejected" ELSE @,
                          !.finished = @ \/ terminal, !.aborted = @ \/ terminal]
<1>1. /\ c \in AttemptStates /\ AttemptAgrees(a, c) /\ c.mapping /\ AttemptBecomes(a, d)
  BY AttemptFacts DEF MappingFails
<1>2. PICK m \in Nat : m = c.outcomes - 1
  BY <1>1 DEF AttemptAgrees, AttemptStates
<1>3. PICK first \in {"none", "waits", "delivered", "rejected"} :
          first = IF terminal THEN "rejected" ELSE c.initial
  BY <1>1 DEF AttemptStates
<1>4. PICK v \in BOOLEAN : v = FALSE
  OBVIOUS
<1>5. PICK f \in BOOLEAN : f = (c.finished \/ terminal)
  OBVIOUS
<1>6. PICK x \in BOOLEAN : x = (c.aborted \/ terminal)
  OBVIOUS
<1>7. c.revision \in Nat
  BY <1>1 DEF AttemptStates
<1>8. d = [c EXCEPT !.mapping = v, !.outcomes = m, !.initial = first, !.finished = f, !.aborted = x]
  BY <1>2, <1>3, <1>4, <1>5, <1>6
<1>9. /\ c.finished => f
      /\ f => first # "waits"
      /\ c.initial \in {"delivered", "rejected"} => first = c.initial
  BY <1>1, <1>3, <1>5 DEF AttemptAgrees
<1> HIDE DEF c, d
<1>10. /\ d \in AttemptStates /\ d.of = c.of /\ d.stage = c.stage /\ d.mapping = v
       /\ d.revision = c.revision /\ d.initial = first /\ d.finished = f
  BY ONLY <1>1, <1>2, <1>3, <1>4, <1>5, <1>6, <1>8 DEF AttemptStates
<1>11. Continues(c, d)
  BY <1>1, <1>4, <1>9, <1>10 DEF Continues, AttemptAgrees
<1> QED
  BY <1>1, <1>10, <1>11, ContinuesKept DEF c

\* A capture begins on the registered session's idle pipeline.
LEMMA RecognizeKept == ASSUME RecognitionInv, NEW a \in Attempts, Recognize(a) PROVE Proceeds
<1> DEFINE p == sessions
           c == pipelines[p]
           d == [NotBegun EXCEPT !.of = p, !.stage = "waiting", !.initial = "waits"]
           q == [c EXCEPT !.active = a]
<1>1. /\ p \in Pipelines /\ c \in PipelineStates /\ PipelineAgrees(p, c) /\ c.active = NoSession
      /\ attempts[a] = NotBegun
  BY PipelineFacts DEF Recognize, RecognitionInv, Shapes
<1>2. /\ attempts' = [attempts EXCEPT ![a] = d] /\ UNCHANGED <<sessions, joiners>>
      /\ pipelines' = [pipelines EXCEPT ![p].active = a]
  BY DEF Recognize
<1>3. NotBegun \in AttemptStates /\ NotBegun.outcomes = 0 /\ ~NotBegun.mapping /\ ~NotBegun.finished
      /\ NotBegun.initial = "none"
  BY AttemptFacts
<1> HIDE DEF c, d, q
<1>4. /\ d \in AttemptStates /\ d.of = p /\ d.stage = "waiting" /\ d.initial = "waits"
      /\ d.outcomes = NotBegun.outcomes /\ d.mapping = NotBegun.mapping
      /\ d.finished = NotBegun.finished
  BY ONLY <1>1, <1>3 DEF AttemptStates, d
<1>5. /\ q \in PipelineStates /\ q.active = a /\ q.preparation = c.preparation
      /\ q.aborted = c.aborted /\ q.released = c.released
  BY ONLY <1>1, a \in Attempts DEF PipelineStates, q
<1>6. \A x \in Pipelines : pipelines'[x] = IF x = p THEN q ELSE pipelines[x]
  BY <1>1, <1>2 DEF q, c, RecognitionInv, Shapes
<1>7. \A b \in Attempts : attempts'[b] = IF b = a THEN d ELSE attempts[b]
  BY <1>2 DEF RecognitionInv, Shapes
<1>8. Shapes'
  BY <1>1, <1>2, <1>4, <1>5, <1>6 DEF RecognitionInv, Shapes, q, c
<1>9. ASSUME NEW x \in Pipelines PROVE PipelineAgrees(x, pipelines[x])'
  <2>1. CASE x = p
    BY <1>1, <1>2, <1>5, <1>6, <2>1 DEF PipelineAgrees
  <2>2. CASE x # p
    BY <1>2, <1>6, <2>2 DEF PipelineAgrees, RecognitionInv
  <2> QED
    BY <2>1, <2>2
<1>10. ASSUME NEW b \in Attempts
       PROVE  AttemptAgrees(b, attempts[b])' /\ Goes(attempts[b], attempts'[b])
  <2>1. CASE b = a
    <3>1. AttemptAgrees(b, attempts[b])'
      BY <1>1, <1>3, <1>4, <1>5, <1>6, <1>7, <2>1 DEF AttemptAgrees, PipelineAgrees
    <3>2. Goes(NotBegun, d)
      BY <1>3, <1>4 DEF Goes
    <3> QED
      BY <1>1, <1>7, <2>1, <3>1, <3>2
  <2>2. CASE b # a
    <3> DEFINE e == attempts[b]
    <3>1. AttemptAgrees(b, e) /\ attempts'[b] = e
      BY <1>7, <2>2 DEF RecognitionInv
    <3>2. e.stage \notin {"none", "done"} => e.of # p
      BY <1>1, <3>1, PipelinesAreNumbers DEF AttemptAgrees, c
    <3>3. AttemptAgrees(b, attempts[b])'
      BY <1>6, <3>1, <3>2 DEF AttemptAgrees
    <3> QED
      BY <3>1, <3>3, GoesStill
  <2> QED
    BY <2>1, <2>2
<1> QED
  BY <1>8, <1>9, <1>10 DEF Proceeds, RecognitionInv

\* An attempt that drained gives its pipeline back.
LEMMA FinishKept == ASSUME RecognitionInv, NEW a \in Attempts, FinishAttempt(a) PROVE Proceeds
<1> DEFINE c == attempts[a]
           p == c.of
           d == attempts'[a]
           q == [pipelines[p] EXCEPT !.active = IF @ = a THEN NoSession ELSE @]
<1>1. /\ c \in AttemptStates /\ AttemptAgrees(a, c) /\ c.stage = "draining" /\ c.outcomes = 0
      /\ p \in Pipelines /\ pipelines[p].active = a
  BY AttemptFacts DEF FinishAttempt, Releases, AttemptAgrees
<1>2. /\ attempts' = [attempts EXCEPT ![a] =
              [c EXCEPT !.stage = IF @ = "draining" THEN "done" ELSE @, !.finished = TRUE,
                        !.initial = IF @ = "waits" THEN "rejected" ELSE @]]
      /\ pipelines' = [pipelines EXCEPT ![p].active = IF @ = a THEN NoSession ELSE @]
      /\ UNCHANGED <<sessions, joiners>>
  BY DEF FinishAttempt
<1>3. PICK first \in {"none", "waits", "delivered", "rejected"} :
          first = IF c.initial = "waits" THEN "rejected" ELSE c.initial
  BY <1>1 DEF AttemptStates
<1>4. PICK v \in BOOLEAN : v = TRUE
  OBVIOUS
<1>5. d = [c EXCEPT !.stage = "done", !.finished = v, !.initial = first]
  BY <1>1, <1>2, <1>3, <1>4 DEF RecognitionInv, Shapes
<1>6. pipelines[p] \in PipelineStates /\ PipelineAgrees(p, pipelines[p])
  BY <1>1, PipelineFacts
<1>7. \A x \in Pipelines : pipelines'[x] = IF x = p THEN q ELSE pipelines[x]
  BY <1>1, <1>2 DEF RecognitionInv, Shapes
<1>8. \A b \in Attempts : b # a => attempts'[b] = attempts[b]
  BY <1>2 DEF RecognitionInv, Shapes
<1>9. /\ q \in PipelineStates /\ q.active = NoSession /\ q.preparation = pipelines[p].preparation
      /\ q.aborted = pipelines[p].aborted /\ q.released = pipelines[p].released
  <2> DEFINE w == pipelines[p]
  <2>1. w.active = a /\ w \in PipelineStates /\ q = [w EXCEPT !.active = NoSession]
    BY <1>1, <1>6
  <2> HIDE DEF w, q
  <2> QED
    BY ONLY <2>1 DEF PipelineStates, w
<1> HIDE DEF q
<1>10. Shapes'
  <2>1. d \in AttemptStates
    <3> HIDE DEF c, d
    <3> QED
      BY ONLY <1>1, <1>3, <1>4, <1>5 DEF AttemptStates
  <2>2. attempts' \in [Attempts -> AttemptStates]
    BY <1>2, <1>8, <2>1 DEF RecognitionInv, Shapes
  <2>3. pipelines' \in [Pipelines -> PipelineStates]
    BY <1>2, <1>7, <1>9 DEF RecognitionInv, Shapes
  <2> QED
    BY <1>2, <2>2, <2>3 DEF RecognitionInv, Shapes
<1>11. ASSUME NEW x \in Pipelines PROVE PipelineAgrees(x, pipelines[x])'
  <2>1. CASE x = p
    <3>1. q.preparation # "none"
      BY <1>1, <1>6, <1>9, PipelinesAreNumbers DEF PipelineAgrees, Unused
    <3> QED
      BY <1>2, <1>6, <1>7, <1>9, <2>1, <3>1 DEF PipelineAgrees
  <2>2. CASE x # p
    BY <1>2, <1>7, <2>2 DEF PipelineAgrees, RecognitionInv
  <2> QED
    BY <2>1, <2>2
<1>12. ASSUME NEW b \in Attempts
       PROVE  AttemptAgrees(b, attempts[b])' /\ Goes(attempts[b], attempts'[b])
  <2>1. CASE b = a
    <3> HIDE DEF c, d
    <3>1. /\ d.of = c.of /\ d.stage = "done" /\ d.outcomes = c.outcomes /\ d.mapping = c.mapping
          /\ d.revision = c.revision /\ d.finished = v /\ d.initial = first
      BY ONLY <1>1, <1>5 DEF AttemptStates
    <3>2. Goes(c, d)
      BY <1>1, <1>3, <1>4, <3>1 DEF Goes
    <3>3. AttemptAgrees(a, attempts[a])'
      BY <1>1, <1>3, <3>1 DEF AttemptAgrees, d
    <3> QED
      BY <2>1, <3>2, <3>3 DEF c, d
  <2>2. CASE b # a
    <3> DEFINE e == attempts[b]
    <3>1. AttemptAgrees(b, e) /\ attempts'[b] = e
      BY <1>8, <2>2 DEF RecognitionInv
    <3>2. e.stage \notin {"none", "done"} => e.of # p
      BY <1>1, <2>2, <3>1 DEF AttemptAgrees
    <3>3. AttemptAgrees(b, attempts[b])'
      BY <1>7, <3>1, <3>2 DEF AttemptAgrees
    <3> QED
      BY <3>1, <3>3, GoesStill
  <2> QED
    BY <2>1, <2>2
<1> QED
  BY <1>10, <1>11, <1>12 DEF Proceeds, RecognitionInv

--------
(* The theorems of Recognition.                                            *)

LEMMA RecognitionStarts == RecognitionInit => RecognitionInv
<1> SUFFICES ASSUME RecognitionInit PROVE RecognitionInv
  OBVIOUS
<1>1. Shapes
  BY DEF RecognitionInit, Shapes, Unused, NotBegun, PipelineStates, AttemptStates
<1>2. \A p \in Pipelines : PipelineAgrees(p, pipelines[p])
  BY PipelinesAreNumbers DEF RecognitionInit, PipelineAgrees, Unused
<1>3. \A a \in Attempts : AttemptAgrees(a, attempts[a])
  BY DEF RecognitionInit, AttemptAgrees, NotBegun
<1> QED
  BY <1>1, <1>2, <1>3 DEF RecognitionInv

LEMMA RecognitionStep == RecognitionInv /\ [RecognitionNext]_recognitionVars => Proceeds
<1> SUFFICES ASSUME RecognitionInv, [RecognitionNext]_recognitionVars PROVE Proceeds
  OBVIOUS
<1>1. CASE UNCHANGED recognitionVars
  BY <1>1, GoesStill DEF recognitionVars, Proceeds, RecognitionInv, Shapes, PipelineAgrees,
                         AttemptAgrees
<1>2. ASSUME NEW p \in Pipelines,
             \/ Prepare(p) \/ WatchSettles(p) \/ InitiatorContinues(p) \/ InitiatorAborts(p)
             \/ \E outcome \in {"ready", "failed"} : Settle(p, outcome)
      PROVE  Proceeds
  BY <1>2, PrepareKept, WatchSettlesKept, InitiatorContinuesKept, InitiatorAbortsKept, SettleKept
<1>3. ASSUME NEW j \in Joiners, Join(j) \/ JoinerAborts(j) \/ JoinerContinues(j)
      PROVE  Proceeds
  BY <1>3, JoinersKept
<1>4. CASE DisposeService
  BY <1>4, DisposeKept
<1>5. ASSUME NEW a \in Attempts,
             \/ Recognize(a) \/ CallerAborts(a) \/ Infer(a) \/ GiveUp(a) \/ Report(a)
             \/ Map(a) \/ Mapped(a) \/ MappingFails(a) \/ FinishAttempt(a)
             \/ \E last \in {0, 1} : PipelineSettles(a, last)
      PROVE  Proceeds
  BY <1>5, RecognizeKept, CallerAbortsKept, StageKept, ReportKept, MapKept, MappedKept,
     MappingFailsKept, FinishKept, PipelineSettlesKept
<1> QED
  BY <1>1, <1>2, <1>3, <1>4, <1>5 DEF RecognitionNext

\* The registered session's pipeline is in use and the others that were used
\* are released; an attempt that runs holds the pipeline of its session.
THEOREM RecognitionInductive == RecognitionSpec => []RecognitionInv
<1>1. RecognitionInit => RecognitionInv
  BY RecognitionStarts
<1>2. RecognitionInv /\ [RecognitionNext]_recognitionVars => RecognitionInv'
  BY RecognitionStep DEF Proceeds
<1> QED
  BY <1>1, <1>2, PTL DEF RecognitionSpec

\* Every pipeline the factory created is released exactly once, when its
\* session ends (service.ts prepare, dispose).
THEOREM PipelinesReleased == RecognitionSpec => []PipelinesReleasedOnce
<1>1. RecognitionInv => PipelinesReleasedOnce
  <2> SUFFICES ASSUME RecognitionInv, NEW p \in Pipelines
               PROVE  pipelines[p].released = IF pipelines[p] = Unused \/ sessions = p THEN 0 ELSE 1
    BY DEF PipelinesReleasedOnce
  <2>1. PipelineAgrees(p, pipelines[p]) /\ Unused.released = 0
    BY PipelineFacts
  <2> QED
    BY <2>1 DEF PipelineAgrees
<1> QED
  BY <1>1, RecognitionInductive, PTL

\* A set that has no two elements has one at most.
LEMMA AtMostOne == ASSUME NEW S, \A a, b \in S : a = b PROVE Cardinality(S) <= 1
<1>1. CASE S = {}
  BY <1>1, FS_EmptySet
<1>2. CASE S # {}
  <2>1. PICK a : a \in S
    BY <1>2
  <2>2. S = {a}
    BY <2>1
  <2>3. Cardinality({a}) = 1
    BY FS_Singleton
  <2> QED
    BY <2>2, <2>3
<1> QED
  BY <1>1, <1>2

\* The steps of InferenceIsExclusive and of CompletionIsFinal.
Exclusive ==
    \A p \in Pipelines :
        /\ Cardinality(Inferring(p)') <= 1
        /\ Inferring(p)' \subseteq Inferring(p) \/ pipelines[p].released = 0

Final ==
    \A a \in Attempts :
        LET before == attempts[a]
            after == attempts'[a]
        IN  /\ before.finished => after.finished /\ after.revision = before.revision
            /\ before.initial \in {"delivered", "rejected"} => after.initial = before.initial
            /\ after.finished => after.initial # "waits"
            /\ Running(after, after.of) /\ pipelines'[after.of].aborted => after.finished

\* The attempts of a session take turns on its pipeline, none begins to infer
\* on one that was released, and what an attempt answered and its completion
\* are final, for any number of sessions, callers and attempts (service.ts
\* recognize, deliver, onAbort, finishDelivery).
THEOREM TurnsTaken == RecognitionSpec => AttemptsTakeTurns
<1>1. Proceeds => Exclusive
  <2> SUFFICES ASSUME Proceeds, NEW p \in Pipelines
               PROVE  /\ Cardinality(Inferring(p)') <= 1
                      /\ Inferring(p)' \subseteq Inferring(p) \/ pipelines[p].released = 0
    BY DEF Exclusive
  <2>1. Cardinality(Inferring(p)') <= 1
    <3>1. \A a, b \in Inferring(p)' : a = b
      BY DEF Proceeds, RecognitionInv, AttemptAgrees, Inferring
    <3> QED
      BY <3>1, AtMostOne
  <2>2. Inferring(p)' \subseteq Inferring(p) \/ pipelines[p].released = 0
    BY DEF Proceeds, Inferring, Goes
  <2> QED
    BY <2>1, <2>2
<1>2. Proceeds => Final
  BY DEF Proceeds, Final, Goes, RecognitionInv, AttemptAgrees, Running
<1>3. RecognitionInv /\ [RecognitionNext]_recognitionVars
          => [Exclusive]_recognitionVars /\ [Final]_recognitionVars
  BY <1>1, <1>2, RecognitionStep
<1>4. RecognitionSpec => [][Exclusive]_recognitionVars /\ [][Final]_recognitionVars
  BY <1>3, RecognitionInductive, PTL DEF RecognitionSpec
<1> QED
  BY <1>4 DEF AttemptsTakeTurns, InferenceIsExclusive, CompletionIsFinal, Exclusive, Final

--------
(* The store of view states.                                               *)

Snapshots == [token : Nat, account : Users, handle : Nat, owner : Pages \cup {Nobody},
              whole : BOOLEAN]

Apart(st) == \A i, j \in DOMAIN st : i # j => st[i].token # st[j].token

\* The snapshots of one account, each of a token and, if a page captured it,
\* of a handle of its own.
StoreAgrees(st, who, tokens, handles) ==
    /\ st \in Seq(Snapshots) /\ Apart(st)
    /\ \A i \in DOMAIN st :
         /\ st[i].account = who /\ st[i].token <= tokens /\ st[i].handle <= handles
         /\ st[i].handle = 0 <=> st[i].owner = Nobody
    /\ \A i, j \in DOMAIN st : i # j /\ st[i].handle = st[j].handle => st[i].handle = 0

Holds(st, h) == \E i \in DOMAIN st : st[i].handle = h

\* A handle that was captured is kept, or was given back once.
HandlesAgree(st, given, handles) ==
    /\ given \in [Handles -> Nat]
    /\ \A h \in Handles : given[h] = IF h <= handles /\ ~Holds(st, h) THEN 1 ELSE 0

\* Some of the snapshots of a store.
Within(x, st) ==
    /\ x \in Seq(Snapshots) /\ Apart(x)
    /\ \A i \in DOMAIN x : \E k \in DOMAIN st : x[i] = st[k]

LEMMA WithinAgrees ==
    ASSUME NEW st, NEW who, NEW tokens, NEW handles, StoreAgrees(st, who, tokens, handles),
           NEW x, Within(x, st)
    PROVE  StoreAgrees(x, who, tokens, handles)
<1>1. ASSUME NEW i \in DOMAIN x, NEW j \in DOMAIN x, i # j, x[i].handle = x[j].handle
      PROVE  x[i].handle = 0
  <2>1. PICK k \in DOMAIN st, l \in DOMAIN st : x[i] = st[k] /\ x[j] = st[l]
    BY DEF Within
  <2>2. k # l
    BY <1>1, <2>1 DEF Within, Apart
  <2> QED
    BY <1>1, <2>1, <2>2 DEF StoreAgrees
<1>2. \A i \in DOMAIN x :
         /\ x[i].account = who /\ x[i].token <= tokens /\ x[i].handle <= handles
         /\ x[i].handle = 0 <=> x[i].owner = Nobody
  BY DEF Within, StoreAgrees
<1> QED
  BY <1>1, <1>2 DEF StoreAgrees, Within

\* The part of a store behind its first k snapshots, up to the n-th.
Part(st, k, n) == SubSeq(st, k + 1, n)

IsPart(x, st, k, n) ==
    /\ Within(x, st)
    /\ \A i \in DOMAIN x : \E l \in k + 1 .. n : x[i] = st[l]
    /\ \A l \in k + 1 .. n : \E i \in DOMAIN x : x[i] = st[l]

LEMMA PartWithin ==
    ASSUME NEW st \in Seq(Snapshots), Apart(st), NEW n \in 0 .. Len(st), NEW k \in 0 .. n,
           NEW x, x = Part(st, k, n)
    PROVE  IsPart(x, st, k, n)
<1>1. x \in Seq(Snapshots) /\ Len(x) = n - k /\ \A i \in 1 .. n - k : x[i] = st[k + i]
  <2>1. /\ k + 1 \in Int /\ n \in Int /\ \A i \in k + 1 .. n : st[i] \in Snapshots
        /\ (IF k + 1 <= n THEN n - (k + 1) + 1 ELSE 0) = n - k
        /\ n - (k + 1) + 1 = n - k /\ \A i \in 1 .. n - k : (k + 1) + i - 1 = k + i
    OBVIOUS
  <2>2. /\ x \in Seq(Snapshots) /\ Len(x) = n - k
        /\ \A i \in 1 .. n - (k + 1) + 1 : x[i] = st[(k + 1) + i - 1]
    BY <2>1, SubSeqProperties DEF Part
  <2> QED
    BY <2>1, <2>2
<1>2. DOMAIN x = 1 .. n - k /\ DOMAIN st = 1 .. Len(st) /\ Len(st) \in Nat
  BY <1>1
<1>3. ASSUME NEW i \in DOMAIN x PROVE x[i] = st[k + i] /\ k + i \in k + 1 .. n
  BY <1>1, <1>2
<1>4. ASSUME NEW i \in DOMAIN x PROVE \E j \in DOMAIN st : x[i] = st[j]
  BY <1>2, <1>3
<1>5. ASSUME NEW i \in DOMAIN x, NEW j \in DOMAIN x, i # j PROVE x[i].token # x[j].token
  <2>1. k + i \in DOMAIN st /\ k + j \in DOMAIN st /\ k + i # k + j
    BY <1>2, <1>5
  <2> QED
    BY <1>3, <2>1 DEF Apart
<1>6. ASSUME NEW l \in k + 1 .. n PROVE \E i \in DOMAIN x : x[i] = st[l]
  <2>1. l - k \in DOMAIN x /\ k + (l - k) = l
    BY <1>2
  <2> QED
    BY <1>3, <2>1
<1> QED
  BY <1>1, <1>3, <1>4, <1>5, <1>6 DEF Within, Apart, IsPart

\* What the store has left once a token's snapshot is taken out.
LEMMA Dropped ==
    ASSUME NEW st \in Seq(Snapshots), Apart(st), NEW token, NEW x, x = DropToken(st, token)
    PROVE  /\ Within(x, st)
           /\ \A j \in DOMAIN x : x[j].token # token
           /\ \A i \in DOMAIN st : st[i].token # token => \E j \in DOMAIN x : x[j] = st[i]
<1>1. CASE Kept(st, token) = {}
  BY <1>1 DEF Kept, DropToken, Within
<1>2. CASE Kept(st, token) # {}
  <2> DEFINE p == Place(st, token)
  <2>1. p \in DOMAIN st /\ st[p].token = token
    BY <1>2 DEF Place, Kept
  <2> HIDE DEF p
  <2>2. Len(st) \in Nat /\ DOMAIN st = 1 .. Len(st)
    OBVIOUS
  <2> DEFINE l == SubSeq(st, 1, p - 1)
             r == SubSeq(st, p + 1, Len(st))
  <2>3. x = l \o r
    BY <1>2 DEF DropToken, RemoveAt, p
  <2>4. /\ l \in Seq(Snapshots) /\ Len(l) = p - 1 /\ \A i \in 1 .. p - 1 : l[i] = st[i]
    <3>1. 1 \in 1 .. Len(st) + 1 /\ p - 1 \in 1 - 1 .. Len(st)
      BY <2>1, <2>2
    <3> QED
      BY <2>1, <2>2, <3>1, SubSeqProperties
  <2>5. /\ r \in Seq(Snapshots) /\ Len(r) = Len(st) - p
        /\ \A i \in 1 .. Len(st) - p : r[i] = st[p + i]
    <3>1. p + 1 \in 1 .. Len(st) + 1 /\ Len(st) \in (p + 1) - 1 .. Len(st)
      BY <2>1, <2>2
    <3>2. /\ r \in Seq(Snapshots) /\ Len(r) = Len(st) - (p + 1) + 1
          /\ \A i \in 1 .. Len(st) - (p + 1) + 1 : r[i] = st[(p + 1) + i - 1]
      BY <3>1, SubSeqProperties
    <3>3. Len(st) - (p + 1) + 1 = Len(st) - p
      BY <2>1, <2>2
    <3>4. ASSUME NEW i \in 1 .. Len(st) - p PROVE r[i] = st[p + i]
      <4>1. r[i] = st[(p + 1) + i - 1]
        BY <3>2, <3>3
      <4>2. (p + 1) + i - 1 = p + i
        BY <2>1, <2>2
      <4> QED
        BY <4>1, <4>2
    <3> HIDE DEF r
    <3> QED
      BY <3>2, <3>3, <3>4
  <2> HIDE DEF l, r
  <2>6. /\ x \in Seq(Snapshots) /\ Len(x) = Len(st) - 1
        /\ \A i \in 1 .. Len(st) - 1 : x[i] = IF i < p THEN st[i] ELSE st[i + 1]
    <3>1. x \in Seq(Snapshots) /\ Len(x) = Len(l) + Len(r)
      BY <2>3, <2>4, <2>5, ConcatProperties
    <3>2. Len(x) = Len(st) - 1
      BY <2>1, <2>2, <2>4, <2>5, <3>1
    <3>3. \A i \in 1 .. Len(x) : x[i] = IF i <= Len(l) THEN l[i] ELSE r[i - Len(l)]
      BY <2>3, <2>4, <2>5, <3>1, ConcatProperties
    <3>4. ASSUME NEW i \in 1 .. Len(st) - 1 PROVE x[i] = IF i < p THEN st[i] ELSE st[i + 1]
      <4>1. CASE i < p
        BY <2>1, <2>2, <2>4, <3>2, <3>3, <4>1
      <4>2. CASE ~(i < p)
        <5>1. i \in 1 .. Len(x) /\ ~(i <= Len(l)) /\ i - Len(l) = i - (p - 1)
              /\ i - (p - 1) \in 1 .. Len(st) - p /\ p + (i - (p - 1)) = i + 1
          BY <2>1, <2>2, <2>4, <3>2, <4>2
        <5> QED
          BY <2>5, <3>3, <4>2, <5>1
      <4> QED
        BY <4>1, <4>2
    <3> QED
      BY <3>1, <3>2, <3>4
  <2>7. DOMAIN x = 1 .. Len(st) - 1
    BY <2>6
  <2>8. \A i \in DOMAIN x : x[i] = st[IF i < p THEN i ELSE i + 1]
                            /\ (IF i < p THEN i ELSE i + 1) \in DOMAIN st
                            /\ (IF i < p THEN i ELSE i + 1) # p
    BY <2>1, <2>2, <2>6, <2>7
  <2>9. Apart(x)
    BY <2>1, <2>2, <2>7, <2>8 DEF Apart
  <2>10. \A j \in DOMAIN x : x[j].token # token
    BY <2>1, <2>8 DEF Apart
  <2>11. ASSUME NEW i \in DOMAIN st, st[i].token # token PROVE \E j \in DOMAIN x : x[j] = st[i]
    <3>1. i # p
      BY <2>1, <2>11
    <3>2. CASE i < p
      BY <2>1, <2>2, <2>6, <2>7, <3>2
    <3>3. CASE i > p
      <4>1. i - 1 \in DOMAIN x /\ ~(i - 1 < p) /\ (i - 1) + 1 = i
        BY <2>1, <2>2, <2>7, <3>3
      <4> QED
        BY <2>6, <2>7, <4>1
    <3> QED
      BY <2>1, <2>2, <3>1, <3>2, <3>3
  <2> QED
    BY <2>6, <2>8, <2>9, <2>10, <2>11 DEF Within
<1> QED
  BY <1>1, <1>2

\* What the store gives back is counted once for each handle.
LEMMA GivenBack ==
    ASSUME NEW x, NEW who, NEW tokens, NEW handles, StoreAgrees(x, who, tokens, handles),
           NEW given \in [Handles -> Nat], NEW r, r = Back(given, x)
    PROVE  /\ r \in [Handles -> Nat]
           /\ \A h \in Handles : r[h] = given[h] + IF Holds(x, h) THEN 1 ELSE 0
<1> DEFINE of(h) == {i \in DOMAIN x : x[i].handle = h /\ x[i].owner # Nobody}
<1>1. r = [h \in Handles |-> given[h] + Cardinality(of(h))]
  BY DEF Back
<1>2. ASSUME NEW h \in Handles PROVE Cardinality(of(h)) = IF Holds(x, h) THEN 1 ELSE 0
  <2>1. h # 0
    BY DEF Handles
  <2>2. CASE Holds(x, h)
    <3>1. PICK i \in DOMAIN x : x[i].handle = h
      BY <2>2 DEF Holds
    <3>2. of(h) = {i}
      BY <2>1, <3>1 DEF StoreAgrees
    <3> QED
      BY <2>2, <3>2, FS_Singleton
  <2>3. CASE ~Holds(x, h)
    <3>1. of(h) = {}
      BY <2>3 DEF Holds
    <3> QED
      BY <2>3, <3>1, FS_EmptySet
  <2> QED
    BY <2>2, <2>3
<1> HIDE DEF of
<1> QED
  BY <1>1, <1>2

LEMMA HandlesMove ==
    ASSUME NEW st, NEW given, NEW n \in Nat, HandlesAgree(st, given, n),
           NEW who, NEW tokens, NEW x, StoreAgrees(x, who, tokens, n),
           NEW m \in {n, n + 1}, NEW y,
           \A h \in Handles : (Holds(x, h) => Holds(st, h))
               /\ (Holds(y, h) <=> (Holds(st, h) /\ ~Holds(x, h)) \/ (m = n + 1 /\ h = m)),
           \A h \in Handles : Holds(st, h) => h <= n
    PROVE  HandlesAgree(y, Back(given, x), m)
<1> DEFINE r == Back(given, x)
<1>1. /\ r \in [Handles -> Nat]
      /\ \A h \in Handles : r[h] = given[h] + IF Holds(x, h) THEN 1 ELSE 0
  BY GivenBack DEF HandlesAgree
<1> HIDE DEF r
<1>2. ASSUME NEW h \in Handles PROVE r[h] = IF h <= m /\ ~Holds(y, h) THEN 1 ELSE 0
  <2>1. h \in Nat /\ given[h] = IF h <= n /\ ~Holds(st, h) THEN 1 ELSE 0
    BY StoreAssumption DEF HandlesAgree, Handles
  <2> QED
    BY <1>1, <2>1
<1> QED
  BY <1>1, <1>2 DEF HandlesAgree, r

LEMMA AppendFacts ==
    ASSUME NEW x \in Seq(Snapshots), NEW e \in Snapshots, NEW y, y = Append(x, e)
    PROVE  /\ y \in Seq(Snapshots)
           /\ \A i \in DOMAIN x : i \in DOMAIN y /\ y[i] = x[i]
           /\ \E j \in DOMAIN y : y[j] = e
           /\ \A i \in DOMAIN y : (i \in DOMAIN x /\ y[i] = x[i]) \/ (i = Len(x) + 1 /\ y[i] = e)
<1>1. /\ y \in Seq(Snapshots) /\ Len(y) = Len(x) + 1 /\ y[Len(x) + 1] = e
      /\ \A i \in 1 .. Len(x) : y[i] = x[i]
  BY AppendProperties
<1>2. Len(x) \in Nat /\ DOMAIN x = 1 .. Len(x) /\ DOMAIN y = 1 .. Len(x) + 1
  BY <1>1
<1>3. /\ \A i \in DOMAIN x : i \in DOMAIN y /\ y[i] = x[i]
      /\ \A i \in DOMAIN y : (i \in DOMAIN x /\ y[i] = x[i]) \/ (i = Len(x) + 1 /\ y[i] = e)
      /\ Len(x) + 1 \in DOMAIN y
  BY <1>1, <1>2
<1> QED
  BY <1>1, <1>3

LEMMA AppendAgrees ==
    ASSUME NEW x, NEW who, NEW tokens, NEW n \in Nat, StoreAgrees(x, who, tokens, n),
           NEW e \in Snapshots, e.account = who, e.token <= tokens,
           e.handle = 0 <=> e.owner = Nobody, NEW m \in Nat, n <= m, e.handle <= m,
           \A i \in DOMAIN x : x[i].token # e.token,
           \A i \in DOMAIN x : x[i].handle = e.handle => e.handle = 0,
           NEW y, y = Append(x, e)
    PROVE  StoreAgrees(y, who, tokens, m)
<1>1. x \in Seq(Snapshots) /\ DOMAIN x = 1 .. Len(x) /\ Len(x) \in Nat
  BY DEF StoreAgrees
<1>2. /\ y \in Seq(Snapshots)
      /\ \A i \in DOMAIN y : (i \in DOMAIN x /\ y[i] = x[i]) \/ (i = Len(x) + 1 /\ y[i] = e)
  BY <1>1, AppendFacts
<1>3. ASSUME NEW i \in DOMAIN y
      PROVE  /\ y[i].account = who /\ y[i].token <= tokens /\ y[i].handle <= m
             /\ y[i].handle = 0 <=> y[i].owner = Nobody
  <2>1. CASE i \in DOMAIN x /\ y[i] = x[i]
    <3>1. x[i] \in Snapshots /\ x[i].handle <= n
      BY <1>1, <2>1 DEF StoreAgrees
    <3> QED
      BY <2>1, <3>1 DEF StoreAgrees, Snapshots
  <2> QED
    BY <1>2, <2>1
<1>4. ASSUME NEW i \in DOMAIN y, NEW j \in DOMAIN y, i # j
      PROVE  y[i].token # y[j].token /\ (y[i].handle = y[j].handle => y[i].handle = 0)
  BY <1>2, <1>4 DEF StoreAgrees, Apart
<1> QED
  BY <1>2, <1>3, <1>4 DEF StoreAgrees, Apart

\* save keeps the snapshot under its token, everything else that it does not
\* give back, and every handle in one of the two.
LEMMA SavedFacts ==
    ASSUME NEW st, NEW who, NEW tokens, NEW n \in Nat, StoreAgrees(st, who, tokens, n),
           NEW s \in Snapshots, s.account = who, s.token <= tokens, NEW m \in {n, n + 1},
           m = n + 1 => s.handle = m /\ s.owner # Nobody,
           m = n => /\ s.owner = Nobody
                    /\ \A i \in DOMAIN st : st[i].token = s.token => st[i].handle = s.handle
                    /\ (\A i \in DOMAIN st : st[i].token # s.token) => s.handle = 0,
           NEW saved, saved = Saved(st, s)
    PROVE  /\ StoreAgrees(saved.store, who, tokens, m)
           /\ StoreAgrees(saved.dropped, who, tokens, n)
           /\ \A h \in Handles : (Holds(saved.dropped, h) => Holds(st, h))
                 /\ (Holds(saved.store, h) <=>
                        (Holds(st, h) /\ ~Holds(saved.dropped, h)) \/ (m = n + 1 /\ h = m))
           /\ \E j \in DOMAIN saved.store : saved.store[j].token = s.token
           /\ \A j \in DOMAIN saved.store :
                 \/ /\ saved.store[j].token = s.token /\ saved.store[j].whole = s.whole
                    /\ saved.store[j].handle = s.handle
                 \/ /\ saved.store[j].token # s.token
                    /\ \E i \in DOMAIN st : saved.store[j] = st[i]
<1> DEFINE replaced == OfToken(st, s.token)
           same == SameHandle(replaced, s)
           others == DropToken(st, s.token)
           over == IF Len(others) >= Limit THEN Len(others) - Limit + 1 ELSE 0
           kept == IF same THEN [s EXCEPT !.owner = replaced[1].owner] ELSE s
           left == SubSeq(others, over + 1, Len(others))
           gone == SubSeq(others, 1, over)
           back == IF same THEN <<>> ELSE replaced
<1>1. saved.store = Append(left, kept) /\ saved.dropped = gone \o back
  BY DEF Saved
<1>2. st \in Seq(Snapshots) /\ Apart(st)
  BY DEF StoreAgrees
<1>3. /\ Within(others, st) /\ \A j \in DOMAIN others : others[j].token # s.token
      /\ \A i \in DOMAIN st : st[i].token # s.token => \E j \in DOMAIN others : others[j] = st[i]
  BY <1>2, Dropped
<1>4. /\ kept \in Snapshots /\ kept.token = s.token /\ kept.account = who
      /\ kept.whole = s.whole /\ kept.handle = s.handle
      /\ (kept.handle = 0 <=> kept.owner = Nobody)
      /\ \A p \in DOMAIN st : st[p].token = s.token =>
            /\ m = n => kept.handle = st[p].handle
            /\ back = IF m = n THEN <<>> ELSE <<st[p]>>
      /\ (\A p \in DOMAIN st : st[p].token # s.token) =>
            /\ m = n => kept.handle = 0
            /\ back = <<>>
  <2>1. CASE \A p \in DOMAIN st : st[p].token # s.token
    <3>1. replaced = <<>>
      BY <2>1 DEF OfToken, Kept
    <3>2. kept = s /\ back = <<>>
      BY <3>1 DEF SameHandle
    <3>3. s.handle \in Nat /\ (s.handle = 0 <=> s.owner = Nobody)
      BY <2>1 DEF Snapshots
    <3> QED
      BY <2>1, <3>2, <3>3
  <2>2. CASE \E p \in DOMAIN st : st[p].token = s.token
    <3>1. PICK p \in DOMAIN st : st[p].token = s.token
      BY <2>2
    <3>2. replaced = <<st[p]>>
      <4>1. Kept(st, s.token) # {} /\ Place(st, s.token) \in Kept(st, s.token)
        BY <3>1 DEF Kept, Place
      <4>2. Place(st, s.token) = p
        BY <1>2, <3>1, <4>1 DEF Kept, Apart
      <4> QED
        BY <4>1, <4>2 DEF OfToken
    <3>3. st[p] \in Snapshots /\ st[p].account = who /\ st[p].handle <= n
          /\ (st[p].handle = 0 <=> st[p].owner = Nobody)
      BY <3>1 DEF StoreAgrees
    <3>4. same <=> m = n
      BY <3>1, <3>2, <3>3 DEF SameHandle, Snapshots
    <3>5. /\ kept \in Snapshots /\ kept.token = s.token /\ kept.account = who
          /\ kept.whole = s.whole /\ kept.handle = s.handle
          /\ (kept.handle = 0 <=> kept.owner = Nobody)
          /\ (m = n => kept.handle = st[p].handle)
      <4>1. CASE same
        <5>1. kept = [s EXCEPT !.owner = st[p].owner]
          BY <3>2, <4>1
        <5>2. /\ kept \in Snapshots /\ kept.token = s.token /\ kept.account = s.account
              /\ kept.whole = s.whole /\ kept.handle = s.handle
              /\ kept.owner = st[p].owner
          BY <3>3, <5>1 DEF Snapshots
        <5>3. s.handle = st[p].handle
          BY <3>1, <3>4, <4>1
        <5> QED
          BY <3>3, <5>2, <5>3
      <4>2. CASE ~same
        BY <3>3, <3>4, <4>2 DEF Snapshots
      <4> QED
        BY <4>1, <4>2
    <3>6. back = IF m = n THEN <<>> ELSE <<st[p]>>
      BY <3>2, <3>4
    <3>7. \A q \in DOMAIN st : st[q].token = s.token => q = p
      BY <1>2, <3>1 DEF Apart
    <3> HIDE DEF kept, back
    <3> QED
      BY <3>1, <3>5, <3>6, <3>7
  <2> QED
    BY <2>1, <2>2
<1>5. Len(others) \in Nat /\ DOMAIN others = 1 .. Len(others) /\ over \in 0 .. Len(others)
      /\ others \in Seq(Snapshots) /\ Apart(others)
  BY <1>3, StoreAssumption DEF Within
<1> HIDE DEF others, over, kept, back
<1>6. /\ Within(left, others)
      /\ \A i \in DOMAIN left : \E l \in over + 1 .. Len(others) : left[i] = others[l]
      /\ \A l \in over + 1 .. Len(others) : \E i \in DOMAIN left : left[i] = others[l]
  <2>1. others \in Seq(Snapshots) /\ Apart(others) /\ Len(others) \in 0 .. Len(others)
        /\ over \in 0 .. Len(others) /\ left = Part(others, over, Len(others))
    BY <1>5 DEF Part
  <2> HIDE DEF left
  <2>2. IsPart(left, others, over, Len(others))
    BY <2>1, PartWithin
  <2> QED
    BY <2>2 DEF IsPart
<1>7. /\ Within(gone, others)
      /\ \A i \in DOMAIN gone : \E l \in 1 .. over : gone[i] = others[l]
      /\ \A l \in 1 .. over : \E i \in DOMAIN gone : gone[i] = others[l]
  <2>1. others \in Seq(Snapshots) /\ Apart(others) /\ over \in 0 .. Len(others)
        /\ 0 \in 0 .. over /\ 0 + 1 = 1 /\ gone = Part(others, 0, over)
    BY <1>5 DEF Part
  <2> HIDE DEF gone
  <2>2. IsPart(gone, others, 0, over)
    BY <2>1, PartWithin
  <2> QED
    BY <2>1, <2>2 DEF IsPart
<1> HIDE DEF left, gone
<1>8. /\ StoreAgrees(left, who, tokens, n) /\ \A j \in DOMAIN left : left[j].token # s.token
      /\ StoreAgrees(gone, who, tokens, n) /\ \A j \in DOMAIN gone : gone[j].token # s.token
      /\ StoreAgrees(others, who, tokens, n)
  <2>1. StoreAgrees(others, who, tokens, n)
    BY <1>3, WithinAgrees
  <2>2. StoreAgrees(left, who, tokens, n) /\ StoreAgrees(gone, who, tokens, n)
    BY <1>6, <1>7, <2>1, WithinAgrees
  <2>3. \A l \in DOMAIN others : others[l].token # s.token
    BY <1>3
  <2>4. \A j \in DOMAIN left : \E l \in DOMAIN others : left[j] = others[l]
    BY <1>6 DEF Within
  <2>5. \A j \in DOMAIN gone : \E l \in DOMAIN others : gone[j] = others[l]
    BY <1>7 DEF Within
  <2>6. \A j \in DOMAIN left : left[j].token # s.token
    BY ONLY <2>3, <2>4
  <2>7. \A j \in DOMAIN gone : gone[j].token # s.token
    BY ONLY <2>3, <2>5
  <2> QED
    BY <2>1, <2>2, <2>6, <2>7
<1>9. s.handle \in Nat /\ m \in Nat /\ n <= m /\ kept.handle <= m
  <2>1. CASE m = n
    <3>1. \A p \in DOMAIN st : st[p].handle <= n
      BY DEF StoreAgrees
    <3> QED
      BY <1>4, <2>1, <3>1 DEF Snapshots
  <2> QED
    BY <1>4, <2>1 DEF Snapshots
<1>10. ASSUME NEW h \in Handles
       PROVE  Holds(others, h) <=> \E p \in DOMAIN st : st[p].token # s.token /\ st[p].handle = h
  BY <1>3 DEF Holds, Within
<1>11. ASSUME NEW h \in Handles
       PROVE  (Holds(others, h) <=> Holds(left, h) \/ Holds(gone, h))
              /\ ~(Holds(left, h) /\ Holds(gone, h))
  <2>1. \A l \in DOMAIN others : l \in 1 .. over \/ l \in over + 1 .. Len(others)
    BY <1>5
  <2>2. \A l \in 1 .. over, k \in over + 1 .. Len(others) :
           l \in DOMAIN others /\ k \in DOMAIN others /\ l # k
    BY <1>5
  <2>3. ASSUME Holds(others, h) PROVE Holds(left, h) \/ Holds(gone, h)
    <3>1. PICK l \in DOMAIN others : others[l].handle = h
      BY <2>3 DEF Holds
    <3> QED
      BY <1>6, <1>7, <2>1, <3>1 DEF Holds
  <2>4. ASSUME Holds(left, h) \/ Holds(gone, h) PROVE Holds(others, h)
    BY <1>6, <1>7, <2>4 DEF Holds, Within
  <2>5. ASSUME Holds(left, h), Holds(gone, h) PROVE FALSE
    <3>1. h # 0
      BY DEF Handles
    <3>2. PICK i \in DOMAIN left, j \in DOMAIN gone : left[i].handle = h /\ gone[j].handle = h
      BY <2>5 DEF Holds
    <3>3. PICK k \in over + 1 .. Len(others) : left[i] = others[k]
      BY <1>6
    <3>4. PICK l \in 1 .. over : gone[j] = others[l]
      BY <1>7
    <3> QED
      BY <1>8, <2>2, <3>1, <3>2, <3>3, <3>4 DEF StoreAgrees
  <2> QED
    BY <2>3, <2>4, <2>5
\* What the token kept before.
<1>12. ASSUME NEW p \in DOMAIN st, st[p].token = s.token, NEW h \in Handles, st[p].handle = h
       PROVE  ~Holds(others, h)
  <2>1. h # 0
    BY DEF Handles
  <2>2. ASSUME NEW q \in DOMAIN st, st[q].token # s.token PROVE st[q].handle # h
    <3>1. q # p
      BY <1>12, <2>2
    <3> QED
      BY <1>12, <2>1, <3>1 DEF StoreAgrees
  <2> QED
    BY <1>10, <2>2
<1>13. \A j \in DOMAIN left : left[j].handle = kept.handle => kept.handle = 0
  <2> SUFFICES ASSUME NEW j \in DOMAIN left, left[j].handle = kept.handle, kept.handle # 0
               PROVE  FALSE
    OBVIOUS
  <2>1. PICK q \in DOMAIN st : left[j] = st[q]
    BY <1>3, <1>6 DEF Within
  <2>2. st[q].token # s.token /\ st[q].handle <= n
    BY <1>8, <2>1 DEF StoreAgrees
  <2>3. m = n
    BY <1>4, <2>1, <2>2 DEF Snapshots
  <2>4. PICK p \in DOMAIN st : st[p].token = s.token
    BY <1>4, <2>3
  <2>5. st[p].handle = kept.handle /\ p # q
    BY <1>4, <2>2, <2>3, <2>4
  <2> QED
    BY <2>1, <2>5 DEF StoreAgrees
<1>14. StoreAgrees(saved.store, who, tokens, m)
  BY <1>1, <1>4, <1>8, <1>9, <1>13, AppendAgrees
<1>15. left \in Seq(Snapshots) /\ gone \in Seq(Snapshots)
  BY <1>8 DEF StoreAgrees
<1>16. \A h \in Handles : Holds(saved.store, h) <=> Holds(left, h) \/ kept.handle = h
  <2> DEFINE y == saved.store
  <2>1. kept \in Snapshots /\ left \in Seq(Snapshots) /\ y = Append(left, kept)
    BY <1>1, <1>4, <1>15
  <2> HIDE DEF y
  <2>2. /\ \A i \in DOMAIN left : i \in DOMAIN y /\ y[i] = left[i]
        /\ \E j \in DOMAIN y : y[j] = kept
        /\ \A i \in DOMAIN y : (i \in DOMAIN left /\ y[i] = left[i]) \/ y[i] = kept
    BY <2>1, AppendFacts
  <2>3. \A h \in Handles : Holds(y, h) <=> Holds(left, h) \/ kept.handle = h
    BY <2>2 DEF Holds
  <2> QED
    BY <2>3 DEF y
<1>17. /\ \E j \in DOMAIN saved.store : saved.store[j].token = s.token
       /\ \A j \in DOMAIN saved.store :
                 \/ /\ saved.store[j].token = s.token /\ saved.store[j].whole = s.whole
                    /\ saved.store[j].handle = s.handle
                 \/ /\ saved.store[j].token # s.token
                    /\ \E i \in DOMAIN st : saved.store[j] = st[i]
  <2>0. \E j \in DOMAIN saved.store : saved.store[j] = kept
    <3> DEFINE y == saved.store
    <3>1. kept \in Snapshots /\ left \in Seq(Snapshots) /\ y = Append(left, kept)
      BY <1>1, <1>4, <1>15
    <3> HIDE DEF y
    <3>2. \E j \in DOMAIN y : y[j] = kept
      BY <3>1, AppendFacts
    <3> QED
      BY <3>2 DEF y
  <2>1. \A j \in DOMAIN saved.store : (j \in DOMAIN left /\ saved.store[j] = left[j])
            \/ saved.store[j] = kept
    BY <1>1, <1>4, <1>15, AppendFacts
  <2>2. \A j \in DOMAIN left : \E i \in DOMAIN st : left[j] = st[i]
    BY <1>3, <1>6 DEF Within
  <2>3. \A j \in DOMAIN left : left[j].token # s.token
    BY <1>8
  <2> QED
    BY <1>4, <2>0, <2>1, <2>2, <2>3
<1>18. CASE m = n + 1
  <2>1. kept.handle = m /\ \A h \in Handles : Holds(st, h) => h # m
    BY <1>18 , <1>4 DEF Holds, StoreAgrees
  <2>2. CASE \A p \in DOMAIN st : st[p].token # s.token
    <3>1. saved.dropped = gone
      BY <1>1, <1>4, <1>15, <2>2, ConcatEmptySeq
    <3>2. \A h \in Handles : Holds(st, h) <=> Holds(others, h)
      BY <1>10, <2>2 DEF Holds
    <3> QED
      BY <1>8, <1>11, <1>14, <1>16, <1>17, <1>18, <2>1, <3>1, <3>2
  <2>3. CASE \E p \in DOMAIN st : st[p].token = s.token
    <3>1. PICK p \in DOMAIN st : st[p].token = s.token
      BY <2>3
    <3>2. st[p] \in Snapshots /\ st[p].account = who /\ st[p].handle <= n /\ st[p].token <= tokens
          /\ (st[p].handle = 0 <=> st[p].owner = Nobody)
      BY <3>1 DEF StoreAgrees
    <3>3. saved.dropped = Append(gone, st[p])
      <4>1. back = <<st[p]>>
        BY <1>4, <1>18, <3>1
      <4> QED
        BY <1>1, <1>15, <3>2, <4>1, AppendIsConcat
    <3>4. \A j \in DOMAIN gone : gone[j].handle = st[p].handle => st[p].handle = 0
      <4> SUFFICES ASSUME NEW j \in DOMAIN gone, gone[j].handle = st[p].handle
                   PROVE  st[p].handle = 0
        OBVIOUS
      <4>1. PICK q \in DOMAIN st : gone[j] = st[q]
        BY <1>3, <1>7 DEF Within
      <4>2. q # p
        BY <1>8, <3>1, <4>1
      <4> QED
        BY <4>1, <4>2 DEF StoreAgrees
    <3>5. \A j \in DOMAIN gone : gone[j].token # st[p].token
      BY <1>8, <3>1
    <3> DEFINE y == saved.dropped
               e == st[p]
    <3> HIDE DEF e
    <3>0. /\ e \in Snapshots /\ e.account = who /\ e.handle <= n /\ e.token <= tokens
          /\ (e.handle = 0 <=> e.owner = Nobody) /\ y = Append(gone, e) /\ n <= n
          /\ \A j \in DOMAIN gone : gone[j].handle = e.handle => e.handle = 0
          /\ \A j \in DOMAIN gone : gone[j].token # e.token
      BY <3>2, <3>3, <3>4, <3>5 DEF e
    <3> HIDE DEF y
    <3>6. StoreAgrees(y, who, tokens, n)
      BY <1>8, <3>0, AppendAgrees
    <3>61. /\ \A i \in DOMAIN gone : i \in DOMAIN y /\ y[i] = gone[i]
           /\ \E j \in DOMAIN y : y[j] = e
           /\ \A i \in DOMAIN y : (i \in DOMAIN gone /\ y[i] = gone[i]) \/ y[i] = e
      BY <1>15, <3>0, AppendFacts
    <3>7. \A h \in Handles : Holds(y, h) <=> Holds(gone, h) \/ st[p].handle = h
      BY <3>61 DEF Holds, e
    <3>8. \A h \in Handles : Holds(st, h) <=> Holds(others, h) \/ st[p].handle = h
      <4>1. \A q \in DOMAIN st : st[q].token = s.token => q = p
        BY <1>2, <3>1 DEF Apart
      <4> QED
        BY <1>10, <3>1, <4>1 DEF Holds
    <3>9. \A h \in Handles : st[p].handle = h => ~Holds(others, h)
      BY <1>12, <3>1
    <3> QED
      BY <1>11, <1>14, <1>16, <1>17, <1>18, <2>1, <3>6, <3>7, <3>8, <3>9 DEF y
  <2> QED
    BY <2>2, <2>3
<1>19. CASE m = n
  <2>1. back = <<>>
    BY <1>4, <1>19
  <2>2. saved.dropped = gone
    BY <1>1, <1>15, <2>1, ConcatEmptySeq
  <2>3. \A h \in Handles : Holds(st, h) <=> Holds(others, h) \/ kept.handle = h
    <3>1. CASE \A p \in DOMAIN st : st[p].token # s.token
      <4>1. kept.handle = 0 /\ \A h \in Handles : h # 0
        BY <1>4, <1>19, <3>1 DEF Handles
      <4> QED
        BY <1>10, <3>1, <4>1 DEF Holds
    <3>2. CASE \E p \in DOMAIN st : st[p].token = s.token
      <4>1. PICK p \in DOMAIN st : st[p].token = s.token
        BY <3>2
      <4>2. kept.handle = st[p].handle /\ \A q \in DOMAIN st : st[q].token = s.token => q = p
        BY <1>2, <1>4, <1>19, <4>1 DEF Apart
      <4> QED
        BY <1>10, <4>1, <4>2 DEF Holds
    <3> QED
      BY <3>1, <3>2
  <2>4. \A h \in Handles : kept.handle = h => ~Holds(others, h)
    <3>1. CASE \A p \in DOMAIN st : st[p].token # s.token
      BY <1>4, <1>19, <3>1 DEF Handles
    <3>2. CASE \E p \in DOMAIN st : st[p].token = s.token
      BY <1>4, <1>12, <1>19, <3>2
    <3> QED
      BY <3>1, <3>2
  <2>5. m # n + 1
    BY <1>19
  <2> QED
    BY <1>8, <1>11, <1>14, <1>16, <1>17, <2>2, <2>3, <2>4, <2>5
<1> QED
  BY <1>18, <1>19

--------
(* The presented page.                                                     *)

Entries == [page : Pages, token : Nat]

PageRecords ==
    [stage : {"none", "loading", "mounted", "unavailable"}, name : Pages \cup {Nobody},
     token : Nat, restored : Snapshots \cup {Nobody}, restoring : BOOLEAN,
     settled : BOOLEAN, shown : BOOLEAN, chosen : BOOLEAN]

\* What the store keeps of the presented entry: the state the page restores,
\* nothing yet of a page that asked to go back before it was mounted, or the
\* state a mounted page handed over since it was presented.
Resumes(p, e) ==
    \/ p.restored # Nobody /\ e.handle = p.restored.handle /\ e.whole = p.restored.whole
    \/ p.restored = Nobody /\ e.handle = 0 /\ ~e.whole
    \/ /\ p.stage = "mounted"
       /\ p.restored # Nobody => e.handle > p.restored.handle
       /\ p.restoring /\ e.whole => p.restored.whole

\* The store keeps what a page restores until that page hands over newer state,
\* and a page gives the context up only for what it shows or the user chose.
PageAgrees(p, st) ==
    /\ p.restored # Nobody =>
         p.stage # "none" /\ p.restored.token = p.token /\ \E i \in DOMAIN st : st[i].token = p.token
    /\ p.stage # "none" => \A i \in DOMAIN st : st[i].token = p.token => Resumes(p, st[i])
    /\ p.restoring => p.restored # Nobody
    /\ p.stage \in {"loading", "unavailable"} =>
         ~p.shown /\ (p.restored # Nobody => p.restoring)
    /\ p.stage = "mounted" /\ ~p.restoring => p.shown \/ p.chosen

\* A page that is presented is its entry's, and the account's.
Stands(p, entry, who) ==
    /\ p.stage # "none" => p.name = entry.page /\ p.token = entry.token
    /\ p.stage = "none" <=> who = Nobody

ShellTypes ==
    /\ verified \in Users \cup {Nobody} /\ account \in Users \cup {Nobody}
    /\ history \in Seq(Entries) /\ at \in DOMAIN history
    /\ opened \in Nat /\ \A i \in DOMAIN history : history[i].token <= opened
    /\ captured \in 0 .. MaxHandles
    /\ page \in PageRecords
    /\ signOut \in [pending : BOOLEAN, hidden : BOOLEAN]

ShellInv ==
    /\ ShellTypes
    /\ StoreAgrees(store, account, opened, captured)
    /\ HandlesAgree(store, released, captured)
    /\ PageAgrees(page, store)
    /\ ~closed => Stands(page, history[at], account)
    /\ SignOutNeverStuck

LEMMA StoreGrows ==
    ASSUME NEW st, NEW who, NEW t \in Nat, NEW n, StoreAgrees(st, who, t, n),
           NEW u \in Nat, t <= u
    PROVE  StoreAgrees(st, who, u, n)
<1>1. ASSUME NEW i \in DOMAIN st PROVE st[i].token \in Nat
  <2>1. st[i] \in Snapshots
    BY DEF StoreAgrees
  <2> QED
    BY <2>1 DEF Snapshots
<1> QED
  BY <1>1 DEF StoreAgrees

LEMMA EmptyStore ==
    ASSUME NEW who, NEW t, NEW n
    PROVE  StoreAgrees(<<>>, who, t, n) /\ \A h : ~Holds(<<>>, h)
BY DEF StoreAgrees, Apart, Holds

\* renderPage restores exactly what the store keeps of the entry.
LEMMA Viewed ==
    ASSUME NEW who \in Users \cup {Nobody}, NEW st, NEW t, NEW n, StoreAgrees(st, who, t, n),
           NEW entry \in Entries, NEW v, v = View(who, entry, st)
    PROVE  /\ v \in PageRecords /\ PageAgrees(v, st) /\ Stands(v, entry, who)
           /\ (\A i \in DOMAIN st : st[i].token # entry.token) => v.restored = Nobody
<1>1. CASE who = Nobody
  <2>1. v = Empty
    BY <1>1 DEF View
  <2>2. v.stage = "none" /\ v.restored = Nobody /\ ~v.restoring
    BY <2>1 DEF Empty
  <2>3. v \in PageRecords
    BY <2>1 DEF Empty, PageRecords
  <2> QED
    BY <1>1, <2>2, <2>3 DEF PageAgrees, Stands
<1>2. CASE who # Nobody
  <2> DEFINE r == Read(st, who, entry.token)
  <2>1. /\ Kept(st, entry.token) = {} => r = Nobody
        /\ Kept(st, entry.token) # {} =>
             \E i \in DOMAIN st : r = st[i] /\ st[i].token = entry.token
    <3> DEFINE found == {i \in Kept(st, entry.token) : st[i].account = who}
    <3>1. \A i \in Kept(st, entry.token) : st[i].account = who
      BY DEF Kept, StoreAgrees
    <3>2. found = Kept(st, entry.token)
      BY <3>1
    <3>3. r = IF found = {} THEN Nobody ELSE st[CHOOSE i \in found : TRUE]
      BY DEF Read
    <3> HIDE DEF found, r
    <3>4. \A i \in found : i \in DOMAIN st /\ st[i].token = entry.token
      BY <3>2 DEF Kept
    <3> QED
      BY <3>2, <3>3, <3>4
  <2>2. v = [Empty EXCEPT !.stage = "loading", !.name = entry.page, !.token = entry.token,
                          !.restored = r, !.restoring = r # Nobody]
    BY <1>2 DEF View
  <2> HIDE DEF r
  <2>3. v = [stage |-> "loading", name |-> entry.page, token |-> entry.token, restored |-> r,
             restoring |-> r # Nobody, settled |-> FALSE, shown |-> FALSE, chosen |-> FALSE]
    BY <2>2 DEF Empty
  <2>4. CASE Kept(st, entry.token) = {}
    <3>1. r = Nobody /\ \A i \in DOMAIN st : st[i].token # entry.token
      BY <2>1, <2>4 DEF Kept
    <3>0. v = [stage |-> "loading", name |-> entry.page, token |-> entry.token,
               restored |-> Nobody, restoring |-> FALSE, settled |-> FALSE,
               shown |-> FALSE, chosen |-> FALSE]
      BY <2>3, <3>1
    <3>2. /\ v.stage = "loading" /\ v.name = entry.page /\ v.token = entry.token
          /\ v.restored = Nobody /\ ~v.restoring
      BY ONLY <3>0
    <3>3. v \in PageRecords
      BY <2>3, <3>1 DEF PageRecords, Entries
    <3>4. ~v.shown
      BY ONLY <3>0
    <3> QED
      BY <1>2, <3>1, <3>2, <3>3, <3>4 DEF PageAgrees, Stands
  <2>5. CASE Kept(st, entry.token) # {}
    <3>1. PICK i \in DOMAIN st : r = st[i] /\ st[i].token = entry.token
      BY <2>1, <2>5 DEF Kept
    <3>2. r \in Snapshots
      BY <3>1 DEF StoreAgrees
    <3>3. r # Nobody
      BY <3>2, StoreAssumption DEF Snapshots
    <3>0. v = [stage |-> "loading", name |-> entry.page, token |-> entry.token,
               restored |-> r, restoring |-> TRUE, settled |-> FALSE,
               shown |-> FALSE, chosen |-> FALSE]
      BY <2>3, <3>3
    <3>4. /\ v.stage = "loading" /\ v.name = entry.page /\ v.token = entry.token
          /\ v.restored = r /\ v.restoring /\ ~v.shown
      BY ONLY <3>0
    <3>5. v \in PageRecords
      BY <2>3, <3>2, <3>3 DEF PageRecords, Entries
    <3>6. \A j \in DOMAIN st : st[j].token = v.token => st[j] = r
      BY <3>1, <3>4 DEF StoreAgrees, Apart
    <3>7. \A j \in DOMAIN st : st[j].token = v.token => Resumes(v, st[j])
      BY <3>3, <3>4, <3>6 DEF Resumes
    <3> QED
      BY <1>2, <3>1, <3>3, <3>4, <3>5, <3>7 DEF PageAgrees, Stands
  <2> QED
    BY <2>4, <2>5
<1> QED
  BY <1>1, <1>2

\* render at an entry, over the store of that account.
LEMMA Rendered ==
    ASSUME history \in Seq(Entries), opened \in Nat,
           \A j \in DOMAIN history : history[j].token <= opened,
           NEW who \in Users \cup {Nobody}, NEW i \in DOMAIN history, NEW st, NEW n,
           StoreAgrees(st, who, opened, n), Render(who, history, i, st)
    PROVE  /\ history' \in Seq(Entries) /\ at' \in DOMAIN history'
           /\ opened' \in Nat /\ opened <= opened'
           /\ \A j \in DOMAIN history' : history'[j].token <= opened'
           /\ page' \in PageRecords /\ PageAgrees(page', st)
           /\ Stands(page', history'[at'], who)
<1> DEFINE foreign == who # Nobody /\ history[i].token = 0
           token == IF foreign THEN opened + 1 ELSE history[i].token
           named == [history EXCEPT ![i].token = token]
<1>1. history[i] \in Entries
  OBVIOUS
<1>2. /\ history' = named /\ at' = i /\ opened' = (IF foreign THEN opened + 1 ELSE opened)
      /\ page' = View(who, named[i], st)
  BY DEF Render
<1>3. token \in Nat /\ token <= opened' /\ opened' \in Nat /\ opened <= opened'
  BY <1>1, <1>2 DEF Entries
<1> HIDE DEF token, foreign
<1>4. named \in Seq(Entries) /\ DOMAIN named = DOMAIN history
      /\ named[i].token = token /\ \A j \in DOMAIN history : j # i => named[j] = history[j]
  <2>1. [history[i] EXCEPT !.token = token] \in Entries
    BY <1>1, <1>3 DEF Entries
  <2>2. named = [history EXCEPT ![i] = [history[i] EXCEPT !.token = token]]
    OBVIOUS
  <2>3. [history[i] EXCEPT !.token = token].token = token
    BY <1>1 DEF Entries
  <2> DEFINE e == [history[i] EXCEPT !.token = token]
  <2> HIDE DEF e
  <2>4. /\ e \in Entries /\ named = [history EXCEPT ![i] = e] /\ e.token = token
        /\ i \in 1 .. Len(history) /\ DOMAIN history = 1 .. Len(history)
    BY <2>1, <2>2, <2>3 DEF e
  <2> HIDE DEF named
  <2>5. /\ named \in Seq(Entries) /\ Len(named) = Len(history)
        /\ \A j \in 1 .. Len(history) : named[j] = IF j = i THEN e ELSE history[j]
    BY <2>4, ExceptSeq
  <2> QED
    BY <2>4, <2>5
<1> HIDE DEF named
<1>5. named[i] \in Entries /\ i \in DOMAIN named
  BY <1>4
<1>6. page' \in PageRecords /\ PageAgrees(page', st) /\ Stands(page', named[i], who)
  BY <1>2, <1>5, Viewed
<1>7. ASSUME NEW j \in DOMAIN history PROVE history[j].token \in Nat
  <2>1. history[j] \in Entries
    OBVIOUS
  <2> QED
    BY <2>1 DEF Entries
<1> QED
  BY <1>2, <1>3, <1>4, <1>5, <1>6, <1>7

--------
(* Leaving a page.                                                         *)

\* rememberCurrent keeps the view as it is captured, or the context the entry
\* still restores.
LEMMA Leaves ==
    ASSUME ShellInv, ~closed, account # Nobody, captured < MaxHandles,
           NEW left, left = Saved(store, Snapshot),
           NEW m, m = IF Captures THEN captured + 1 ELSE captured
    PROVE  /\ m \in 0 .. MaxHandles
           /\ StoreAgrees(left.store, account, opened, m)
           /\ HandlesAgree(left.store, Back(released, left.dropped), m)
           /\ \E j \in DOMAIN left.store : left.store[j].token = page.token
           /\ \A j \in DOMAIN left.store :
                 \/ /\ left.store[j].token = page.token
                    /\ left.store[j].whole = Snapshot.whole
                    /\ left.store[j].handle = IF Mounted THEN captured + 1 ELSE Fallback
                 \/ /\ left.store[j].token # page.token
                    /\ \E i \in DOMAIN store : left.store[j] = store[i]
<1> DEFINE s == Snapshot
<1>1. /\ captured \in Nat /\ MaxHandles \in Nat /\ opened \in Nat /\ account \in Users
      /\ page \in PageRecords /\ PageAgrees(page, store)
      /\ StoreAgrees(store, account, opened, captured)
      /\ HandlesAgree(store, released, captured)
  BY StoreAssumption DEF ShellInv, ShellTypes
<1>2. /\ page.stage # "none" /\ page.name \in Pages /\ page.token \in Nat
      /\ page.token <= opened
  <2>1. history[at] \in Entries /\ history[at].token <= opened
    BY DEF ShellInv, ShellTypes
  <2> QED
    BY <2>1 DEF ShellInv, Stands, Entries
<1>3. /\ page.restored \in Snapshots \cup {Nobody} /\ page.restoring \in BOOLEAN
      /\ page.shown \in BOOLEAN /\ page.stage \in {"none", "loading", "mounted", "unavailable"}
  BY <1>1 DEF PageRecords
<1>4. page.restoring => page.restored \in Snapshots
  BY <1>1, <1>3 DEF PageAgrees
<1>5. /\ s.token = page.token /\ s.account = account
      /\ s.handle = (IF Mounted THEN captured + 1 ELSE Fallback)
      /\ s.owner = (IF Mounted THEN page.name ELSE Nobody)
  BY DEF Snapshot
<1>6. Fallback \in Nat
  BY <1>4 DEF Fallback, Snapshots
<1>7. s \in Snapshots
  <2>1. (IF KeepsContext THEN page.restored.whole ELSE page.shown) \in BOOLEAN
    BY <1>3, <1>4 DEF KeepsContext, Snapshots
  <2> QED
    BY <1>1, <1>2, <1>6, <2>1 DEF Snapshot, Snapshots
<1> HIDE DEF s
<1>8. Nobody \notin Pages
  BY StoreAssumption
<1>9. /\ m \in {captured, captured + 1} /\ m \in 0 .. MaxHandles
      /\ (m = captured + 1) => s.handle = m /\ s.owner # Nobody
      /\ (m = captured) => ~Mounted
  <2>1. captured + 1 \in 0 .. MaxHandles /\ captured \in 0 .. MaxHandles /\ captured # captured + 1
    BY <1>1
  <2>2. CASE Mounted
    <3>1. m = captured + 1 /\ s.handle = captured + 1 /\ s.owner = page.name
      BY <1>5, <2>2 DEF Captures
    <3> QED
      BY <1>2, <1>8, <2>1, <3>1
  <2>3. CASE ~Mounted
    BY <2>1, <2>3 DEF Captures
  <2> QED
    BY <2>2, <2>3
<1>10. ASSUME ~Mounted
       PROVE  /\ s.owner = Nobody
              /\ \A i \in DOMAIN store : store[i].token = s.token => store[i].handle = s.handle
              /\ (\A i \in DOMAIN store : store[i].token # s.token) => s.handle = 0
  <2>1. page.stage \in {"loading", "unavailable"}
    BY <1>2, <1>3, <1>10 DEF Mounted
  <2>2. s.owner = Nobody /\ s.handle = Fallback
    BY <1>5, <1>10
  <2>5. \A i \in DOMAIN store : store[i].token = s.token => Resumes(page, store[i])
    BY <1>1, <1>2, <1>5 DEF PageAgrees
  <2>6. page.stage # "mounted"
    BY <1>10 DEF Mounted
  <2>3. CASE page.restored = Nobody
    <3>1. ~page.restoring
      BY <1>1, <2>3 DEF PageAgrees
    <3> QED
      BY <2>2, <2>3, <2>5, <2>6, <3>1 DEF Resumes, Fallback
  <2>4. CASE page.restored # Nobody
    <3>1. page.restoring /\ \E i \in DOMAIN store : store[i].token = s.token
      BY <1>1, <1>5, <2>1, <2>4 DEF PageAgrees
    <3> QED
      BY <2>2, <2>4, <2>5, <2>6, <3>1 DEF Resumes, Fallback
  <2> QED
    BY <2>3, <2>4
<1>11. /\ s \in Snapshots /\ s.account = account /\ s.token <= opened
       /\ (m = captured) =>
            /\ s.owner = Nobody
            /\ \A i \in DOMAIN store : store[i].token = s.token => store[i].handle = s.handle
            /\ (\A i \in DOMAIN store : store[i].token # s.token) => s.handle = 0
       /\ left = Saved(store, s)
  BY <1>2, <1>5, <1>7, <1>9, <1>10 DEF s
<1> HIDE DEF s
<1>12. /\ StoreAgrees(left.store, account, opened, m)
       /\ StoreAgrees(left.dropped, account, opened, captured)
       /\ \A h \in Handles : (Holds(left.dropped, h) => Holds(store, h))
             /\ (Holds(left.store, h) <=>
                    (Holds(store, h) /\ ~Holds(left.dropped, h)) \/ (m = captured + 1 /\ h = m))
       /\ \E j \in DOMAIN left.store : left.store[j].token = s.token
       /\ \A j \in DOMAIN left.store :
             \/ /\ left.store[j].token = s.token /\ left.store[j].whole = s.whole
                /\ left.store[j].handle = s.handle
             \/ /\ left.store[j].token # s.token
                /\ \E i \in DOMAIN store : left.store[j] = store[i]
  <2>1. /\ captured \in Nat /\ StoreAgrees(store, account, opened, captured)
        /\ m \in {captured, captured + 1} /\ (m = captured + 1 => s.handle = m /\ s.owner # Nobody)
    BY <1>1, <1>9
  <2> QED
    BY <1>11, <2>1, SavedFacts
<1>13. \A h \in Handles : Holds(store, h) => h <= captured
  BY <1>1 DEF StoreAgrees, Holds
<1>14. HandlesAgree(left.store, Back(released, left.dropped), m)
  BY <1>1, <1>9, <1>12, <1>13, HandlesMove
<1> QED
  BY <1>5, <1>9, <1>12, <1>14 DEF s

\* replace: what it gives back is what the entry kept.
LEMMA Forgets ==
    ASSUME NEW st, NEW who, NEW t, NEW n \in Nat, StoreAgrees(st, who, t, n),
           NEW given, HandlesAgree(st, given, n), NEW token
    PROVE  /\ StoreAgrees(DropToken(st, token), who, t, n)
           /\ HandlesAgree(DropToken(st, token), Back(given, OfToken(st, token)), n)
           /\ \A j \in DOMAIN DropToken(st, token) :
                 \E i \in DOMAIN st : DropToken(st, token)[j] = st[i]
<1> DEFINE y == DropToken(st, token)
           x == OfToken(st, token)
<1>1. st \in Seq(Snapshots) /\ Apart(st)
  BY DEF StoreAgrees
<1>2. /\ Within(y, st) /\ \A j \in DOMAIN y : y[j].token # token
      /\ \A i \in DOMAIN st : st[i].token # token => \E j \in DOMAIN y : y[j] = st[i]
  BY <1>1, Dropped
<1>3. /\ Within(x, st) /\ \A j \in DOMAIN x : x[j].token = token
      /\ \A i \in DOMAIN st : st[i].token = token => \E j \in DOMAIN x : x[j] = st[i]
  <2>1. CASE Kept(st, token) = {}
    <3>1. x = <<>> /\ \A i \in DOMAIN st : st[i].token # token
      BY <2>1 DEF OfToken, Kept
    <3> QED
      BY <3>1 DEF Within, Apart
  <2>2. CASE Kept(st, token) # {}
    <3> DEFINE p == Place(st, token)
    <3>1. p \in DOMAIN st /\ st[p].token = token
      BY <2>2 DEF Place, Kept
    <3>2. x = <<st[p]>>
      BY <2>2 DEF OfToken
    <3> HIDE DEF p, x
    <3>3. st[p] \in Snapshots /\ \A i \in DOMAIN st : st[i].token = token => i = p
      BY <1>1, <3>1 DEF Apart
    <3>4. x \in Seq(Snapshots) /\ DOMAIN x = {1} /\ x[1] = st[p]
      BY <3>2, <3>3
    <3> QED
      BY <3>1, <3>3, <3>4 DEF Within, Apart
  <2> QED
    BY <2>1, <2>2
<1> HIDE DEF x, y
<1>4. StoreAgrees(y, who, t, n) /\ StoreAgrees(x, who, t, n)
  BY <1>2, <1>3, WithinAgrees
<1>5. ASSUME NEW h \in Handles
      PROVE  (Holds(x, h) => Holds(st, h)) /\ (Holds(y, h) <=> Holds(st, h) /\ ~Holds(x, h))
  <2>1. h # 0
    BY DEF Handles
  <2>2. \A i, j \in DOMAIN st : i # j /\ st[i].handle = h => st[j].handle # h
    BY <2>1 DEF StoreAgrees
  <2>3. Holds(x, h) => Holds(st, h)
    BY <1>3 DEF Within, Holds
  <2>4. Holds(y, h) => Holds(st, h)
    BY <1>2 DEF Within, Holds
  <2>5. ASSUME Holds(x, h), Holds(y, h) PROVE FALSE
    <3>1. PICK i \in DOMAIN x, j \in DOMAIN y : x[i].handle = h /\ y[j].handle = h
      BY <2>5 DEF Holds
    <3>2. PICK k \in DOMAIN st, l \in DOMAIN st : x[i] = st[k] /\ y[j] = st[l]
      BY <1>2, <1>3 DEF Within
    <3> QED
      BY <1>2, <1>3, <2>2, <3>1, <3>2
  <2>6. Holds(st, h) => Holds(x, h) \/ Holds(y, h)
    BY <1>2, <1>3 DEF Holds
  <2> QED
    BY <2>3, <2>4, <2>5, <2>6
<1>6. /\ n \in {n, n + 1} /\ n # n + 1
      /\ \A h \in Handles : Holds(st, h) => h <= n
  BY DEF StoreAgrees, Holds
<1>7. HandlesAgree(y, Back(given, x), n)
  BY <1>4, <1>5, <1>6, HandlesMove
<1> QED
  BY <1>2, <1>4, <1>7 DEF x, y, Within

\* clear: every handle the store keeps is given back.
LEMMA Clears ==
    ASSUME NEW st, NEW who, NEW t, NEW n \in Nat, StoreAgrees(st, who, t, n),
           NEW given, HandlesAgree(st, given, n)
    PROVE  HandlesAgree(<<>>, Back(given, st), n)
<1>1. /\ n \in {n, n + 1} /\ n # n + 1
      /\ \A h \in Handles : Holds(st, h) => h <= n
      /\ \A h \in Handles : (Holds(<<>>, h) <=> Holds(st, h) /\ ~Holds(st, h))
  BY DEF StoreAgrees, Holds
<1> QED
  BY <1>1, HandlesMove

--------
(* The steps.                                                              *)

LEMMA ShellStarts == ShellInit => ShellInv
<1> SUFFICES ASSUME ShellInit PROVE ShellInv
  OBVIOUS
<1>1. PICK name \in Pages, before \in Pages :
         history = <<[page |-> before, token |-> 0],
                     [page |-> name, token |-> IF verified = Nobody THEN 0 ELSE 1]>>
  BY DEF ShellInit
<1>2. /\ [page |-> before, token |-> 0] \in Entries
      /\ [page |-> name, token |-> IF verified = Nobody THEN 0 ELSE 1] \in Entries
  BY DEF Entries
<1>3. /\ history \in Seq(Entries) /\ at \in DOMAIN history /\ history[at] \in Entries
      /\ opened \in Nat /\ \A i \in DOMAIN history : history[i].token <= opened
      /\ verified \in Users \cup {Nobody} /\ account = verified
  BY <1>1, <1>2 DEF ShellInit
<1>4. StoreAgrees(<<>>, account, opened, captured)
  BY EmptyStore
<1>5. page = View(account, history[at], <<>>)
  BY DEF ShellInit
<1>6. page \in PageRecords /\ PageAgrees(page, <<>>) /\ Stands(page, history[at], account)
  BY <1>3, <1>4, <1>5, Viewed
<1>7. HandlesAgree(<<>>, released, captured)
  <2>1. \A h \in Handles : ~(h <= 0)
    BY StoreAssumption DEF Handles
  <2> QED
    BY <2>1 DEF ShellInit, HandlesAgree
<1>8. /\ store = <<>> /\ captured \in 0 .. MaxHandles
      /\ signOut \in [pending : BOOLEAN, hidden : BOOLEAN]
      /\ ~signOut.pending /\ ~signOut.hidden
  BY StoreAssumption DEF ShellInit
<1> QED
  BY <1>3, <1>4, <1>6, <1>7, <1>8 DEF ShellInv, ShellTypes, SignOutNeverStuck

\* A step that changes the presented page alone.
LEMMA PageSteps ==
    ASSUME ShellInv, ~closed,
           UNCHANGED <<verified, account, history, at, lateLoad, store, released, opened,
                       captured, signOut, operations, closed>>,
           page' \in PageRecords, PageAgrees(page', store), page'.name = page.name,
           page'.token = page.token, page'.stage = "none" <=> page.stage = "none"
    PROVE  ShellInv'
<1>1. Stands(page', history[at], account)
  BY DEF ShellInv, Stands
<1> QED
  BY <1>1 DEF ShellInv, ShellTypes, SignOutNeverStuck

\* A step that presents and keeps what it did.
LEMMA QuietSteps ==
    ASSUME ShellInv, UNCHANGED <<account, history, at, page, store, released, opened,
                                 captured, closed>>,
           verified' \in Users \cup {Nobody},
           signOut' \in [pending : BOOLEAN, hidden : BOOLEAN], SignOutNeverStuck'
    PROVE  ShellInv'
BY DEF ShellInv, ShellTypes

LEMMA PresentingSteps ==
    ASSUME ShellInv, ~closed, Mount \/ Unavailable \/ Input \/ (\E ok \in BOOLEAN : Presented(ok))
    PROVE  ShellInv'
<1>1. page \in PageRecords /\ PageAgrees(page, store)
  BY DEF ShellInv, ShellTypes
<1>2. CASE Mount
  <2> DEFINE waits == page.restoring /\ page.name \in Reporting
  <2>1. waits \in BOOLEAN /\ (waits => page.restoring)
    OBVIOUS
  <2>2. page' = [page EXCEPT !.stage = "mounted", !.restoring = waits, !.shown = ~waits]
        /\ page.stage = "loading"
    BY <1>2 DEF Mount
  <2> HIDE DEF waits
  <2>3. /\ page' \in PageRecords /\ page'.name = page.name /\ page'.token = page.token
        /\ page'.stage = "mounted" /\ page'.restored = page.restored
        /\ page'.restoring = waits /\ page'.shown = ~waits
    BY <1>1, <2>1, <2>2 DEF PageRecords
  <2>5. ASSUME NEW e, Resumes(page, e) PROVE Resumes(page', e)
    BY <2>2, <2>3, <2>5 DEF Resumes
  <2>4. PageAgrees(page', store)
    BY <1>1, <2>1, <2>2, <2>3, <2>5 DEF PageAgrees
  <2> QED
    BY <1>2, <2>2, <2>3, <2>4, PageSteps DEF Mount
<1>3. CASE Unavailable
  <2>1. page' = [page EXCEPT !.stage = "unavailable"] /\ page.stage = "loading"
    BY <1>3 DEF Unavailable
  <2>2. /\ page' \in PageRecords /\ page'.name = page.name /\ page'.token = page.token
        /\ page'.stage = "unavailable" /\ page'.restored = page.restored
        /\ page'.restoring = page.restoring /\ page'.shown = page.shown
    BY <1>1, <2>1 DEF PageRecords
  <2>4. ASSUME NEW e, Resumes(page, e) PROVE Resumes(page', e)
    BY <2>1, <2>2, <2>4 DEF Resumes
  <2>3. PageAgrees(page', store)
    BY <1>1, <2>1, <2>2, <2>4 DEF PageAgrees
  <2> QED
    BY <1>3, <2>1, <2>2, <2>3, PageSteps DEF Unavailable
<1>4. CASE Input
  <2>1. /\ page' = [page EXCEPT !.restoring = FALSE, !.chosen = page.settled]
        /\ page.stage = "mounted" /\ page.settled
    BY <1>4 DEF Input, TakesOver, Mounted
  <2>2. /\ page' \in PageRecords /\ page'.name = page.name /\ page'.token = page.token
        /\ page'.stage = page.stage /\ page'.restored = page.restored
        /\ ~page'.restoring /\ page'.chosen
    BY <1>1, <2>1 DEF PageRecords
  <2>4. ASSUME NEW e, Resumes(page, e) PROVE Resumes(page', e)
    BY <2>1, <2>2, <2>4 DEF Resumes
  <2>3. PageAgrees(page', store)
    BY <1>1, <2>1, <2>2, <2>4 DEF PageAgrees
  <2> QED
    BY <1>4, <2>1, <2>2, <2>3, PageSteps DEF Input
<1>5. ASSUME NEW ok \in BOOLEAN, Presented(ok) PROVE ShellInv'
  <2>1. /\ page' = [page EXCEPT !.settled = TRUE, !.shown = ok]
        /\ page.stage = "mounted" /\ page.restoring
    BY <1>5 DEF Presented, Mounted
  <2>2. /\ page' \in PageRecords /\ page'.name = page.name /\ page'.token = page.token
        /\ page'.stage = page.stage /\ page'.restored = page.restored /\ page'.restoring
    BY <1>1, <2>1 DEF PageRecords
  <2>4. ASSUME NEW e, Resumes(page, e) PROVE Resumes(page', e)
    BY <2>1, <2>2, <2>4 DEF Resumes
  <2>3. PageAgrees(page', store)
    BY <1>1, <2>1, <2>2, <2>4 DEF PageAgrees
  <2> QED
    BY <1>5, <2>1, <2>2, <2>3, PageSteps DEF Presented
<1> QED
  BY <1>2, <1>3, <1>4, <1>5

LEMMA NavigateSteps ==
    ASSUME ShellInv, ~closed, account # Nobody, NEW name \in Pages, Navigate(name)
    PROVE  ShellInv'
<1> DEFINE left == Saved(store, Snapshot)
           m == IF Captures THEN captured + 1 ELSE captured
           entry == [page |-> name, token |-> opened + 1]
           entries == Append(SubSeq(history, 1, at), entry)
<1>1. /\ opened \in Nat /\ captured \in Nat /\ history \in Seq(Entries) /\ at \in DOMAIN history
      /\ \A i \in DOMAIN history : history[i].token <= opened
      /\ account \in Users \cup {Nobody}
  BY DEF ShellInv, ShellTypes
<1>2. page.stage # "none"
  BY DEF ShellInv, Stands
<1>3. captured < MaxHandles
  BY DEF Navigate, Room
<1>4. /\ m \in 0 .. MaxHandles /\ StoreAgrees(left.store, account, opened, m)
      /\ HandlesAgree(left.store, Back(released, left.dropped), m)
  BY <1>3, Leaves
<1>5. Remembered = left
  BY <1>2 DEF Remembered
<1>6. /\ store' = left.store /\ released' = Back(released, left.dropped) /\ captured' = m
      /\ history' = entries /\ at' = at + 1 /\ opened' = opened + 1
      /\ page' = View(account, entries[at + 1], left.store)
      /\ signOut' = [signOut EXCEPT !.hidden = FALSE]
      /\ UNCHANGED <<verified, account, operations, closed>>
  BY <1>5 DEF Navigate
<1> HIDE DEF left, m
<1>7. /\ entries \in Seq(Entries) /\ at + 1 \in DOMAIN entries /\ entries[at + 1] = entry
      /\ entry \in Entries /\ \A i \in DOMAIN entries : entries[i].token <= opened + 1
  <2> DEFINE before == SubSeq(history, 1, at)
  <2>1. entry \in Entries /\ entry.token = opened + 1
    BY <1>1 DEF Entries
  <2>2. Len(history) \in Nat /\ at \in 1 .. Len(history) /\ 1 \in 1 .. Len(history) + 1
        /\ at \in 1 - 1 .. Len(history) /\ DOMAIN history = 1 .. Len(history)
    BY <1>1
  <2>3. before \in Seq(Entries) /\ Len(before) = at /\ \A i \in 1 .. at : before[i] = history[i]
    <3>1. /\ before \in Seq(Entries) /\ Len(before) = (IF 1 <= at THEN at - 1 + 1 ELSE 0)
          /\ \A i \in 1 .. at - 1 + 1 : before[i] = history[1 + i - 1]
      BY <1>1, <2>2, SubSeqProperties
    <3>2. \A i \in 1 .. at : 1 + i - 1 = i
      BY <2>2
    <3> QED
      BY <2>2, <3>1, <3>2
  <2> HIDE DEF before, entry
  <2> DEFINE all == Append(before, entry)
  <2>4. /\ all \in Seq(Entries) /\ Len(all) = Len(before) + 1 /\ all[Len(before) + 1] = entry
        /\ \A i \in 1 .. Len(before) : all[i] = before[i]
    BY <2>1, <2>3, AppendProperties
  <2>5. entries = all
    BY DEF before
  <2> HIDE DEF all, entries
  <2>6. ASSUME NEW i \in DOMAIN all PROVE all[i].token <= opened + 1
    <3>1. CASE i = at + 1
      BY <1>1, <2>1, <2>3, <2>4, <3>1
    <3>2. CASE i \in 1 .. at
      <4>1. all[i] = history[i] /\ i \in DOMAIN history /\ history[i] \in Entries
        BY <1>1, <2>2, <2>3, <2>4, <3>2
      <4>2. history[i].token \in Nat /\ history[i].token <= opened
        BY <1>1, <4>1 DEF Entries
      <4> QED
        BY <1>1, <4>1, <4>2
    <3>3. DOMAIN all = 1 .. at + 1
      BY <2>2, <2>3, <2>4
    <3> QED
      BY <2>2, <3>1, <3>2, <3>3
  <2> QED
    BY <2>1, <2>2, <2>3, <2>4, <2>5, <2>6
<1> HIDE DEF entry, entries
<1>8. /\ page' \in PageRecords /\ PageAgrees(page', left.store)
      /\ Stands(page', entries[at + 1], account)
  BY <1>1, <1>4, <1>6, <1>7, Viewed
<1>9. StoreAgrees(left.store, account, opened + 1, m)
  BY <1>1, <1>4, StoreGrows
<1>10. signOut' \in [pending : BOOLEAN, hidden : BOOLEAN] /\ SignOutNeverStuck'
  BY <1>6 DEF ShellInv, ShellTypes, SignOutNeverStuck
<1>11. ShellTypes'
  BY <1>1, <1>4, <1>6, <1>7, <1>8, <1>10 DEF ShellInv, ShellTypes
<1> QED
  BY <1>4, <1>6, <1>8, <1>9, <1>10, <1>11 DEF ShellInv

\* back: the entry of the presented page keeps what it restored, or the newer
\* state a mounted page hands over.
LEMMA GoBackSteps ==
    ASSUME ShellInv, ~closed, GoBack PROVE ShellInv'
<1>1. /\ page \in PageRecords /\ captured \in Nat /\ PageAgrees(page, store)
      /\ StoreAgrees(store, account, opened, captured)
      /\ HandlesAgree(store, released, captured)
  BY DEF ShellInv, ShellTypes
<1>2. /\ UNCHANGED <<verified, account, history, at, page, lateLoad, opened, signOut,
                     operations, closed>>
      /\ store' = Remembered.store /\ released' = Back(released, Remembered.dropped)
      /\ captured' = (IF Captures THEN captured + 1 ELSE captured) /\ captured < MaxHandles
  BY DEF GoBack
<1>3. CASE account = Nobody
  <2>1. store' = store /\ released' = Back(released, <<>>) /\ captured' = captured
    BY <1>2, <1>3 DEF Remembered, Captures
  <2>2. released' = released
    <3>1. (\A h \in Handles : ~Holds(<<>>, h)) /\ StoreAgrees(<<>>, account, opened, captured)
      BY EmptyStore
    <3>2. released \in [Handles -> Nat]
      BY <1>1 DEF HandlesAgree
    <3>3. /\ Back(released, <<>>) \in [Handles -> Nat]
          /\ \A h \in Handles : Back(released, <<>>)[h] = released[h] + 0
      BY <3>1, <3>2, GivenBack
    <3>4. \A h \in Handles : released[h] + 0 = released[h]
      BY <3>2
    <3> QED
      BY <2>1, <3>2, <3>3, <3>4
  <2> QED
    BY <1>2, <2>1, <2>2 DEF ShellInv, ShellTypes, SignOutNeverStuck
<1>4. CASE account # Nobody
  <2> DEFINE left == Saved(store, Snapshot)
             m == IF Captures THEN captured + 1 ELSE captured
  <2>1. page.stage # "none"
    BY <1>4 DEF ShellInv, Stands
  <2>2. Remembered = left
    BY <1>4, <2>1 DEF Remembered
  <2>3. /\ m \in 0 .. MaxHandles
        /\ StoreAgrees(left.store, account, opened, m)
        /\ HandlesAgree(left.store, Back(released, left.dropped), m)
        /\ \E j \in DOMAIN left.store : left.store[j].token = page.token
        /\ \A j \in DOMAIN left.store :
              \/ /\ left.store[j].token = page.token
                 /\ left.store[j].whole = Snapshot.whole
                 /\ left.store[j].handle = IF Mounted THEN captured + 1 ELSE Fallback
              \/ left.store[j].token # page.token
    BY <1>2, <1>4, Leaves
  <2>4. store' = left.store /\ released' = Back(released, left.dropped) /\ captured' = m
    BY <1>2, <2>2
  <2> HIDE DEF left, m
  <2>5. ASSUME page.restored # Nobody PROVE captured + 1 > page.restored.handle
    <3>1. PICK i \in DOMAIN store : store[i].token = page.token
      BY <1>1, <2>5 DEF PageAgrees
    <3>2. Resumes(page, store[i]) /\ store[i].handle <= captured /\ store[i] \in Snapshots
      BY <1>1, <2>1, <3>1 DEF PageAgrees, StoreAgrees
    <3>3. page.restored.handle \in Nat /\ store[i].handle \in Nat
      BY <1>1, <2>5, <3>2 DEF PageRecords, Snapshots
    <3> QED
      BY <1>1, <2>5, <3>2, <3>3 DEF Resumes
  <2>6. ASSUME NEW j \in DOMAIN left.store, left.store[j].token = page.token
        PROVE  Resumes(page, left.store[j])
    <3>1. /\ left.store[j].whole = (IF page.restoring THEN page.restored.whole ELSE page.shown)
          /\ left.store[j].handle = IF Mounted THEN captured + 1 ELSE Fallback
      BY <2>3, <2>6 DEF Snapshot, KeepsContext
    <3>2. CASE Mounted
      BY <2>5, <3>1, <3>2 DEF Resumes, Mounted
    <3>3. CASE ~Mounted
      <4>1. ~page.shown /\ (page.restored # Nobody <=> page.restoring)
        BY <1>1, <2>1, <3>3 DEF PageAgrees, PageRecords, Mounted
      <4> QED
        BY <3>1, <3>3, <4>1 DEF Resumes, Fallback
    <3> QED
      BY <3>2, <3>3
  <2>7. PageAgrees(page, left.store)
    BY <1>1, <2>3, <2>6 DEF PageAgrees
  <2> QED
    BY <1>2, <2>3, <2>4, <2>7 DEF ShellInv, ShellTypes, SignOutNeverStuck
<1> QED
  BY <1>3, <1>4

LEMMA ReplaceSteps ==
    ASSUME ShellInv, ~closed, account # Nobody, NEW name \in Pages, Replace(name)
    PROVE  ShellInv'
<1> DEFINE entry == [page |-> name, token |-> opened + 1]
           kept == DropToken(store, page.token)
           entries == [history EXCEPT ![at] = entry]
<1>1. /\ opened \in Nat /\ captured \in Nat /\ history \in Seq(Entries) /\ at \in DOMAIN history
      /\ \A i \in DOMAIN history : history[i].token <= opened
      /\ account \in Users \cup {Nobody}
      /\ StoreAgrees(store, account, opened, captured)
      /\ HandlesAgree(store, released, captured)
  BY DEF ShellInv, ShellTypes
<1>2. page.stage # "none"
  BY DEF ShellInv, Stands
<1>3. /\ StoreAgrees(kept, account, opened, captured)
      /\ HandlesAgree(kept, Back(released, OfToken(store, page.token)), captured)
      /\ \A j \in DOMAIN kept : \E i \in DOMAIN store : kept[j] = store[i]
  BY <1>1, Forgets
<1>4. /\ store' = kept /\ released' = Back(released, OfToken(store, page.token))
      /\ history' = entries /\ opened' = opened + 1
      /\ page' = View(account, entry, store)
      /\ signOut' = [signOut EXCEPT !.hidden = FALSE]
      /\ UNCHANGED <<verified, account, at, captured, operations, closed>>
  BY <1>2 DEF Replace
<1>5. entry \in Entries /\ entry.token = opened + 1
  BY <1>1 DEF Entries
<1> HIDE DEF kept, entry
<1>6. /\ entries \in Seq(Entries) /\ DOMAIN entries = DOMAIN history /\ entries[at] = entry
      /\ \A i \in DOMAIN entries : entries[i].token <= opened + 1
  <2>1. at \in 1 .. Len(history) /\ DOMAIN history = 1 .. Len(history)
    BY <1>1
  <2>2. /\ entries \in Seq(Entries) /\ Len(entries) = Len(history)
        /\ \A i \in 1 .. Len(history) : entries[i] = IF i = at THEN entry ELSE history[i]
    BY <1>1, <1>5, <2>1, ExceptSeq
  <2>3. ASSUME NEW i \in DOMAIN history PROVE history[i].token \in Nat
    <3>1. history[i] \in Entries
      BY <1>1
    <3> QED
      BY <3>1 DEF Entries
  <2> HIDE DEF entries
  <2>4. DOMAIN entries = DOMAIN history
    BY <2>1, <2>2
  <2>5. ASSUME NEW i \in DOMAIN entries PROVE entries[i].token <= opened + 1
    <3>1. history[i].token \in Nat /\ history[i].token <= opened
      BY <1>1, <2>3, <2>4, <1>5
    <3>2. entries[i] = IF i = at THEN entry ELSE history[i]
      BY <2>1, <2>2, <2>4
    <3> QED
      BY <1>1, <1>5, <3>1, <3>2
  <2> QED
    BY <2>1, <2>2, <2>4, <2>5
<1> HIDE DEF entries
<1>7. \A i \in DOMAIN store : store[i].token # entry.token
  <2>1. ASSUME NEW i \in DOMAIN store PROVE store[i].token # entry.token
    <3>1. store[i] \in Snapshots /\ store[i].token <= opened
      BY <1>1 DEF StoreAgrees
    <3> QED
      BY <1>1, <1>5, <3>1 DEF Snapshots
  <2> QED
    BY <2>1
<1>8. /\ page' \in PageRecords /\ PageAgrees(page', store)
      /\ Stands(page', entry, account) /\ page'.restored = Nobody
  BY <1>1, <1>4, <1>5, <1>7, Viewed
<1>9. PageAgrees(page', kept)
  <2>1. page'.stage # "none" => page'.token = entry.token
    BY <1>8 DEF Stands
  <2>2. \A j \in DOMAIN kept : kept[j].token # entry.token
    BY <1>3, <1>7
  <2> QED
    BY <1>8, <2>1, <2>2 DEF PageAgrees
<1>10. StoreAgrees(kept, account, opened + 1, captured)
  BY <1>1, <1>3, StoreGrows
<1>11. signOut' \in [pending : BOOLEAN, hidden : BOOLEAN] /\ SignOutNeverStuck'
  BY <1>4 DEF ShellInv, ShellTypes, SignOutNeverStuck
<1>12. ShellTypes'
  BY <1>1, <1>4, <1>6, <1>8, <1>11 DEF ShellInv, ShellTypes
<1> QED
  BY <1>3, <1>4, <1>6, <1>8, <1>9, <1>10, <1>11, <1>12 DEF ShellInv

LEMMA TraverseSteps ==
    ASSUME ShellInv, ~closed, NEW i, Traverse(i)
    PROVE  ShellInv'
<1> DEFINE left == IF account = Nobody THEN [store |-> store, dropped |-> <<>>]
                   ELSE Saved(store, Snapshot)
           m == IF Captures THEN captured + 1 ELSE captured
<1>1. /\ opened \in Nat /\ captured \in 0 .. MaxHandles /\ history \in Seq(Entries)
      /\ \A j \in DOMAIN history : history[j].token <= opened
      /\ account \in Users \cup {Nobody}
      /\ StoreAgrees(store, account, opened, captured)
      /\ HandlesAgree(store, released, captured)
  BY DEF ShellInv, ShellTypes
<1>2. page.stage = "none" <=> account = Nobody
  BY DEF ShellInv, Stands
<1>3. captured < MaxHandles /\ i \in DOMAIN history
  BY DEF Traverse, Room
<1>4. /\ m \in 0 .. MaxHandles /\ StoreAgrees(left.store, account, opened, m)
      /\ HandlesAgree(left.store, Back(released, left.dropped), m)
  <2>1. CASE account = Nobody
    <3>1. m = captured /\ left.store = store /\ left.dropped = <<>>
      BY <2>1 DEF Captures
    <3>2. \A h \in Handles : ~Holds(<<>>, h)
      BY EmptyStore
    <3>3. StoreAgrees(<<>>, account, opened, captured)
      BY EmptyStore
    <3>4. Back(released, <<>>) \in [Handles -> Nat]
          /\ \A h \in Handles : Back(released, <<>>)[h] = released[h] + 0
      <4>1. released \in [Handles -> Nat]
        BY <1>1 DEF HandlesAgree
      <4> QED
        BY <3>2, <3>3, <4>1, GivenBack
    <3>5. HandlesAgree(store, Back(released, <<>>), captured)
      <4>1. \A h \in Handles : released[h] \in Nat
        BY <1>1 DEF HandlesAgree
      <4> QED
        BY <1>1, <3>4, <4>1 DEF HandlesAgree
    <3> QED
      BY <1>1, <3>1, <3>5
  <2>2. CASE account # Nobody
    BY <1>3, <2>2, Leaves
  <2> QED
    BY <2>1, <2>2
<1>5. [Snapshot EXCEPT !.token = Departing(i)] = Snapshot
  BY DEF Snapshot, Departing
<1>6. /\ store' = left.store /\ released' = Back(released, left.dropped) /\ captured' = m
      /\ Render(account, history, i, left.store)
      /\ signOut' = [signOut EXCEPT !.hidden = FALSE]
      /\ UNCHANGED <<verified, account, operations, closed>>
  BY <1>2, <1>5 DEF Traverse, Remembered
<1> HIDE DEF left, m
<1>7. /\ history' \in Seq(Entries) /\ at' \in DOMAIN history'
      /\ opened' \in Nat /\ opened <= opened'
      /\ \A j \in DOMAIN history' : history'[j].token <= opened'
      /\ page' \in PageRecords /\ PageAgrees(page', left.store)
      /\ Stands(page', history'[at'], account)
  BY <1>1, <1>3, <1>4, <1>6, Rendered
<1>8. StoreAgrees(left.store, account, opened', m)
  BY <1>1, <1>4, <1>7, StoreGrows
<1>9. signOut' \in [pending : BOOLEAN, hidden : BOOLEAN] /\ SignOutNeverStuck'
  BY <1>6 DEF ShellInv, ShellTypes, SignOutNeverStuck
<1>10. ShellTypes'
  BY <1>1, <1>4, <1>6, <1>7, <1>9 DEF ShellInv, ShellTypes
<1> QED
  BY <1>4, <1>6, <1>7, <1>8, <1>9, <1>10 DEF ShellInv

\* applyAccount: what was kept of the account before is given back.
LEMMA AccountSteps ==
    ASSUME ShellInv, ~closed, NEW rest, ApplyAccount(verified, rest),
           UNCHANGED <<verified, captured, closed>>,
           signOut' \in [pending : BOOLEAN, hidden : BOOLEAN],
           signOut'.hidden => signOut'.pending, signOut'.pending => "out" \in operations'
    PROVE  ShellInv'
<1>1. SignOutNeverStuck'
  BY DEF SignOutNeverStuck
<1>2. CASE account # Nobody /\ verified = account
  <2>1. UNCHANGED <<account, history, at, page, lateLoad, store, released, opened>>
    BY <1>2 DEF ApplyAccount
  <2>2. verified' \in Users \cup {Nobody}
    BY DEF ShellInv, ShellTypes
  <2> QED
    BY <1>1, <2>1, <2>2, QuietSteps
<1>3. CASE ~(account # Nobody /\ verified = account)
  <2>1. /\ account' = verified /\ store' = <<>> /\ released' = Back(released, store)
        /\ Render(verified, history, at, <<>>)
    BY <1>3 DEF ApplyAccount, Cleared
  <2>2. /\ opened \in Nat /\ captured \in Nat /\ history \in Seq(Entries) /\ at \in DOMAIN history
        /\ \A j \in DOMAIN history : history[j].token <= opened
        /\ verified \in Users \cup {Nobody}
        /\ StoreAgrees(store, account, opened, captured)
        /\ HandlesAgree(store, released, captured)
    BY DEF ShellInv, ShellTypes
  <2>3. HandlesAgree(<<>>, Back(released, store), captured)
    BY <2>2, Clears
  <2>4. StoreAgrees(<<>>, verified, opened, captured)
    BY EmptyStore
  <2>5. /\ history' \in Seq(Entries) /\ at' \in DOMAIN history'
        /\ opened' \in Nat /\ opened <= opened'
        /\ \A j \in DOMAIN history' : history'[j].token <= opened'
        /\ page' \in PageRecords /\ PageAgrees(page', <<>>)
        /\ Stands(page', history'[at'], verified)
    BY <2>1, <2>2, <2>4, Rendered
  <2>6. StoreAgrees(<<>>, verified, opened', captured)
    BY EmptyStore
  <2>7. ShellTypes'
    BY <2>1, <2>2, <2>5 DEF ShellInv, ShellTypes
  <2> QED
    BY <1>1, <2>1, <2>3, <2>5, <2>6, <2>7 DEF ShellInv
<1> QED
  BY <1>2, <1>3

LEMMA IdentitySteps ==
    ASSUME ShellInv, ~closed, Notify \/ FinishSignOut \/ FinishSignIn
    PROVE  ShellInv'
<1>1. /\ signOut \in [pending : BOOLEAN, hidden : BOOLEAN]
      /\ (signOut.hidden => signOut.pending) /\ (signOut.pending => "out" \in operations)
  BY DEF ShellInv, ShellTypes, SignOutNeverStuck
<1>2. [pending |-> FALSE, hidden |-> FALSE] \in [pending : BOOLEAN, hidden : BOOLEAN]
  OBVIOUS
<1>3. ASSUME NEW rest, ApplyAccount(verified, rest), "out" \in operations => "out" \in rest,
             signOut' = Controls(verified)
      PROVE  /\ signOut' \in [pending : BOOLEAN, hidden : BOOLEAN]
             /\ (signOut'.hidden => signOut'.pending)
             /\ (signOut'.pending => "out" \in operations')
  <2>1. CASE account # Nobody /\ verified = account
    BY <1>1, <1>3, <2>1 DEF ApplyAccount, Controls
  <2>2. CASE ~(account # Nobody /\ verified = account)
    BY <1>2, <1>3, <2>2 DEF Controls
  <2> QED
    BY <2>1, <2>2
<1>4. CASE Notify
  <2>1. ApplyAccount(verified, operations) /\ signOut' = Controls(verified)
        /\ UNCHANGED <<verified, captured, closed>>
    BY <1>4 DEF Notify
  <2> QED
    BY <1>3, <2>1, AccountSteps
<1>5. CASE FinishSignOut
  <2>1. /\ ApplyAccount(verified, operations \ {"out"})
        /\ signOut' = [pending |-> FALSE, hidden |-> FALSE]
        /\ UNCHANGED <<verified, captured, closed>>
    BY <1>5 DEF FinishSignOut
  <2> QED
    BY <1>2, <2>1, AccountSteps
<1>6. CASE FinishSignIn
  <2>1. UNCHANGED <<verified, captured, closed>>
    BY <1>6 DEF FinishSignIn
  <2>2. CASE ApplyAccount(verified, operations \ {"in"}) /\ signOut' = Controls(verified)
    BY <1>3, <2>1, <2>2, AccountSteps
  <2>3. CASE /\ operations' = operations \ {"in"}
             /\ UNCHANGED <<account, history, at, page, lateLoad, store, released, opened,
                            signOut>>
    <3>1. SignOutNeverStuck' /\ signOut' \in [pending : BOOLEAN, hidden : BOOLEAN]
      BY <1>1, <2>3 DEF SignOutNeverStuck
    <3>2. verified' \in Users \cup {Nobody}
      BY <2>1 DEF ShellInv, ShellTypes
    <3> QED
      BY <2>1, <2>3, <3>1, <3>2, QuietSteps
  <2> QED
    BY <1>6, <2>2, <2>3 DEF FinishSignIn
<1> QED
  BY <1>4, <1>5, <1>6

LEMMA OtherSteps ==
    ASSUME ShellInv,
           \/ ~closed /\ \E next \in Users \cup {Nobody} : Verify(next)
           \/ ~closed /\ (RequestSignOut \/ RequestSignIn)
           \/ \E name \in Pages : LateLoad(name)
           \/ FinishDeparted
           \/ UNCHANGED shellVars
    PROVE  ShellInv'
<1>1. /\ UNCHANGED <<account, history, at, page, store, released, opened, captured, closed>>
      /\ verified' \in Users \cup {Nobody}
  BY DEF ShellInv, ShellTypes, Verify, RequestSignOut, RequestSignIn, LateLoad, LateMount,
         FinishDeparted, shellVars
<1>2. /\ signOut' \in [pending : BOOLEAN, hidden : BOOLEAN] /\ SignOutNeverStuck'
  <2>1. CASE ~closed /\ RequestSignOut
    BY <2>1 DEF RequestSignOut, SignOutNeverStuck
  <2>2. CASE ~(~closed /\ RequestSignOut)
    <3>1. signOut' = signOut /\ closed' = closed /\ ("out" \in operations => "out" \in operations')
      BY <2>2 DEF Verify, RequestSignIn, LateLoad, FinishDeparted, shellVars
    <3> QED
      BY <3>1 DEF ShellInv, ShellTypes, SignOutNeverStuck
  <2> QED
    BY <2>1, <2>2
<1> QED
  BY <1>1, <1>2, QuietSteps

LEMMA DisposeSteps ==
    ASSUME ShellInv, ~closed, DisposeShell PROVE ShellInv'
<1>1. /\ captured \in Nat /\ StoreAgrees(store, account, opened, captured)
      /\ HandlesAgree(store, released, captured)
  BY DEF ShellInv, ShellTypes
<1>2. HandlesAgree(<<>>, Back(released, store), captured)
  BY <1>1, Clears
<1>3. StoreAgrees(<<>>, account, opened, captured)
  BY EmptyStore
<1>4. Empty \in PageRecords /\ PageAgrees(Empty, <<>>)
  BY DEF Empty, PageRecords, PageAgrees
<1>5. /\ page' = Empty /\ store' = <<>> /\ released' = Back(released, store) /\ closed'
      /\ UNCHANGED <<verified, account, history, at, opened, captured, signOut>>
  BY DEF DisposeShell
<1>6. ShellTypes'
  BY <1>4, <1>5 DEF ShellInv, ShellTypes
<1> QED
  BY <1>2, <1>3, <1>4, <1>5, <1>6 DEF ShellInv, SignOutNeverStuck

LEMMA ShellSteps ==
    ASSUME ShellInv, [ShellNext]_shellVars PROVE ShellInv'
<1>1. CASE ~closed /\ \E name \in Pages : account # Nobody /\ (Navigate(name) \/ Replace(name))
  BY <1>1, NavigateSteps, ReplaceSteps
<1>2. CASE ~closed /\ \E i \in {at - 1, at + 1} : Traverse(i)
  BY <1>2, TraverseSteps
<1>3. CASE ~closed /\ (Mount \/ Unavailable \/ Input \/ (\E ok \in BOOLEAN : Presented(ok)))
  BY <1>3, PresentingSteps
<1>4. CASE ~closed /\ (Notify \/ FinishSignOut \/ FinishSignIn)
  BY <1>4, IdentitySteps
<1>5. CASE ~closed /\ DisposeShell
  BY <1>5, DisposeSteps
<1>6. CASE \/ ~closed /\ \E next \in Users \cup {Nobody} : Verify(next)
           \/ ~closed /\ (RequestSignOut \/ RequestSignIn)
           \/ \E name \in Pages : LateLoad(name)
           \/ FinishDeparted
           \/ UNCHANGED shellVars
  BY <1>6, OtherSteps
<1>7. CASE ~closed /\ GoBack
  BY <1>7, GoBackSteps
<1> QED
  BY <1>1, <1>2, <1>3, <1>4, <1>5, <1>6, <1>7 DEF ShellNext

--------
(* What follows.                                                           *)

\* ShellInv holds of every state of the navigation shell (shell.ts,
\* restoration.ts): the store holds one snapshot of a token, of the presented
\* account, every captured handle is kept or was given back once, and the
\* presented page restores what the store keeps of its entry, unless it asked
\* to go back while mounted: then the entry keeps the newer state of that page.
THEOREM ShellInductive == ShellSpec => []ShellInv
<1>1. ShellInit => ShellInv
  BY ShellStarts
<1>2. ShellInv /\ [ShellNext]_shellVars => ShellInv'
  BY ShellSteps
<1> QED
  BY <1>1, <1>2, PTL DEF ShellSpec

\* The shell presents the entry the browser is at, for the account it presents
\* (shell.ts mountPage, applyAccount), keeps nothing of another one, and never
\* leaves its sign-out control disabled with nothing under way.
THEOREM PresentsItsAccount == ShellSpec => []FollowsItsAccount
<1>1. ShellInv => FollowsItsAccount
  BY DEF ShellInv, ShellTypes, Stands, StoreAgrees, FollowsItsAccount, PresentsItsEntry
<1> QED
  BY <1>1, ShellInductive, PTL

\* Every state a page handed over is kept or was given back to its factory,
\* once.  What the presented page restores is given back under it only when
\* its entry keeps the newer state that mounted page handed over (restoration.ts
\* save, discard, clear; shell.ts back).
THEOREM HandlesGivenBackOnce == ShellSpec => []HandlesReleasedOnce
<1>1. ShellInv => HandlesReleasedOnce
  <2> SUFFICES ASSUME ShellInv PROVE HandlesReleasedOnce
    OBVIOUS
  <2>1. /\ StoreAgrees(store, account, opened, captured) /\ captured \in 0 .. MaxHandles
        /\ HandlesAgree(store, released, captured) /\ PageAgrees(page, store)
        /\ MaxHandles \in Nat
    BY StoreAssumption DEF ShellInv, ShellTypes
  <2>2. ASSUME NEW h \in 1 .. captured
        PROVE  released[h] + Cardinality({i \in DOMAIN store : store[i].handle = h}) = 1
    <3> DEFINE keeping == {i \in DOMAIN store : store[i].handle = h}
    <3>1. h \in Handles /\ h # 0 /\ h <= captured
      BY <2>1 DEF Handles
    <3>2. released[h] = IF ~Holds(store, h) THEN 1 ELSE 0
      BY <2>1, <3>1 DEF HandlesAgree
    <3>3. CASE Holds(store, h)
      <4>1. PICK i \in DOMAIN store : store[i].handle = h
        BY <3>3 DEF Holds
      <4>2. keeping = {i}
        BY <2>1, <3>1, <4>1 DEF StoreAgrees
      <4> HIDE DEF keeping
      <4>3. Cardinality(keeping) = 1
        BY <4>2, FS_Singleton
      <4> QED
        BY <3>2, <3>3, <4>3 DEF keeping
    <3>4. CASE ~Holds(store, h)
      <4>1. keeping = {}
        BY <3>4 DEF Holds
      <4> HIDE DEF keeping
      <4>2. Cardinality(keeping) = 0
        BY <4>1, FS_EmptySet
      <4> QED
        BY <3>2, <3>4, <4>2 DEF keeping
    <3> QED
      BY <3>3, <3>4
  <2>3. ASSUME page.restored # Nobody, page.restored.handle \in Handles
        PROVE  released[page.restored.handle] = 0 \/ HandedOver
    <3>1. PICK i \in DOMAIN store : store[i].token = page.token
      BY <2>1, <2>3 DEF PageAgrees
    <3>2. page.stage # "none" => Resumes(page, store[i])
      BY <2>1, <3>1 DEF PageAgrees
    <3>3. page.stage # "none"
      BY <2>1, <2>3 DEF PageAgrees
    <3>4. CASE store[i].handle = page.restored.handle
      <4>1. Holds(store, page.restored.handle)
        BY <3>1, <3>4 DEF Holds
      <4> QED
        BY <2>1, <2>3, <4>1 DEF HandlesAgree
    <3>5. CASE page.stage = "mounted" /\ store[i].handle > page.restored.handle
      BY <3>1, <3>5 DEF HandedOver, Mounted
    <3> QED
      BY <2>3, <3>2, <3>3, <3>4, <3>5 DEF Resumes
  <2> QED
    BY <2>2, <2>3 DEF HandlesReleasedOnce
<1> QED
  BY <1>1, ShellInductive, PTL

\* The context of a whole view gives way to that of a view still arriving only
\* once the user took a settled presentation over (shell.ts rememberCurrent).
THEOREM KeepsContextOfViews == ShellSpec => ContextIsKept
<1>1. ASSUME ShellInv, [ShellNext]_shellVars, NEW i \in DOMAIN store, NEW j \in DOMAIN store',
             store[i].token = store'[j].token, store[i].whole, ~store'[j].whole
      PROVE  page.chosen
  <2>1. /\ StoreAgrees(store, account, opened, captured) /\ page \in PageRecords
        /\ PageAgrees(page, store)
    BY <1>1 DEF ShellInv, ShellTypes
  <2>2. \A k \in DOMAIN store : store'[j] # store[k]
    BY <1>1, <2>1 DEF StoreAgrees, Apart
  <2>3. ASSUME account # Nobody, ~closed, captured < MaxHandles,
               store' = Saved(store, Snapshot).store
        PROVE  page.chosen
    <3> DEFINE left == Saved(store, Snapshot)
               m == IF Captures THEN captured + 1 ELSE captured
    <3>1. \A l \in DOMAIN left.store :
             \/ left.store[l].token = page.token /\ left.store[l].whole = Snapshot.whole
             \/ \E k \in DOMAIN store : left.store[l] = store[k]
      BY <1>1, <2>3, Leaves
    <3> HIDE DEF left
    <3>2. store'[j].token = page.token /\ store'[j].whole = Snapshot.whole
      BY <1>1, <2>2, <2>3, <3>1 DEF left
    <3>3. Snapshot.whole = IF KeepsContext THEN page.restored.whole ELSE page.shown
      BY DEF Snapshot
    <3>4. page.stage # "none"
      BY <1>1, <2>3 DEF ShellInv, Stands
    <3>5. Resumes(page, store[i])
      BY <1>1, <2>1, <3>2, <3>4 DEF PageAgrees
    <3>6. page.restoring => page.restored # Nobody /\ page.restored.whole
      BY <1>1, <2>1, <3>5 DEF PageAgrees, Resumes
    <3>7. ~page.restoring /\ ~page.shown
      BY <1>1, <3>2, <3>3, <3>6 DEF KeepsContext
    <3>8. page.stage = "mounted"
      BY <1>1, <2>1, <3>4, <3>5, <3>7 DEF PageAgrees, PageRecords, Resumes
    <3> QED
      BY <2>1, <3>7, <3>8 DEF PageAgrees
  <2>4. store' = store \/ store' = <<>> => page.chosen
    BY <1>1, <2>2
  <2>5. CASE \E name \in Pages : ~closed /\ account # Nobody /\ Navigate(name)
    <3>1. Remembered = Saved(store, Snapshot)
      BY <1>1, <2>5 DEF ShellInv, Stands, Remembered
    <3> QED
      BY <2>3, <2>5, <3>1 DEF Navigate, Room
  <2>6. CASE \E name \in Pages : ~closed /\ account # Nobody /\ Replace(name)
    <3>1. store' = DropToken(store, page.token)
      BY <1>1, <2>6 DEF ShellInv, Stands, Replace
    <3>2. captured \in Nat /\ HandlesAgree(store, released, captured)
      BY <1>1 DEF ShellInv, ShellTypes
    <3>3. \A l \in DOMAIN DropToken(store, page.token) :
             \E k \in DOMAIN store : DropToken(store, page.token)[l] = store[k]
      BY <2>1, <3>2, Forgets
    <3> QED
      BY <1>1, <2>2, <3>1, <3>3
  <2>7. CASE ~closed /\ \E n \in {at - 1, at + 1} : Traverse(n)
    <3>1. PICK n : Traverse(n)
      BY <2>7
    <3>2. CASE account = Nobody
      <4>1. store' = store
        BY <3>1, <3>2 DEF Traverse, Remembered
      <4> QED
        BY <2>4, <4>1
    <3>3. CASE account # Nobody
      <4>1. page.stage # "none"
        BY <1>1, <2>7, <3>3 DEF ShellInv, Stands
      <4>2. [Snapshot EXCEPT !.token = Departing(n)] = Snapshot
        BY DEF Snapshot, Departing
      <4>3. store' = Saved(store, Snapshot).store /\ captured < MaxHandles
        BY <3>1, <3>3, <4>1, <4>2 DEF Traverse, Room
      <4> QED
        BY <2>3, <2>7, <3>3, <4>3
    <3> QED
      BY <3>2, <3>3
  <2>8. CASE ~closed /\ (Notify \/ FinishSignOut \/ FinishSignIn)
    <3>1. store' = store \/ store' = <<>>
      BY <2>8 DEF Notify, FinishSignOut, FinishSignIn, ApplyAccount, Cleared
    <3> QED
      BY <2>4, <3>1
  <2>9. CASE ~closed /\ DisposeShell
    BY <2>4, <2>9 DEF DisposeShell
  <2>10. CASE \/ Mount \/ Unavailable \/ Input \/ (\E ok \in BOOLEAN : Presented(ok))
              \/ (\E next \in Users \cup {Nobody} : Verify(next))
              \/ RequestSignOut \/ RequestSignIn \/ (\E name \in Pages : LateLoad(name))
              \/ FinishDeparted \/ UNCHANGED shellVars
    <3>1. store' = store
      BY <2>10 DEF Mount, Unavailable, Input, Presented, Verify, RequestSignOut,
         RequestSignIn, LateLoad, FinishDeparted, shellVars
    <3> QED
      BY <2>4, <3>1
  <2>11. CASE ~closed /\ GoBack
    <3>1. store' = Remembered.store /\ captured < MaxHandles
      BY <2>11 DEF GoBack
    <3>2. CASE account = Nobody
      BY <2>4, <3>1, <3>2 DEF Remembered
    <3>3. CASE account # Nobody
      <4>1. Remembered = Saved(store, Snapshot)
        BY <1>1, <2>11, <3>3 DEF ShellInv, Stands, Remembered
      <4> QED
        BY <2>3, <2>11, <3>1, <3>3, <4>1
    <3> QED
      BY <3>2, <3>3
  <2> QED
    BY <1>1, <2>5, <2>6, <2>7, <2>8, <2>9, <2>10, <2>11 DEF ShellNext
<1>2. ShellInv /\ [ShellNext]_shellVars =>
         [\A i \in DOMAIN store, j \in DOMAIN store' :
             store[i].token = store'[j].token /\ store[i].whole /\ ~store'[j].whole
                => page.chosen]_shellVars
  BY <1>1
<1> QED
  BY <1>2, ShellInductive, PTL DEF ShellSpec, ContextIsKept

\* What the page holds for others is released once, whichever part holds it:
\* a page's handle by the store that kept it (restoration.ts releaseKept), an
\* attempt's pipeline by the end of its delivery (session.ts finish).
THEOREM ReleasesEverythingOnce == MCSpec => []ReleasedOnce
<1>1. MCInit => ShellInit /\ RecognitionInit
  BY DEF MCInit
<1>2. [MCNext]_MCVars => [ShellNext]_shellVars /\ [RecognitionNext]_recognitionVars
  BY DEF MCNext, MCVars
<1>3. MCSpec => ShellSpec /\ RecognitionSpec
  BY <1>1, <1>2, PTL DEF MCSpec, ShellSpec, RecognitionSpec
<1>4. HandlesReleasedOnce /\ PipelinesReleasedOnce => ReleasedOnce
  BY DEF ReleasedOnce
<1> QED
  BY <1>3, <1>4, HandlesGivenBackOnce, PipelinesReleased, PTL
=============================================================================
