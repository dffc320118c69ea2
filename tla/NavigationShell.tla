--------------------------- MODULE NavigationShell ---------------------------
(***************************************************************************)
(* The navigation shell (src/ui/navigation/internal/shell.ts) and the      *)
(* bounded store of what its history entries retain (restoration.ts): the  *)
(* one presented page, its load and its asynchronous restoration, the      *)
(* departures that capture it, and the changes of the verified account     *)
(* with the identity operations the shell has under way.                   *)
(*                                                                         *)
(* A page's retained state is a handle its factory must get back exactly   *)
(* once.  A snapshot is `whole' when its scroll offset, focus and anchor   *)
(* were captured over presented content, not over a page still arriving.   *)
(***************************************************************************)
EXTENDS Naturals, Sequences, SequencesExt, FiniteSets

CONSTANTS
    Users,
    Pages,
    Reporting,      \* pages that report when they presented a restored entry
    Limit,          \* UI_LIMITS.viewStates
    MaxEntries,     \* bound: history entries
    MaxTokens,      \* bound: history tokens opened
    MaxHandles,     \* bound: states captured
    Nobody

ASSUME ReportingPages == Reporting \subseteq Pages

\* createViewStateStore refuses a limit below one.
ASSUME StoreAssumption ==
    /\ Limit \in Nat \ {0} /\ MaxHandles \in Nat
    /\ Nobody \notin Users \cup Pages
    /\ Nobody \notin [token : Nat, account : Users, handle : Nat, owner : Pages \cup {Nobody},
                     whole : BOOLEAN]

VARIABLES
    verified,       \* the account identity reports
    account,        \* the account the shell presents
    history,        \* the browser's entries: [page, token]; token 0 is foreign
    at,             \* the current entry
    page,           \* the presented view
    lateLoad,       \* pages whose factory loads for a view the shell left
    store,          \* kept snapshots, oldest first
    released,       \* how often each handle was given back to its factory
    opened,         \* tokens opened
    captured,       \* handles captured
    signOut,        \* [pending, hidden]: signOutPending and main.hidden
    operations,     \* identity operations under way: "out", "in"; "departed" ones
    closed          \* disposed

shellVars == <<verified, account, history, at, page, lateLoad, store, released, opened,
               captured, signOut, operations, closed>>

Handles == 1..MaxHandles

Empty == [stage |-> "none", name |-> Nobody, token |-> 0, restored |-> Nobody,
          restoring |-> FALSE, settled |-> FALSE, shown |-> FALSE, chosen |-> FALSE]

--------
(* The store of view states.                                                *)

Kept(st, token) == {i \in DOMAIN st : st[i].token = token}

\* read: never for another account.
Read(st, who, token) ==
    LET found == {i \in Kept(st, token) : st[i].account = who}
    IN  IF found = {} THEN Nobody ELSE st[CHOOSE i \in found : TRUE]

\* releaseKept: a handle goes back through the factory that owned the page.
Back(given, dropped) ==
    [h \in Handles |-> given[h] + Cardinality({i \in DOMAIN dropped :
                                                  dropped[i].handle = h /\ dropped[i].owner # Nobody})]

\* The snapshots are a map: a token keeps one at most.
Place(st, token) == CHOOSE i \in Kept(st, token) : TRUE
OfToken(st, token) == IF Kept(st, token) = {} THEN <<>> ELSE <<st[Place(st, token)]>>
DropToken(st, token) == IF Kept(st, token) = {} THEN st ELSE RemoveAt(st, Place(st, token))

\* save: a replaced handle is released, the same one keeps its owner, and the
\* oldest entries beyond the bound leave.
\* Slip: the same handle is released with the entry it replaces.
SameHandleSlip(replaced, snapshot) == FALSE
SameHandle(replaced, snapshot) ==
    replaced # <<>> /\ replaced[1].account = snapshot.account
        /\ replaced[1].handle = snapshot.handle

Saved(st, snapshot) ==
    LET replaced == OfToken(st, snapshot.token)
        same == SameHandle(replaced, snapshot)
        others == DropToken(st, snapshot.token)
        over == IF Len(others) >= Limit THEN Len(others) - Limit + 1 ELSE 0
        kept == IF same THEN [snapshot EXCEPT !.owner = replaced[1].owner] ELSE snapshot
    IN  [store |-> Append(SubSeq(others, over + 1, Len(others)), kept),
         dropped |-> SubSeq(others, 1, over) \o (IF same THEN <<>> ELSE replaced)]

--------
(* Leaving the presented view.                                              *)

Mounted == page.stage = "mounted"

\* capturePageState: only a mounted page captures; meanwhile the entry keeps
\* the state it is restoring.
Fallback == IF page.restoring THEN page.restored.handle ELSE 0

\* An entry that still restores its context keeps it; any other captures the
\* view as it is.
KeepsContext == page.restoring

Snapshot ==
    [token |-> page.token, account |-> account,
     handle |-> IF Mounted THEN captured + 1 ELSE Fallback,
     owner |-> IF Mounted THEN page.name ELSE Nobody,
     whole |-> IF KeepsContext THEN page.restored.whole ELSE page.shown]

\* rememberCurrent, as the store it leaves and what that store gives back.
Remembered ==
    IF account = Nobody \/ page.stage = "none" THEN [store |-> store, dropped |-> <<>>]
    ELSE Saved(store, Snapshot)

Captures == account # Nobody /\ Mounted

\* closePage: a page still loading may arrive late.
Closed == IF page.stage = "loading" THEN lateLoad \cup {page.name} ELSE lateLoad

\* renderPage: the presented view of an entry, over the store it finds.
View(who, entry, st) ==
    IF who = Nobody THEN Empty
    ELSE LET r == Read(st, who, entry.token)
         IN  [Empty EXCEPT !.stage = "loading", !.name = entry.page, !.token = entry.token,
                           !.restored = r, !.restoring = r # Nobody]

\* render at an entry: one that carries no token of this store gets one.
Render(who, entries, i, st) ==
    LET foreign == who # Nobody /\ entries[i].token = 0
        token == IF foreign THEN opened + 1 ELSE entries[i].token
        named == [entries EXCEPT ![i].token = token]
    IN  /\ history' = named
        /\ at' = i
        /\ opened' = IF foreign THEN opened + 1 ELSE opened
        /\ page' = View(who, named[i], st)
        /\ lateLoad' = Closed

\* Bounds: a departure captures and opens no more than the bounds allow.
Room == captured < MaxHandles /\ opened < MaxTokens

\* navigate: the way back is kept.
Navigate(name) ==
    LET left == Remembered
        entries == Append(SubSeq(history, 1, at), [page |-> name, token |-> opened + 1])
    IN  /\ Room /\ at < MaxEntries
        /\ store' = left.store
        /\ released' = Back(released, left.dropped)
        /\ captured' = IF Captures THEN captured + 1 ELSE captured
        /\ history' = entries
        /\ at' = at + 1
        /\ opened' = opened + 1
        /\ page' = View(account, entries[at + 1], left.store)
        /\ lateLoad' = Closed
        /\ signOut' = [signOut EXCEPT !.hidden = FALSE]
        /\ UNCHANGED <<verified, account, operations, closed>>

\* replace: nothing is kept of the entry it takes the place of.
Replace(name) ==
    LET entry == [page |-> name, token |-> opened + 1]
        gone == IF page.stage = "none" THEN <<>> ELSE OfToken(store, page.token)
    IN  /\ Room
        /\ store' = IF page.stage = "none" THEN store ELSE DropToken(store, page.token)
        /\ released' = Back(released, gone)
        /\ history' = [history EXCEPT ![at] = entry]
        /\ opened' = opened + 1
        /\ page' = View(account, entry, store)
        /\ lateLoad' = Closed
        /\ signOut' = [signOut EXCEPT !.hidden = FALSE]
        /\ UNCHANGED <<verified, account, at, captured, operations, closed>>

\* back: the page is captured while it stays presented.  The move it asks of
\* the browser comes later, as a Traverse that captures the page once more, and
\* never when no entry lies behind: other steps may come first.
GoBack ==
    LET left == Remembered
    IN  /\ captured < MaxHandles
        /\ store' = left.store
        /\ released' = Back(released, left.dropped)
        /\ captured' = IF Captures THEN captured + 1 ELSE captured
        /\ UNCHANGED <<verified, account, history, at, page, lateLoad, opened, signOut,
                       operations, closed>>

\* onBrowserNavigation: the departing entry, not the current one, is captured.
\* Slip: the entry the browser moved to receives the capture.
DepartingSlip(i) == history[i].token
Departing(i) == page.token

Traverse(i) ==
    LET left == IF account = Nobody \/ page.stage = "none" THEN Remembered
                ELSE Saved(store, [Snapshot EXCEPT !.token = Departing(i)])
    IN  /\ Room /\ i # at /\ i \in DOMAIN history
        /\ store' = left.store
        /\ released' = Back(released, left.dropped)
        /\ captured' = IF Captures THEN captured + 1 ELSE captured
        /\ Render(account, history, i, left.store)
        /\ signOut' = [signOut EXCEPT !.hidden = FALSE]
        /\ UNCHANGED <<verified, account, operations, closed>>

--------
(* The presented page.                                                      *)

\* mountPage, for the view that requested the factory.  A page that reports
\* no presentation presents its entry at once.
Mount ==
    LET waits == page.restoring /\ page.name \in Reporting
    IN  /\ page.stage = "loading"
        /\ page' = [page EXCEPT !.stage = "mounted", !.restoring = waits, !.shown = ~waits]
        /\ UNCHANGED <<verified, account, history, at, lateLoad, store, released, opened,
                       captured, signOut, operations, closed>>

\* A factory that fails to load leaves the entry what it was restoring.
Unavailable ==
    /\ page.stage = "loading"
    /\ page' = [page EXCEPT !.stage = "unavailable"]
    /\ UNCHANGED <<verified, account, history, at, lateLoad, store, released, opened,
                   captured, signOut, operations, closed>>

\* A factory that resolves for a view the shell left mounts nothing.
\* Slip: it mounts into the view that replaced it.
LateMountSlip(name) ==
    page' = [page EXCEPT !.stage = IF @ = "none" THEN @ ELSE "mounted", !.name = name]
LateMount(name) == page' = page

LateLoad(name) ==
    /\ name \in lateLoad
    /\ LateMount(name)
    /\ lateLoad' = lateLoad \ {name}
    /\ UNCHANGED <<verified, account, history, at, store, released, opened, captured,
                   signOut, operations, closed>>

\* The page reports that it presented its entry, or could not.  Either way
\* the entry keeps its context until the user takes it over.
Presented(ok) ==
    /\ Mounted /\ page.restoring /\ ~page.settled
    /\ page' = [page EXCEPT !.settled = TRUE, !.shown = ok]
    /\ UNCHANGED <<verified, account, history, at, lateLoad, store, released, opened,
                   captured, signOut, operations, closed>>

\* takeOver: explicit input releases the context once the presentation settled.
TakesOver == page.settled

Input ==
    /\ Mounted /\ page.restoring
    /\ TakesOver
    /\ page' = [page EXCEPT !.restoring = FALSE, !.chosen = page.settled]
    /\ UNCHANGED <<verified, account, history, at, lateLoad, store, released, opened,
                   captured, signOut, operations, closed>>

--------
(* The verified account.                                                    *)

\* Operations of the account that leaves; one that is departed stays so.
Departed == IF operations = {} THEN {} ELSE {"departed"}

\* applyAccount: another account ends the private state of the one before.
Cleared == <<>>

ApplyAccount(next, rest) ==
    IF account # Nobody /\ next = account
    THEN /\ operations' = rest
         /\ UNCHANGED <<account, history, at, page, lateLoad, store, released, opened>>
    ELSE /\ account' = next
         /\ operations' = IF rest = {} THEN {} ELSE {"departed"}
         /\ store' = Cleared
         /\ released' = Back(released, store)
         /\ Render(next, history, at, <<>>)

Controls(next) ==
    IF account # Nobody /\ next = account THEN signOut
    ELSE [pending |-> FALSE, hidden |-> FALSE]

\* Identity moves to another account, and says so later.
Verify(next) ==
    /\ next # verified
    /\ verified' = next
    /\ UNCHANGED <<account, history, at, page, lateLoad, store, released, opened, captured,
                   signOut, operations, closed>>

Notify ==
    /\ verified # account /\ opened < MaxTokens
    /\ ApplyAccount(verified, operations)
    /\ signOut' = Controls(verified)
    /\ UNCHANGED <<verified, captured, closed>>

RequestSignOut ==
    /\ account # Nobody /\ ~signOut.pending
    /\ signOut' = [pending |-> TRUE, hidden |-> TRUE]
    /\ operations' = operations \cup {"out"}
    /\ UNCHANGED <<verified, account, history, at, page, lateLoad, store, released, opened,
                   captured, closed>>

\* finishSignOut: with the account identity reports then, or with the page
\* that stayed live underneath.
FinishSignOut ==
    /\ "out" \in operations /\ opened < MaxTokens
    /\ ApplyAccount(verified, operations \ {"out"})
    /\ signOut' = [pending |-> FALSE, hidden |-> FALSE]
    /\ UNCHANGED <<verified, captured, closed>>

RequestSignIn ==
    /\ account = Nobody /\ page.stage = "none"
    /\ operations' = operations \cup {"in"}
    /\ UNCHANGED <<verified, account, history, at, page, lateLoad, store, released, opened,
                   captured, signOut, closed>>

FinishSignIn ==
    /\ "in" \in operations /\ opened < MaxTokens
    /\ \/ /\ ApplyAccount(verified, operations \ {"in"})
          /\ signOut' = Controls(verified)
       \/ /\ operations' = operations \ {"in"}
          /\ UNCHANGED <<account, history, at, page, lateLoad, store, released, opened, signOut>>
    /\ UNCHANGED <<verified, captured, closed>>

\* An operation the departed account started changes nothing here.
FinishDeparted ==
    /\ "departed" \in operations
    /\ operations' = operations \ {"departed"}
    /\ UNCHANGED <<verified, account, history, at, page, lateLoad, store, released, opened,
                   captured, signOut, closed>>

DisposeShell ==
    /\ closed' = TRUE
    /\ page' = Empty
    /\ lateLoad' = Closed
    /\ store' = <<>>
    /\ released' = Back(released, store)
    /\ operations' = Departed
    /\ UNCHANGED <<verified, account, history, at, opened, captured, signOut>>

\* The shell starts over the history an earlier load of the application left.
ShellInit ==
    /\ verified \in Users \cup {Nobody} /\ account = verified
    /\ \E name, before \in Pages :
          history = <<[page |-> before, token |-> 0],
                      [page |-> name, token |-> IF verified = Nobody THEN 0 ELSE 1]>>
    /\ at = 2
    /\ opened = IF verified = Nobody THEN 0 ELSE 1
    /\ page = View(verified, history[2], <<>>)
    /\ lateLoad = {} /\ store = <<>> /\ captured = 0
    /\ released = [h \in Handles |-> 0]
    /\ signOut = [pending |-> FALSE, hidden |-> FALSE]
    /\ operations = {} /\ closed = FALSE

ShellNext ==
    \/ /\ ~closed
       /\ \/ \E name \in Pages : account # Nobody /\ (Navigate(name) \/ Replace(name))
          \/ GoBack
          \/ \E i \in {at - 1, at + 1} : Traverse(i)
          \/ Mount \/ Unavailable \/ Input \/ (\E ok \in BOOLEAN : Presented(ok))
          \/ \E next \in Users \cup {Nobody} : Verify(next)
          \/ Notify \/ RequestSignOut \/ FinishSignOut \/ RequestSignIn \/ FinishSignIn
          \/ DisposeShell
    \/ \E name \in Pages : LateLoad(name)
    \/ FinishDeparted

ShellSpec == ShellInit /\ [][ShellNext]_shellVars

--------
(* Properties.                                                              *)

\* The presented page handed over newer state than it restores, and its entry
\* keeps that: its page asked to go back.
HandedOver ==
    Mounted /\ \E i \in DOMAIN store : /\ store[i].token = page.token
                                     /\ store[i].handle > page.restored.handle

\* Every state a page handed over is kept for one entry or was given back to
\* its factory once; what the presented page restores is given back under it
\* only when its entry keeps what that page handed over since, and never
\* before the page is mounted (restoration.ts save, discard, clear; shell.ts
\* replace, rememberCurrent, back).
HandlesReleasedOnce ==
    /\ \A h \in 1..captured :
         LET keeping == {i \in DOMAIN store : store[i].handle = h}
         IN  released[h] + Cardinality(keeping) = 1
    /\ page.restored # Nobody /\ page.restored.handle \in Handles =>
         released[page.restored.handle] = 0 \/ HandedOver

\* The page that is presented is the one the current entry names, for the
\* presented account, and no snapshot of another account is restored or kept
\* (shell.ts mountPage, applyAccount; restoration.ts read).
PresentsItsEntry ==
    ~closed =>
        /\ page.stage # "none" =>
             page.name = history[at].page /\ page.token = history[at].token
        /\ page.stage = "none" <=> account = Nobody
        /\ \A i \in DOMAIN store : store[i].account = account

\* The context of a whole view is never replaced by that of a view still
\* arriving, unless the user took a settled presentation over
\* (shell.ts rememberCurrent, restorePresentedInteraction;
\* docs/card-list.md:133-135).
ContextIsKept ==
    [][\A i \in DOMAIN store, j \in DOMAIN store' :
         store[i].token = store'[j].token /\ store[i].whole /\ ~store'[j].whole
            => page.chosen]_shellVars

\* The sign-out control never stays disabled, nor the page hidden, without an
\* operation of this account that will enable it again (shell.ts
\* finishSignOut, applyAccount).
SignOutNeverStuck ==
    ~closed => /\ signOut.pending => "out" \in operations
               /\ signOut.hidden => signOut.pending

\* What is presented, kept and offered is the presented account's.
FollowsItsAccount == PresentsItsEntry /\ SignOutNeverStuck
=============================================================================
