--------------------------- MODULE MCBrowserSession ---------------------------
(* Three parts of a browser page: its session, the shell that presents what  *)
(* its account retains, and Recognition.  The shell is told the account,     *)
(* which any step of the session may change, and Recognition knows none of   *)
(* the others, so a behaviour moves one of the three.                        *)
EXTENDS BrowserSession, NavigationShell, RecognitionSession, TLC

VARIABLE part

MCVars == <<vars, shellVars, recognitionVars, part>>

\* No property tells accounts, users, calls or attempts apart; users are named
\* like accounts and attempts like calls.
MCSymmetry == Permutations(Accounts) \cup Permutations(Requests)

\* The entry below the first presented one, which an earlier load left.
SomePage == CHOOSE name \in Pages : TRUE

MCInit ==
    /\ part \in {"session", "shell", "recognition"}
    /\ Init /\ ShellInit /\ RecognitionInit
    /\ part # "session" => session = None
    /\ history[1].page = SomePage
    /\ part # "shell" => verified = Nobody /\ history[2].page = SomePage

MCNext ==
    /\ part' = part
    /\ \/ part = "session" /\ Next /\ UNCHANGED <<shellVars, recognitionVars>>
       \/ part = "shell" /\ ShellNext /\ UNCHANGED <<vars, recognitionVars>>
       \/ part = "recognition" /\ RecognitionNext /\ UNCHANGED <<vars, shellVars>>

MCSpec == MCInit /\ [][MCNext]_MCVars

\* What the shell and Recognition hold is released once, by whoever ends it: a
\* page's handle by the store that kept it (restoration.ts releaseKept) and an
\* attempt's pipeline by the end of its delivery (session.ts finish).
ReleasedOnce == HandlesReleasedOnce /\ PipelinesReleasedOnce
=============================================================================
