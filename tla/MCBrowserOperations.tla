------------------------- MODULE MCBrowserOperations -------------------------
(* Small instances of BrowserOperations. *)
EXTENDS BrowserOperations

CONSTANTS k, l, i, j

Submission(kind, key, input) == [kind |-> kind, key |-> key, input |-> input]

\* One confirmation, and the same entries at other revisions.
OneConfirmation == {Submission("confirm", k, i), Submission("confirm", k, j)}

\* One operation of every retry policy (a discard has that of a change), and
\* captures, one of them under a reused identity.
Policies ==
    {Submission("confirm", k, i), Submission("source", k, i),
     Submission("stage", l, i), Submission("stage", l, j),
     Submission("create", k, i)}
=============================================================================
