------------------------------ MODULE MCCardList ------------------------------
(* The window of a card list and its selection with the fragment it needs.   *)
(* They share the pages, which the selection takes as they come, so a        *)
(* behaviour moves one of the two.                                           *)
EXTENDS CardListWindow, CardListSelection, TLC

CONSTANTS c1, c2, i1, i2

VARIABLE part

MCVars == <<listVars, selectionVars, part>>

MCContexts == {c1, c2}
MCVersions == 0..1

\* The second version reorders, removes and adds entries.
MCResults ==
    [c \in MCContexts |->
        IF c = c1 THEN [v \in MCVersions |-> IF v = 0 THEN <<1, 2, 3, 4>> ELSE <<3, 1, 5, 4>>]
        ELSE [v \in MCVersions |-> IF v = 0 THEN <<2, 5>> ELSE <<5, 1, 2>>]]

\* What an earlier visit retained: the beginning, a place within the first
\* page, and one within a later page of the older version.
MCRestorable ==
    {[context |-> c1, window |-> w, position |-> p] : w \in 1..3,
        p \in {Start, [from |-> None, offset |-> 1],
               [from |-> [context |-> c1, version |-> 0, at |-> 2], offset |-> 1]}}

\* What an entry carries is interchangeable: it is only compared.
MCSymmetry == Permutations(Identities)

SomeContext == CHOOSE c \in Contexts : TRUE

MCInit ==
    /\ part \in {"window", "selection"}
    /\ ListInit /\ SelectionInit
    /\ part # "window" => version = 0 /\ kept = None /\ context = SomeContext
    /\ part # "selection" => selected = {} /\ replacing

MCNext ==
    /\ part' = part
    /\ \/ part = "window" /\ ListNext /\ UNCHANGED selectionVars
       \/ part = "selection" /\ SelectionNext /\ UNCHANGED listVars

MCSpec == MCInit /\ [][MCNext]_MCVars
=============================================================================
