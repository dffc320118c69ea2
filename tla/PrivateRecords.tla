---------------------------- MODULE PrivateRecords ----------------------------
(***************************************************************************)
(* What UserCards promises of one account's tags, intended cards and       *)
(* copies: every committed change is one change of the records as they are *)
(* when it commits, under a private revision of its own.                   *)
(***************************************************************************)
EXTENDS Integers

CONSTANTS
    None,           \* no record, no place
    Intended,       \* tags that ask for cards
    Locations,      \* tags that say where a copy is
    Targets,        \* cards and printings a tag may ask for
    Copies,
    Printings,
    MaxQuantity     \* what a tag may ask of one target

VARIABLES
    label,      \* [tag -> how often a tag was named, 0 before it exists]
    intent,     \* [Intended -> [Targets -> [quantity, revision] or None]]
    copy,       \* [Copies -> [printing, revision] or None]
    place,      \* [Copies -> a location or None]
    revision    \* the account's private revision

records == <<label, intent, copy, place, revision>>

Quantities == 1 .. MaxQuantity

\* A tag is created or renamed.
TagNamed(before, after) ==
    \E t \in Intended \cup Locations : after = [before EXCEPT ![t] = @ + 1]

(* What one tag asks for, before and after.                                *)

Associated(before, after) ==
    \E x \in Targets, quantity \in Quantities :
        /\ before[x] = None
        /\ after = [before EXCEPT ![x] = [quantity |-> quantity, revision |-> 1]]

\* What was asked of one target is asked of another, or in another quantity.
Changed(before, after) ==
    \E x, y \in Targets, quantity \in Quantities :
        /\ before[x] # None /\ (x = y \/ before[y] = None)
        /\ after = [[before EXCEPT ![x] = None] EXCEPT ![y] =
                       [quantity |-> quantity, revision |-> before[x].revision + 1]]

Removed(before, after) ==
    \E x \in Targets : before[x] # None /\ after = [before EXCEPT ![x] = None]

\* A confirmed import adds to what is asked for.
Confirmed(before, after) ==
    \A x \in Targets :
        \/ after[x] = before[x]
        \/ /\ after[x] # None
           /\ IF before[x] = None THEN after[x].revision = 1
              ELSE /\ after[x].revision = before[x].revision + 1
                   /\ after[x].quantity > before[x].quantity

IntentChanged(before, after) ==
    \E t \in Intended :
        /\ \A u \in Intended \ {t} : after[u] = before[u]
        /\ \/ Associated(before[t], after[t]) \/ Changed(before[t], after[t])
           \/ Removed(before[t], after[t]) \/ Confirmed(before[t], after[t])

(* The copies, and where they are.                                         *)

CopiesAdded(before, after) ==
    \E c \in Copies, p \in Printings :
        /\ before[c] = None
        /\ after = [before EXCEPT ![c] = [printing |-> p, revision |-> 1]]

Corrected(before, after) ==
    \E c \in Copies, p \in Printings :
        /\ before[c] # None
        /\ after = [before EXCEPT ![c] = [printing |-> p, revision |-> before[c].revision + 1]]

\* A copy is in one place or in none.
Moved(before, after, from, to) ==
    \E c \in Copies, l \in Locations \cup {None} :
        /\ before[c] # None
        /\ after = [before EXCEPT ![c].revision = @ + 1]
        /\ to = [from EXCEPT ![c] = l]

\* A batch of a prepared collection: records are added, none is changed.
Loaded ==
    /\ \A t \in Intended \cup Locations : label[t] > 0 => label'[t] = label[t]
    /\ \A t \in Intended, x \in Targets : intent[t][x] # None => intent'[t][x] = intent[t][x]
    /\ \A c \in Copies : copy[c] # None => copy'[c] = copy[c] /\ place'[c] = place[c]

OneChange ==
    \/ Loaded
    \/ TagNamed(label, label') /\ UNCHANGED <<intent, copy, place>>
    \/ IntentChanged(intent, intent') /\ UNCHANGED <<label, copy, place>>
    \/ CopiesAdded(copy, copy') /\ UNCHANGED <<label, intent, place>>
    \/ Corrected(copy, copy') /\ UNCHANGED <<label, intent, place>>
    \/ Moved(copy, copy', place, place') /\ UNCHANGED <<label, intent>>

Next == revision' = revision + 1 /\ OneChange

Spec == [][Next]_records
=============================================================================
