---------------------------- MODULE MCPrivateRecords ----------------------------
(* Small instances of Organization and of a migration into its account. *)
EXTENDS MigrationLoad, TLC

CONSTANTS d, e, here, there, owned, c1, c2, w1, w2, w3, r1, m1, m2, s1, s2, i1

\* One deck asks for two targets; a copy is in one of two places.
InUse ==
    [tag |-> (d :> 1) @@ (e :> 1) @@ (here :> 1) @@ (there :> 0) @@ (owned :> 1),
     association |-> <<Row(d, 1, 1, 1), Row(d, 3, 1, 1), Row(owned, c1, None, 1),
                      Row(here, c1, None, 1)>>,
     copy |-> (c1 :> [printing |-> 4, revision |-> 1]) @@ (c2 :> None),
     reference |-> {4}]
Empty ==
    [tag |-> [t \in Tags |-> 0], association |-> <<>>, copy |-> [c \in Copies |-> None],
     reference |-> {}]
MCAccounts == {InUse, Empty}

MCRequests ==
    {[op |-> "createTag", tag |-> there], [op |-> "correctTag", tag |-> d, expected |-> 1],
     [op |-> "insertAssociation", tag |-> d, target |-> 2, quantity |-> 1],
     [op |-> "correctAssociation", id |-> 1, target |-> 2, quantity |-> 2, expected |-> 1],
     [op |-> "correctAssociation", id |-> 1, target |-> 1, quantity |-> 2, expected |-> 1],
     [op |-> "removeAssociation", id |-> 1, expected |-> 1],
     [op |-> "confirm", tag |-> d, wanted |-> (1 :> 1) @@ (2 :> 1) @@ (3 :> 1)],
     [op |-> "confirm", tag |-> e, wanted |-> (2 :> 1) @@ (3 :> 2)],
     [op |-> "moveCopyLocation", copy |-> c1, place |-> there, expected |-> 1],
     [op |-> "moveCopyLocation", copy |-> c1, place |-> None, expected |-> 1],
     [op |-> "moveCopyLocation", copy |-> c1, place |-> here, expected |-> 2],
     [op |-> "correctCopy", copy |-> c1, printing |-> 2, expected |-> 1],
     [op |-> "insertCopies", copy |-> c2, printing |-> 3]}

\* The collection prepared from one source, prepared again with less in it, and
\* one prepared from another source.
Prepared ==
    [snapshot |-> s1, tags |-> {d, here}, copies |-> (c1 :> 4), placed |-> {<<here, c1>>},
     associations |-> {Row(d, 2, 1, 1)}, sessions |-> {i1},
     pending |-> {[entry |-> "entry", session |-> i1]}]
NotReviewed == [Prepared EXCEPT !.associations = {}, !.sessions = {}, !.pending = {}]
MCPlans ==
    {Prepared, NotReviewed,
     [NotReviewed EXCEPT !.snapshot = s2, !.copies = <<>>, !.placed = {}]}

Interchangeable == Permutations(Workers) \cup Permutations(Loaders)

\* One question of a behaviour: an account in use has three writers, or two
\* beside a list that is read; into one that holds nothing a collection is
\* loaded twice, at once or one load after the other, beside one writer.
Writing == {w \in Workers : work[w].at # "idle"}
OneQuestion ==
    \A r \in Readers : reader[r].tag # None => reader[r].tag = d /\ Cardinality(Writing) <= 2

MCNext ==
    IF tag[e] > 0 THEN Next /\ UNCHANGED loading
    ELSE \/ /\ \E w \in Workers :
                 \/ Writing = {} /\ \E r \in Requests : Open(w, r)
                 \/ Step(w) \/ RollBack(w)
            /\ UNCHANGED loading
         \/ \E l \in Loaders : Loading(l)

MCSpec == LoadInit /\ [][MCNext]_loadVars
=============================================================================
