--------------------------- MODULE PublishedCatalog ---------------------------
(***************************************************************************)
(* What Catalog promises of its public query membership: it is nothing, or *)
(* the complete content of one provider snapshot, and it moves from one to *)
(* another in a single step, never to the version it already carries.      *)
(***************************************************************************)
EXTENDS Integers, Sequences

CONSTANTS Versions, Snapshot, None

VARIABLES
    published,  \* what readers see: the revision and its membership
    history     \* the versions published so far

publishedVars == <<published, history>>

\* The members one snapshot declares; the last record of an identity wins.
Declared(v) ==
    LET records == Snapshot[v]
        positions == DOMAIN records
        LastOf(Same(_)) == {n \in positions : Same(n) /\ \A k \in positions : Same(k) => k <= n}
        CardAt(c) == CHOOSE n \in LastOf(LAMBDA k : records[k].card = c) : TRUE
        PrintingAt(p) == CHOOSE n \in LastOf(LAMBDA k : records[k].printing = p) : TRUE
    IN  [cards |-> {[card |-> c, facts |-> records[CardAt(c)].facts] :
                       c \in {records[n].card : n \in positions}},
         names |-> UNION {{[card |-> records[n].card, name |-> a] : a \in records[n].names} :
                             n \in positions},
         printings |-> {[printing |-> p, card |-> records[PrintingAt(p)].card,
                         look |-> records[PrintingAt(p)].look] :
                           p \in {records[n].printing : n \in positions}}]

\* One snapshot may name a printing several times, for one card only.
Coherent(v) ==
    /\ Snapshot[v] # <<>>
    /\ \A m, n \in DOMAIN Snapshot[v] :
          Snapshot[v][m].printing = Snapshot[v][n].printing
              => Snapshot[v][m].card = Snapshot[v][n].card

PublishedInit == published = None /\ history = <<>>

Publish(v) ==
    /\ published # None => published.revision.version # v
    /\ history' = Append(history, v)
    /\ Coherent(v)
    /\ published' = [revision |-> [id |-> Len(history'), version |-> v],
                     members |-> Declared(v)]

PublishedNext == \E v \in Versions : Publish(v)

PublishedSpec == PublishedInit /\ [][PublishedNext]_publishedVars
=============================================================================
