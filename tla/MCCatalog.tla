------------------------------- MODULE MCCatalog -------------------------------
(* Small snapshots for TLC: two that differ in every way, and refused ones. *)
EXTENDS CatalogReads

CONSTANTS a, b, n1, n2, f1, f2, t1, t2, r1

MCRecord(card, facts, names, printing, look, bytes) ==
    [card |-> card, facts |-> facts, names |-> names, printing |-> printing,
     look |-> look, bytes |-> bytes]

\* v2 removes b, renames and reorders; its two records of a disagree.
\* v3 moves a stored printing to another card, v4 splits one, v5 is empty,
\* v6 carries a record beyond the write bound.
MCSnapshot ==
    [v \in Versions |->
        CASE v = "v1" -> <<MCRecord(a, f1, {n1}, 1, 1, 1), MCRecord(a, f1, {n2}, 2, 2, 1),
                           MCRecord(b, f1, {n1}, 3, 1, 1)>>
          [] v = "v2" -> <<MCRecord(a, f1, {n2}, 1, 2, 1), MCRecord(a, f1, {}, 1, 2, 1),
                           MCRecord(a, f2, {}, 2, 1, 2)>>
          [] v = "v3" -> <<MCRecord(b, f2, {n1}, 1, 1, 2), MCRecord(b, f1, {n2}, 3, 1, 2)>>
          [] v = "v4" -> <<MCRecord(b, f1, {n1}, 3, 1, 1), MCRecord(a, f1, {n1}, 3, 1, 1)>>
          [] v = "v5" -> <<>>
          [] v = "v6" -> <<MCRecord(a, f2, {n2}, 2, 2, 1), MCRecord(a, f1, {n2}, 2, 2, 4)>>]

\* Two questions of one run: two tasks race over every snapshot while nobody
\* reads, and readers read while one task publishes the snapshots it accepts.
OneQuestion ==
    \/ \A r \in Readers : reader[r].revision = 0 /\ reader[r].at = "idle"
    \/ /\ \E t \in Tasks : \A u \in Tasks \ {t} : task[u].at = "idle"
       /\ \A t \in Tasks : task[t].version \in {"v1", "v2", "v3", None}
=============================================================================
