----------------------------- MODULE CatalogReads -----------------------------
(***************************************************************************)
(* Paged and multi-statement reads of the published catalog while tasks    *)
(* publish: printing lists with their continuation                         *)
(* (src/catalog/internal/service.ts, postgres.ts) and the selection of one *)
(* printing over them (printing-lookup.ts).  Every statement sees one      *)
(* committed revision; a read of several statements may see several.       *)
(***************************************************************************)
EXTENDS CatalogPublication, SequencesExt

CONSTANTS
    Readers,
    PageSize    \* the page size a reader asks for

ASSUME PageAssumption == PageSize \in Nat \ {0}

VARIABLE reader     \* what each consumer read so far

vars == <<catalogVars, reader>>

\* `wanted` constrains a lookup, None a plain list; `offset` and `token` are
\* its continuation, `revision` the one its first page was read from.
Reading ==
    [at : {"idle", "paging", "card", "listed", "found", "absent", "stale", "unavailable"},
     card : Cards, wanted : Looks \cup {None}, offset : Nat, token : 0 .. MaxRevisions,
     revision : 0 .. MaxRevisions, listed : Seq(Printings),
     printing : Printings \cup {None}, facts : Facts \cup {None}]

Finishes(r, at) == reader' = [reader EXCEPT ![r].at = at]

\* Editions, numbers and languages have an order, and so have identities.
ASSUME OrderAssumption == Looks \subseteq Int /\ Printings \subseteq Int

Before(p, q) == p.look < q.look \/ (p.look = q.look /\ p.printing < q.printing)

\* The current printings of a card by edition, number and language, then identity.
Listing(printings, c) ==
    CHOOSE l \in SetToSeqs({p \in printings : p.card = c}) :
        \A i, j \in DOMAIN l : i < j => Before(l[i], l[j])

Identities(listing) == [n \in DOMAIN listing |-> listing[n].printing]

\* Zero is a request without a continuation.
Stale(token) == token # 0 /\ token # stored.revision.id

\* Slip: the card is resolved without comparing revisions.
MovedSlip(revision) == FALSE

Moved(revision) == revision # 0 /\ revision # stored.revision.id

\* What resolve finds: any stored card, in the query membership or not.
Resolved(c) == stored.card[c] # None

Start(r, c, wanted) ==
    /\ reader[r].at \notin {"paging", "card"}
    /\ reader' = [reader EXCEPT ![r] =
           [at |-> "paging", card |-> c, wanted |-> wanted, offset |-> 0, token |-> 0,
            revision |-> 0, listed |-> <<>>, printing |-> None, facts |-> None]]
    /\ UNCHANGED catalogVars

\* One page, read with its revision in one statement.
ReadPage(r) ==
    LET q == reader[r]
        all == Listing(View(stored).printings, q.card)
        page == SubSeq(all, q.offset + 1, Min({q.offset + PageSize, Len(all)}))
        more == Len(all) > q.offset + PageSize
        matches == {n \in DOMAIN page : page[n].look = q.wanted}
        read == [q EXCEPT !.revision = stored.revision.id,
                          !.token = stored.revision.id, !.offset = @ + PageSize,
                          !.listed = @ \o Identities(page)]
    IN  /\ q.at = "paging"
        /\ \/ stored.revision = None /\ Finishes(r, "unavailable")
           \/ /\ stored.revision # None
              /\ Stale(q.token) \/ (q.wanted # None /\ Moved(q.revision))
              /\ Finishes(r, "stale")
           \/ /\ stored.revision # None
              /\ ~Stale(q.token) /\ (q.wanted # None => ~Moved(q.revision))
              /\ reader' = [reader EXCEPT ![r] =
                     IF matches # {}
                     THEN [read EXCEPT !.at = "card", !.printing = page[Min(matches)].printing]
                     ELSE IF more THEN read
                     ELSE [read EXCEPT !.at = IF q.wanted = None THEN "listed" ELSE "absent"]]
        /\ UNCHANGED catalogVars

\* The lookup's card, from the same revision as its printing.
ResolveCard(r) ==
    /\ reader[r].at = "card"
    /\ \/ Moved(reader[r].revision) /\ Finishes(r, "stale")
       \/ /\ ~Moved(reader[r].revision)
          /\ IF Resolved(reader[r].card)
             THEN reader' = [reader EXCEPT ![r] =
                      [@ EXCEPT !.at = "found", !.facts = stored.card[reader[r].card].facts]]
             ELSE Finishes(r, "unavailable")
    /\ UNCHANGED catalogVars

\* A statement fails.
FailRead(r) ==
    /\ reader[r].at \in {"paging", "card"}
    /\ Finishes(r, "unavailable")
    /\ UNCHANGED catalogVars

Read(r) ==
    \/ \E c \in Cards, wanted \in Looks \cup {None} : Start(r, c, wanted)
    \/ ReadPage(r) \/ ResolveCard(r) \/ FailRead(r)

Init ==
    /\ CatalogInit
    /\ \E c \in Cards :
          reader = [r \in Readers |->
              [at |-> "idle", card |-> c, wanted |-> None, offset |-> 0, token |-> 0,
               revision |-> 0, listed |-> <<>>, printing |-> None, facts |-> None]]

Next == (CatalogNext /\ UNCHANGED reader) \/ \E r \in Readers : Read(r)

Spec == Init /\ [][Next]_vars

--------

\* A reader continues the revision it started, as far as it read it.
TypeOK ==
    /\ CatalogTypeOK
    /\ reader \in [Readers -> Reading]
    /\ \A r \in Readers : reader[r].token = reader[r].revision

\* The printings one published revision lists for a card.
Published(revision, c) == Listing(Promise!Declared(history[revision]).printings, c)

\* The pages of a printing list join to the list of the one revision the first
\* was read from: none skipped, none repeated, although records were removed
\* and reordered between the pages.
PagesJoin ==
    \A r \in Readers :
        LET q == reader[r]
            whole == Identities(Published(q.revision, q.card))
        IN  /\ q.revision # 0 => IsPrefix(q.listed, whole)
            /\ q.at = "listed" => q.listed = whole

\* A lookup answers from one revision: the first printing that matches in list
\* order with the facts its card had there, or that none of them matches.
LookupAnswers ==
    \A r \in Readers :
        LET q == reader[r]
            whole == Published(q.revision, q.card)
            matches == {n \in DOMAIN whole : whole[n].look = q.wanted}
        IN  /\ q.at = "found" =>
                  /\ matches # {} /\ q.printing = whole[Min(matches)].printing
                  /\ [card |-> q.card, facts |-> q.facts]
                        \in Promise!Declared(history[q.revision]).cards
            /\ q.at = "absent" => matches = {}

\* Whatever a consumer joins of several answers is of one published revision.
ReadsOneRevision == PagesJoin /\ LookupAnswers

\* A revision the Catalog answers with is one it published, for those who
\* publish as for those who read.
AnswersNameTheirRevision == ReturnsRequestedRevision /\ ReadsOneRevision
=============================================================================
