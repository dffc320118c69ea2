----------------------------- MODULE ImportReads -----------------------------
(***************************************************************************)
(* Pages of an import's pending entries, read beside the changes of        *)
(* ImportStore (src/usercards/internal/import-reads.ts, imports/reads.ts). *)
(* A page is read by several statements outside a transaction, each of a   *)
(* few entries and each with the account revision it saw; the pages of a   *)
(* list are joined by continuations.                                       *)
(***************************************************************************)
EXTENDS ImportStore, SequencesExt

CONSTANTS
    PageSize,       \* the entries of a page
    EntriesPerRead  \* entriesPerRead, what one statement reads

ASSUME ReadAssumption == {PageSize, EntriesPerRead} \subseteq Nat \ {0} /\ None \notin Nat

VARIABLE listing    \* a consumer's list: the pages it joined and the page being read

readVars == <<vars, listing>>

NotReading == [at |-> "idle"]

\* A continuation holds where the next page starts and the revision of the last.
Continued(s, listed, token) ==
    [at |-> "page", session |-> s, listed |-> listed, token |-> token,
     read |-> 0, entries |-> <<>>, seen |-> None]

\* row_number() of a pending entry, over (order by position)
RowNumber(s, e) == Cardinality({f \in PendingOf(s) : entry[f].position <= entry[e].position})

\* The pending entries of an import with what they hold, in their order.
Listed(s) ==
    [n \in 1 .. Cardinality(PendingOf(s)) |->
        LET e == CHOOSE e \in PendingOf(s) : RowNumber(s, e) = n
        IN  [id |-> e, row |-> entry[e]]]

\* One more than a page, to know whether another follows.
Limit == PageSize + 1

\* entryPageStatement
Statement(s, offset, limit) ==
    SubSeq(Listed(s), offset + 1, Min({offset + limit, Len(Listed(s))}))

\* Slip: the statements of a page are not compared.
ChangedSlip(seen) == FALSE

Changed(seen) == seen # None /\ seen # revision

\* paginate
Paginated(page) ==
    IF page.token # None /\ page.token # page.seen THEN [at |-> "conflict"]
    ELSE IF Len(page.entries) > PageSize
    THEN Continued(page.session, page.listed \o SubSeq(page.entries, 1, PageSize), page.seen)
    ELSE [at |-> "complete", session |-> page.session, token |-> page.seen,
          listed |-> page.listed \o page.entries]

Start(s) ==
    /\ listing.at = "idle"
    /\ listing' = Continued(s, <<>>, None)
    /\ UNCHANGED vars

\* listEntries, one statement at a time
ReadEntries ==
    LET size == Min({EntriesPerRead, Limit - listing.read})
        found == Statement(listing.session, Len(listing.listed) + listing.read, size)
        page == [listing EXCEPT !.read = @ + size, !.entries = @ \o found, !.seen = revision]
    IN  /\ listing.at = "page"
        /\ listing' = IF session[listing.session] = None THEN [at |-> "not-found"]
                      ELSE IF Changed(listing.seen) THEN [at |-> "conflict"]
                      ELSE IF Len(found) < size \/ page.read = Limit THEN Paginated(page)
                      ELSE page
        /\ UNCHANGED vars

ReadInit == Init /\ listing = NotReading

ReadNext ==
    \/ Next /\ UNCHANGED listing
    \/ \E s \in Sessions : Start(s)
    \/ ReadEntries

ReadSpec == ReadInit /\ [][ReadNext]_readVars

\* What a reader joined, from several statements and over several pages, is
\* the import as it is, while the account's revision is the one they carry:
\* no entry is skipped, repeated or shown as it no longer was.
ListedOneState ==
    listing.at \in {"page", "complete"} /\ listing.token = revision =>
        /\ IsPrefix(listing.listed, Listed(listing.session))
        /\ listing.at = "complete" => listing.listed = Listed(listing.session)
=============================================================================
