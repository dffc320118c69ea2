-------------------------- MODULE CatalogPublication --------------------------
(***************************************************************************)
(* Catalog synchronization (src/catalog/internal/sync.ts) and the atomic   *)
(* publication of a candidate revision (publication.ts): overlapping       *)
(* tasks, each in one database transaction that may fail at any statement, *)
(* lose the answer to its commit, or be abandoned until it expires.        *)
(***************************************************************************)
EXTENDS Integers, Sequences, FiniteSetsExt

CONSTANTS
    None,           \* null: no row, no revision, nothing open
    Tasks,          \* synchronization invocations that may overlap
    Cards, Names, Printings, Facts, Looks,
    Versions,       \* the versions a provider snapshot may report
    Snapshot,       \* the readable records of each version, in stream order
    MaxRecords,     \* maxRecordsPerStatement
    MaxBytes,       \* maxStatementBytes
    MaxRevisions    \* bound on the revisions published

Records ==
    [card : Cards, facts : Facts, names : SUBSET Names, printing : Printings,
     look : Looks, bytes : Nat]

ASSUME CatalogAssumption ==
    /\ Snapshot \in [Versions -> Seq(Records)]
    /\ MaxRecords \in Nat \ {0} /\ MaxBytes \in Nat /\ MaxRevisions \in Nat

VARIABLES
    stored,     \* the committed tables of catalog_private
    history,    \* the versions published so far; a revision is its position
    holder,     \* the task whose transaction holds the publication lock
    draft,      \* what that transaction wrote, unreadable until it commits
    task        \* where each invocation is

catalogVars == <<stored, history, holder, draft, task>>

CardRows == [facts : Facts, current : BOOLEAN, candidate : BOOLEAN]
NameRows == [current : BOOLEAN, candidate : BOOLEAN]
PrintingRows == [card : Cards, look : Looks, current : BOOLEAN, candidate : BOOLEAN]
Revisions == [id : 1 .. MaxRevisions, version : Versions]

NameKeys == Cards \X Names

\* Nothing is told apart from every row, revision, task and card.
ASSUME NoneAssumption ==
    None \notin Tasks \cup Cards \cup CardRows \cup NameRows \cup PrintingRows \cup Revisions

Tables ==
    [card : [Cards -> CardRows \cup {None}],
     name : [NameKeys -> NameRows \cup {None}],
     printing : [Printings -> PrintingRows \cup {None}],
     revision : Revisions \cup {None}]

\* `seen` is the revision the call read before it opened its snapshot, `next`
\* the record it reads next, `buffered` the batch not yet written, `known` the
\* card each printing of this snapshot was assigned to (printingCards).
Invocations ==
    [at : {"idle", "read", "opened", "ingest", "commit", "returned", "busy", "failed"},
     version : Versions \cup {None}, seen : Revisions \cup {None}, next : Nat,
     buffered : Seq(Records), known : [Printings -> Cards \cup {None}]]

\* Outside a transaction an invocation holds nothing of the stream.
Outside(at, v, revision) ==
    [at |-> at, version |-> v, seen |-> revision, next |-> 1, buffered |-> <<>>,
     known |-> [p \in Printings |-> None]]

Idle == Outside("idle", None, None)

Reports(t, at, revision) ==
    task' = [task EXCEPT ![t] = Outside(at, task[t].version, revision)]

AlreadyPublished(revision, v) == revision # None /\ revision.version = v

--------
(* One batch, written inside the transaction.                              *)

\* The last record of the batch for an identity (collapseBatch).
LastOfCard(batch, c) == batch[Max({n \in DOMAIN batch : batch[n].card = c})]
LastOfPrinting(batch, p) == batch[Max({n \in DOMAIN batch : batch[n].printing = p})]

CardsOf(batch) == {batch[n].card : n \in DOMAIN batch}
PrintingsOf(batch) == {batch[n].printing : n \in DOMAIN batch}
NamesOf(batch) ==
    UNION {{<<batch[n].card, a>> : a \in batch[n].names} : n \in DOMAIN batch}

\* The write statement skips a stored row that is current and does not differ;
\* the mark statement makes it a member of the candidate all the same.
Mark(row) == [row EXCEPT !.candidate = TRUE]

\* Slip: the stored relationship is not compared.
RelationshipConflictSlip(tables, batch) == FALSE

\* A printing keeps the card it was first stored with.
RelationshipConflict(tables, batch) ==
    \E p \in PrintingsOf(batch) :
        /\ tables.printing[p] # None
        /\ tables.printing[p].card # LastOfPrinting(batch, p).card

WrittenCard(row, facts) ==
    IF row # None /\ row.current /\ row.facts = facts THEN row
    ELSE [facts |-> facts, current |-> TRUE, candidate |-> TRUE]

WrittenName(row) ==
    IF row # None /\ row.current THEN row ELSE [current |-> TRUE, candidate |-> TRUE]

WrittenPrinting(row, record) ==
    IF row # None /\ row.current /\ row.card = record.card /\ row.look = record.look THEN row
    ELSE [card |-> record.card, look |-> record.look, current |-> TRUE, candidate |-> TRUE]

\* flush, when no relationship conflicts
Flushed(tables, batch) ==
    [tables EXCEPT
        !.card = [c \in Cards |->
            IF c \notin CardsOf(batch) THEN @[c]
            ELSE Mark(WrittenCard(@[c], LastOfCard(batch, c).facts))],
        !.name = [n \in NameKeys |->
            IF n \notin NamesOf(batch) THEN @[n] ELSE Mark(WrittenName(@[n]))],
        !.printing = [p \in Printings |->
            IF p \notin PrintingsOf(batch) THEN @[p]
            ELSE Mark(WrittenPrinting(@[p], LastOfPrinting(batch, p)))]]

\* Every row of every table, changed alike.
EachRow(tables, Change(_)) ==
    [tables EXCEPT
        !.card = [c \in Cards |-> IF @[c] = None THEN None ELSE Change(@[c])],
        !.name = [n \in NameKeys |-> IF @[n] = None THEN None ELSE Change(@[n])],
        !.printing = [p \in Printings |-> IF @[p] = None THEN None ELSE Change(@[p])]]

Reset(tables) == EachRow(tables, LAMBDA row : [row EXCEPT !.candidate = FALSE])

Finished(tables) == EachRow(tables, LAMBDA row : [row EXCEPT !.current = row.candidate])

Bytes(batch) ==
    LET sum[n \in 0 .. Len(batch)] == IF n = 0 THEN 0 ELSE sum[n - 1] + batch[n].bytes
    IN  sum[Len(batch)]

Full(batch, record) ==
    /\ batch # <<>>
    /\ Len(batch) >= MaxRecords \/ Bytes(batch) + record.bytes > MaxBytes

--------
(* An invocation.                                                          *)

\* synchronize reads the published revision before it opens the snapshot.
PreRead(t) ==
    /\ task[t].at \in {"idle", "returned", "busy", "failed"} /\ holder # t
    /\ task' = [task EXCEPT ![t] = Outside("read", None, stored.revision)]
    /\ UNCHANGED <<stored, history, holder, draft>>

\* An unchanged snapshot is released unread.
Open(t, v) ==
    /\ task[t].at = "read"
    /\ LET at == IF AlreadyPublished(task[t].seen, v) THEN "returned" ELSE "opened"
       IN  task' = [task EXCEPT ![t] = Outside(at, v, task[t].seen)]
    /\ UNCHANGED <<stored, history, holder, draft>>

\* The transaction takes the lock or fails, and decides again under it.
Begin(t) ==
    /\ task[t].at = "opened"
    /\ \/ /\ holder # None
          /\ Reports(t, "busy", None)
          /\ UNCHANGED <<holder, draft>>
       \/ /\ holder = None /\ AlreadyPublished(stored.revision, task[t].version)
          /\ Reports(t, "returned", stored.revision)
          /\ UNCHANGED <<holder, draft>>
       \/ /\ holder = None /\ ~AlreadyPublished(stored.revision, task[t].version)
          /\ Len(history) < MaxRevisions
          /\ holder' = t
          /\ draft' = Reset(stored)
          /\ task' = [task EXCEPT ![t].at = "ingest"]
    /\ UNCHANGED <<stored, history>>

\* A failure is reported; its transaction rolls back now, or when it expires.
Failed(t) ==
    /\ Reports(t, "failed", None)
    /\ \/ holder = t /\ UNCHANGED <<holder, draft>>
       \/ /\ holder' = IF holder = t THEN None ELSE holder
          /\ draft' = IF holder = t THEN None ELSE draft
    /\ UNCHANGED <<stored, history>>

Took(q, record, full) ==
    [q EXCEPT
        !.next = q.next + 1,
        !.buffered = IF full THEN <<record>> ELSE Append(q.buffered, record),
        !.known = [q.known EXCEPT ![record.printing] = record.card]]

\* One record of the stream: buffered, after a full batch was written.
Ingest(t) ==
    LET records == Snapshot[task[t].version]
        record == records[task[t].next]
        known == task[t].known[record.printing]
        full == Full(task[t].buffered, record)
        refused ==
            \/ known \notin {None, record.card}
            \/ full /\ RelationshipConflict(draft, task[t].buffered)
            \/ record.bytes > MaxBytes
    IN  /\ task[t].at = "ingest" /\ task[t].next <= Len(records)
        /\ IF refused THEN Failed(t)
           ELSE /\ draft' = IF full THEN Flushed(draft, task[t].buffered) ELSE draft
                /\ task' = [task EXCEPT ![t] = Took(@, record, full)]
                /\ UNCHANGED <<stored, history, holder>>

\* The last batch, the membership of the candidate and its revision.
Finish(t) ==
    LET batch == task[t].buffered
    IN  /\ task[t].at = "ingest" /\ task[t].next > Len(Snapshot[task[t].version])
        /\ IF batch = <<>> \/ RelationshipConflict(draft, batch) THEN Failed(t)
           ELSE /\ draft' = [Finished(Flushed(draft, batch)) EXCEPT
                       !.revision = [id |-> Len(history) + 1, version |-> task[t].version]]
                /\ task' = [task EXCEPT ![t] = [@ EXCEPT !.at = "commit", !.buffered = <<>>]]
                /\ UNCHANGED <<stored, history, holder>>

Committed ==
    /\ stored' = draft
    /\ history' = Append(history, draft.revision.version)
    /\ holder' = None
    /\ draft' = None

\* The commit is answered, or its answer is lost and the call fails.
Commit(t) ==
    /\ task[t].at = "commit"
    /\ Committed
    /\ Reports(t, "returned", draft.revision) \/ Reports(t, "failed", None)

\* A statement, the provider's stream or the task's own time fails it.
Fail(t) ==
    /\ task[t].at \in {"read", "opened", "ingest", "commit"}
    /\ Failed(t)

\* An abandoned transaction ends in the database: rolled back, unless its
\* commit had been sent.
Expire(t) ==
    /\ holder = t /\ task[t].at = "failed"
    /\ \/ UNCHANGED <<stored, history>> /\ holder' = None /\ draft' = None
       \/ draft.revision # stored.revision /\ Committed
    /\ UNCHANGED task

--------

NoTables ==
    [card |-> [c \in Cards |-> None], name |-> [n \in NameKeys |-> None],
     printing |-> [p \in Printings |-> None], revision |-> None]

CatalogInit ==
    /\ stored = NoTables
    /\ history = <<>>
    /\ holder = None
    /\ draft = None
    /\ task = [t \in Tasks |-> Idle]

Synchronize(t) ==
    \/ PreRead(t) \/ Begin(t) \/ Ingest(t) \/ Finish(t) \/ Commit(t) \/ Fail(t) \/ Expire(t)
    \/ \E v \in Versions : Open(t, v)

CatalogNext == \E t \in Tasks : Synchronize(t)

CatalogSpec == CatalogInit /\ [][CatalogNext]_catalogVars

--------

\* Only the holder of the lock has a transaction, and it is ingesting,
\* committing or abandoned.
CatalogTypeOK ==
    /\ stored \in Tables
    /\ history \in Seq(Versions) /\ Len(history) <= MaxRevisions
    /\ holder \in Tasks \cup {None}
    /\ IF holder = None THEN draft = None
       ELSE draft \in Tables /\ task[holder].at \in {"ingest", "commit", "failed"}
    /\ task \in [Tasks -> Invocations]
    /\ \A t \in Tasks : task[t].at \in {"ingest", "commit"} => holder = t

\* What the provider-owned views show (catalog.cards, card_names, printings).
View(tables) ==
    [cards |-> {[card |-> c, facts |-> tables.card[c].facts] :
                   c \in {c \in Cards : tables.card[c] # None /\ tables.card[c].current}},
     names |-> {[card |-> n[1], name |-> n[2]] :
                   n \in {n \in NameKeys : tables.name[n] # None /\ tables.name[n].current}},
     printings |-> {[printing |-> p, card |-> tables.printing[p].card,
                     look |-> tables.printing[p].look] :
                       p \in {p \in Printings :
                                 tables.printing[p] # None /\ tables.printing[p].current}}]

Shown ==
    IF stored.revision = None THEN None
    ELSE [revision |-> stored.revision, members |-> View(stored)]

Promise == INSTANCE PublishedCatalog WITH published <- Shown

\* Readers see nothing or one snapshot, complete, and no version is published
\* twice in a row, whatever tasks overlap, fail, lose answers or expire.
PublishesWholeSnapshots == Promise!PublishedSpec

\* A card or printing once published stays resolvable, and a printing stays
\* with its card, which is stored too, across refreshes that remove or regroup
\* records.
HistoryResolvable ==
    [][/\ \A c \in Cards : stored.card[c] # None => stored'.card[c] # None
       /\ \A p \in Printings :
             stored.printing[p] # None =>
                 /\ stored'.printing[p] # None
                 /\ stored'.printing[p].card = stored.printing[p].card
                 /\ stored'.card[stored.printing[p].card] # None]_stored

\* Whole snapshots are published, over a history that is never taken back.
PublishesHistory == PublishesWholeSnapshots /\ HistoryResolvable

\* The revision a call returns is one that was published, of the version the
\* call was asked for, although it may be answered from what another task did.
ReturnsRequestedRevision ==
    \A t \in Tasks :
        task[t].at = "returned" =>
            /\ task[t].seen.id \in DOMAIN history
            /\ history[task[t].seen.id] = task[t].version
            /\ task[t].seen.version = task[t].version
=============================================================================
