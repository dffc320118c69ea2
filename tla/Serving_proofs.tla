------------------------------ MODULE Serving_proofs -----------------------------
(***************************************************************************)
(* What Catalog publishes, for any tasks, any snapshots and any sizes of a *)
(* batch: readers see nothing or one whole snapshot, a revision a call     *)
(* returns was published with the version it was asked for, and what was   *)
(* once published stays resolvable.                                        *)
(*                                                                         *)
(* The argument follows one transaction: its draft extends the committed   *)
(* tables and its candidate rows are those of the records written so far   *)
(* (Represents); what the task has read and not written is its batch       *)
(* (ReadSoFar). When the stream ends the two make the whole snapshot, and  *)
(* while the lock is held nobody else changes what is committed.           *)
(*                                                                         *)
(* What a consumer joins of several answers of Catalog is of one published *)
(* revision, for any readers, any page size and any tasks that publish     *)
(* between two answers: the pages of a printing list are the list of the   *)
(* revision the first was read from, and a lookup answers from the         *)
(* revision its printing was found in.                                     *)
(*                                                                         *)
(* What is committed is a whole snapshot at the last position of the       *)
(* history (CatalogInv), and a reader goes on only while that is the       *)
(* position it started from; what it read so far is then a prefix of a     *)
(* list nothing can change any more (ReaderInv).                           *)
(*                                                                         *)
(* What a browser is told of a request is what happened, for any requests  *)
(* and any identities: a path is of one route, which the table of routes   *)
(* decides form by form, and what either end knows of the other            *)
(* (TransportInv) lasts while an operation outruns its report.             *)
(***************************************************************************)
EXTENDS CatalogReads, RequestTransport, TLAPS, NaturalsInduction, WellFoundedInduction,
        FiniteSetTheorems, SequenceTheorems

--------
(* The inductive invariant.                                                *)

\* Position n holds the last of the first k records of a card, of a printing.
LastWithCard(records, k, c, n) ==
    n \in 1 .. k /\ records[n].card = c /\ \A j \in 1 .. k : records[j].card = c => j <= n
LastWithPrinting(records, k, p, n) ==
    n \in 1 .. k /\ records[n].printing = p /\ \A j \in 1 .. k : records[j].printing = p => j <= n

CardRow(record) == [facts |-> record.facts, current |-> TRUE, candidate |-> TRUE]
PrintingRow(record) ==
    [card |-> record.card, look |-> record.look, current |-> TRUE, candidate |-> TRUE]

\* The candidate rows are those the first k records of a snapshot declare.
CardsRepresent(tables, records, k) ==
    \A c \in Cards :
        IF \E n \in 1 .. k : records[n].card = c
        THEN \E n \in 1 .. k :
                LastWithCard(records, k, c, n) /\ tables.card[c] = CardRow(records[n])
        ELSE tables.card[c] # None => ~tables.card[c].candidate

NamesRepresent(tables, records, k) ==
    \A m \in NameKeys :
        IF \E n \in 1 .. k : records[n].card = m[1] /\ m[2] \in records[n].names
        THEN tables.name[m] = [current |-> TRUE, candidate |-> TRUE]
        ELSE tables.name[m] # None => ~tables.name[m].candidate

PrintingsRepresent(tables, records, k) ==
    \A p \in Printings :
        IF \E n \in 1 .. k : records[n].printing = p
        THEN \E n \in 1 .. k :
                LastWithPrinting(records, k, p, n) /\ tables.printing[p] = PrintingRow(records[n])
        ELSE tables.printing[p] # None => ~tables.printing[p].candidate

Represents(tables, records, k) ==
    /\ CardsRepresent(tables, records, k)
    /\ NamesRepresent(tables, records, k)
    /\ PrintingsRepresent(tables, records, k)

\* The positions of a stream that are written, and those of the batch.
Written(q) == q.next - 1 - Len(q.buffered)

BatchOf(batch, records, k) ==
    \A i \in 1 .. Len(batch) : k + i \in 1 .. Len(records) /\ batch[i] = records[k + i]

\* What a task holds of its stream: the batch, and each printing's card.
ReadSoFar(q) ==
    LET records == Snapshot[q.version]
    IN  /\ q.version \in Versions
        /\ q.next \in 1 .. Len(records) + 1
        /\ Written(q) \in Nat
        /\ BatchOf(q.buffered, records, Written(q))
        /\ \A n \in 1 .. q.next - 1 : q.known[records[n].printing] = records[n].card
        /\ \A p \in Printings :
              q.known[p] # None => \E n \in 1 .. q.next - 1 : records[n].printing = p

\* A printing's card is stored.
Linked(tables) ==
    \A p \in Printings :
        tables.printing[p] # None => tables.card[tables.printing[p].card] # None

\* Rows never vanish and a printing keeps its card.
Extends(old, new) ==
    /\ \A c \in Cards : old.card[c] # None => new.card[c] # None
    /\ \A p \in Printings :
          old.printing[p] # None =>
              new.printing[p] # None /\ new.printing[p].card = old.printing[p].card

WholeOf(tables, v) ==
    /\ v \in Versions
    /\ View(tables) = Promise!Declared(v)
    /\ Promise!Coherent(v)

\* A revision is a position of the history.
Positioned(revision, log) == revision.id \in 1 .. Len(log) /\ log[revision.id] = revision.version

LastRevision(log) ==
    IF log = <<>> THEN None ELSE [id |-> Len(log), version |-> log[Len(log)]]

RevisionsKnown ==
    /\ stored.revision = LastRevision(history)
    /\ \A t \in Tasks : task[t].seen # None => Positioned(task[t].seen, history)
    /\ \A t \in Tasks :
          task[t].at = "returned" => task[t].seen # None /\ task[t].seen.version = task[t].version

StoredWhole ==
    /\ Linked(stored)
    /\ stored.revision # None => WholeOf(stored, stored.revision.version)

\* A draft with a revision of its own may be committed as it is.
Publishable(new, old, log) ==
    /\ WholeOf(new, new.revision.version)
    /\ new.revision = [id |-> Len(log) + 1, version |-> new.revision.version]
    /\ ~AlreadyPublished(old.revision, new.revision.version)

Ingesting(q, new, old) ==
    /\ new.revision = old.revision
    /\ ~AlreadyPublished(old.revision, q.version)
    /\ ReadSoFar(q)
    /\ Represents(new, Snapshot[q.version], Written(q))

DraftSound ==
    holder # None =>
        /\ Linked(draft) /\ Extends(stored, draft)
        /\ Len(history) < MaxRevisions
        /\ draft.revision # stored.revision => Publishable(draft, stored, history)
        /\ task[holder].at = "ingest" => Ingesting(task[holder], draft, stored)
        /\ task[holder].at = "commit" =>
              /\ draft.revision # stored.revision
              /\ draft.revision.version = task[holder].version

\* Before its transaction a task has its version and nothing of the stream.
OpenedKnown ==
    \A t \in Tasks :
        task[t].at = "opened" =>
            /\ task[t].version \in Versions
            /\ task[t] = Outside("opened", task[t].version, task[t].seen)

CatalogInv ==
    /\ CatalogTypeOK
    /\ RevisionsKnown
    /\ StoredWhole
    /\ DraftSound
    /\ OpenedKnown

--------
(* What is read and what is written.                                       *)

\* A bounded, nonempty set of numbers has a greatest one, which Max returns.
LEMMA BoundedMax ==
    ASSUME NEW S \in SUBSET Nat, S # {}, NEW n \in Nat, \A x \in S : x <= n
    PROVE  /\ Max(S) \in S
           /\ \A x \in S : x <= Max(S)
<1> DEFINE Bounds == {m \in Nat : \A x \in S : x <= m}
<1>1. n \in Bounds
  OBVIOUS
<1>2. PICK least \in Bounds : \A m \in Bounds : least <= m
  <2> DEFINE Less == {ss \in Nat \X Nat : ss[1] < ss[2]}
  <2>1. IsWellFoundedOn(Less, Nat)
    BY NatLessThanWellFounded DEF OpToRel
  <2>2. Bounds \subseteq Nat /\ Bounds # {}
    BY <1>1
  <2> HIDE DEF Bounds, Less
  <2>3. \E x \in Bounds : \A m \in Bounds : ~ (<<m, x>> \in Less)
    BY <2>1, <2>2, WFMin
  <2>4. ASSUME NEW x \in Bounds, NEW m \in Bounds, <<m, x>> \notin Less
        PROVE  x <= m
    BY <2>2, <2>4 DEF Less
  <2> QED
    BY <2>3, <2>4
<1>3. least \in S
  <2> SUFFICES ASSUME least \notin S PROVE FALSE
    OBVIOUS
  <2>1. PICK x \in S : TRUE
    OBVIOUS
  <2>2. least # 0 /\ least - 1 \in Nat
    BY <2>1
  <2>3. least - 1 \in Bounds
    BY <2>2
  <2> QED
    BY <2>3, <1>2
<1>4. \E x \in S : \A y \in S : x >= y
  BY <1>2, <1>3
<1> QED
  BY <1>4 DEF Max

\* The last record of a batch for a card is one of its records.
LEMMA LastOfCardFacts ==
    ASSUME NEW batch \in Seq(Records), NEW c \in CardsOf(batch)
    PROVE  \E i \in 1 .. Len(batch) :
              /\ LastOfCard(batch, c) = batch[i] /\ batch[i].card = c
              /\ \A j \in 1 .. Len(batch) : batch[j].card = c => j <= i
<1> DEFINE S == {n \in DOMAIN batch : batch[n].card = c}
<1>1. DOMAIN batch = 1 .. Len(batch) /\ Len(batch) \in Nat
  OBVIOUS
<1>2. S \in SUBSET Nat /\ S # {} /\ \A x \in S : x <= Len(batch)
  BY <1>1 DEF CardsOf
<1>3. LastOfCard(batch, c) = batch[Max(S)]
  BY DEF LastOfCard
<1> HIDE DEF S
<1>4. Max(S) \in S /\ \A x \in S : x <= Max(S)
  BY <1>1, <1>2, BoundedMax
<1> QED
  BY <1>1, <1>3, <1>4 DEF S

LEMMA LastOfPrintingFacts ==
    ASSUME NEW batch \in Seq(Records), NEW p \in PrintingsOf(batch)
    PROVE  \E i \in 1 .. Len(batch) :
              /\ LastOfPrinting(batch, p) = batch[i] /\ batch[i].printing = p
              /\ \A j \in 1 .. Len(batch) : batch[j].printing = p => j <= i
<1> DEFINE S == {n \in DOMAIN batch : batch[n].printing = p}
<1>1. DOMAIN batch = 1 .. Len(batch) /\ Len(batch) \in Nat
  OBVIOUS
<1>2. S \in SUBSET Nat /\ S # {} /\ \A x \in S : x <= Len(batch)
  BY <1>1 DEF PrintingsOf
<1>3. LastOfPrinting(batch, p) = batch[Max(S)]
  BY DEF LastOfPrinting
<1> HIDE DEF S
<1>4. Max(S) \in S /\ \A x \in S : x <= Max(S)
  BY <1>1, <1>2, BoundedMax
<1> QED
  BY <1>1, <1>3, <1>4 DEF S

LEMMA RowTypes ==
    ASSUME NEW record \in Records
    PROVE  CardRow(record) \in CardRows /\ PrintingRow(record) \in PrintingRows
BY DEF CardRow, CardRows, PrintingRow, PrintingRows, Records

LEMMA NameRowType == [current |-> TRUE, candidate |-> TRUE] \in NameRows
BY DEF NameRows

\* What one field's exception does to a row.
LEMMA CardExcept ==
    ASSUME NEW f, NEW c, NEW d, NEW v
    PROVE  [[facts |-> f, current |-> c, candidate |-> d] EXCEPT !.candidate = v]
              = [facts |-> f, current |-> c, candidate |-> v]
OBVIOUS

LEMMA NameExcept ==
    ASSUME NEW c, NEW d, NEW v
    PROVE  [[current |-> c, candidate |-> d] EXCEPT !.candidate = v]
              = [current |-> c, candidate |-> v]
OBVIOUS

LEMMA PrintingExcept ==
    ASSUME NEW e, NEW f, NEW c, NEW d
    PROVE  Mark([card |-> e, look |-> f, current |-> c, candidate |-> d])
              = [card |-> e, look |-> f, current |-> c, candidate |-> TRUE]
<1>1. ASSUME NEW v
      PROVE  [[card |-> e, look |-> f, current |-> c, candidate |-> d] EXCEPT !.candidate = v]
                = [card |-> e, look |-> f, current |-> c, candidate |-> v]
  OBVIOUS
<1> QED
  BY <1>1, Zenon DEF Mark

\* A row that is written is the row of its record, marked.
LEMMA MarkedCard ==
    ASSUME NEW row \in CardRows \cup {None}, NEW record \in Records
    PROVE  Mark(WrittenCard(row, record.facts)) = CardRow(record)
<1> DEFINE written == [facts |-> record.facts, current |-> TRUE, candidate |-> TRUE]
<1>1. CASE row # None /\ row.current /\ row.facts = record.facts
  <2>1. WrittenCard(row, record.facts) = row
    BY <1>1 DEF WrittenCard
  <2>2. row = [facts |-> row.facts, current |-> row.current, candidate |-> row.candidate]
    BY <1>1 DEF CardRows
  <2>3. row.current = TRUE
    BY <1>1 DEF CardRows
  <2>4. Mark([facts |-> row.facts, current |-> row.current, candidate |-> row.candidate])
            = [facts |-> row.facts, current |-> row.current, candidate |-> TRUE]
    BY CardExcept, Zenon DEF Mark
  <2> QED
    BY <1>1, <2>1, <2>2, <2>3, <2>4 DEF CardRow
<1>2. CASE ~(row # None /\ row.current /\ row.facts = record.facts)
  <2>1. WrittenCard(row, record.facts) = written
    BY <1>2 DEF WrittenCard
  <2>2. Mark(written) = written
    BY CardExcept, Zenon DEF Mark
  <2> QED
    BY <2>1, <2>2 DEF CardRow
<1> QED
  BY <1>1, <1>2

LEMMA MarkedName ==
    ASSUME NEW row \in NameRows \cup {None}
    PROVE  Mark(WrittenName(row)) = [current |-> TRUE, candidate |-> TRUE]
<1> DEFINE written == [current |-> TRUE, candidate |-> TRUE]
<1>1. CASE row # None /\ row.current
  <2>1. WrittenName(row) = row
    BY <1>1 DEF WrittenName
  <2>2. row = [current |-> row.current, candidate |-> row.candidate]
    BY <1>1 DEF NameRows
  <2>3. row.current = TRUE
    BY <1>1 DEF NameRows
  <2>4. Mark([current |-> row.current, candidate |-> row.candidate])
            = [current |-> row.current, candidate |-> TRUE]
    BY NameExcept, Zenon DEF Mark
  <2> QED
    BY <2>1, <2>2, <2>3, <2>4
<1>2. CASE ~(row # None /\ row.current)
  <2>1. WrittenName(row) = written
    BY <1>2 DEF WrittenName
  <2>2. Mark(written) = written
    BY NameExcept, Zenon DEF Mark
  <2> QED
    BY <2>1, <2>2
<1> QED
  BY <1>1, <1>2

LEMMA MarkedPrinting ==
    ASSUME NEW row \in PrintingRows \cup {None}, NEW record \in Records
    PROVE  Mark(WrittenPrinting(row, record)) = PrintingRow(record)
<1> DEFINE same == row # None /\ row.current /\ row.card = record.card /\ row.look = record.look
           written == [card |-> record.card, look |-> record.look,
                       current |-> TRUE, candidate |-> TRUE]
<1>1. CASE same
  <2>1. WrittenPrinting(row, record) = row
    BY <1>1 DEF WrittenPrinting
  <2>2. row = [card |-> row.card, look |-> row.look, current |-> row.current,
               candidate |-> row.candidate]
    BY <1>1 DEF PrintingRows
  <2>3. row.current = TRUE
    BY <1>1 DEF PrintingRows
  <2>4. Mark([card |-> row.card, look |-> row.look, current |-> row.current,
              candidate |-> row.candidate])
            = [card |-> row.card, look |-> row.look, current |-> row.current,
               candidate |-> TRUE]
    BY PrintingExcept, Zenon
  <2> QED
    BY <1>1, <2>1, <2>2, <2>3, <2>4 DEF PrintingRow
<1>2. CASE ~same
  <2>1. WrittenPrinting(row, record) = written
    BY <1>2 DEF WrittenPrinting
  <2>2. Mark(written) = written
    BY PrintingExcept, Zenon
  <2> QED
    BY <2>1, <2>2 DEF PrintingRow
<1> QED
  BY <1>1, <1>2

\* The tables whose rows are replaced keep their revision.
LEMMA RowsExcept ==
    ASSUME NEW tables \in Tables, NEW x, NEW y, NEW z
    PROVE  [tables EXCEPT !.card = x, !.name = y, !.printing = z]
              = [card |-> x, name |-> y, printing |-> z, revision |-> tables.revision]
<1> DEFINE rows(e, f, g) ==
              [card |-> e, name |-> f, printing |-> g, revision |-> tables.revision]
<1>1. tables = rows(tables.card, tables.name, tables.printing)
  BY DEF Tables
<1>2. [tables EXCEPT !.card = x, !.name = y, !.printing = z]
         = [[[tables EXCEPT !.card = x] EXCEPT !.name = y] EXCEPT !.printing = z]
  OBVIOUS
<1>3. ASSUME NEW e, NEW f, NEW g
      PROVE  /\ [rows(e, f, g) EXCEPT !.card = x] = rows(x, f, g)
             /\ [rows(x, f, g) EXCEPT !.name = y] = rows(x, y, g)
             /\ [rows(x, y, g) EXCEPT !.printing = z] = rows(x, y, z)
  OBVIOUS
<1> HIDE DEF rows
<1>4. [tables EXCEPT !.card = x] = rows(x, tables.name, tables.printing)
  BY <1>1, <1>3
<1>5. [rows(x, tables.name, tables.printing) EXCEPT !.name = y] = rows(x, y, tables.printing)
  BY <1>3
<1>6. [rows(x, y, tables.printing) EXCEPT !.printing = z] = rows(x, y, z)
  BY <1>3
<1>7. [tables EXCEPT !.card = x, !.name = y, !.printing = z] = rows(x, y, z)
  BY <1>2, <1>4, <1>5, <1>6
<1> QED
  BY <1>7 DEF rows

\* A batch is written into the tables row by row, and nothing else changes.
LEMMA FlushedRows ==
    ASSUME NEW tables \in Tables, NEW batch \in Seq(Records)
    PROVE  /\ Flushed(tables, batch).revision = tables.revision
           /\ \A c \in Cards :
                 Flushed(tables, batch).card[c] =
                     IF c \notin CardsOf(batch) THEN tables.card[c]
                     ELSE CardRow(LastOfCard(batch, c))
           /\ \A m \in NameKeys :
                 Flushed(tables, batch).name[m] =
                     IF m \notin NamesOf(batch) THEN tables.name[m]
                     ELSE [current |-> TRUE, candidate |-> TRUE]
           /\ \A p \in Printings :
                 Flushed(tables, batch).printing[p] =
                     IF p \notin PrintingsOf(batch) THEN tables.printing[p]
                     ELSE PrintingRow(LastOfPrinting(batch, p))
<1>1. Flushed(tables, batch) =
          [card |-> [c \in Cards |->
              IF c \notin CardsOf(batch) THEN tables.card[c]
              ELSE Mark(WrittenCard(tables.card[c], LastOfCard(batch, c).facts))],
           name |-> [n \in NameKeys |->
              IF n \notin NamesOf(batch) THEN tables.name[n]
              ELSE Mark(WrittenName(tables.name[n]))],
           printing |-> [p \in Printings |->
              IF p \notin PrintingsOf(batch) THEN tables.printing[p]
              ELSE Mark(WrittenPrinting(tables.printing[p], LastOfPrinting(batch, p)))],
           revision |-> tables.revision]
  BY RowsExcept, Zenon DEF Flushed
<1>2. ASSUME NEW c \in CardsOf(batch)
      PROVE  LastOfCard(batch, c) \in Records
  BY LastOfCardFacts
<1>3. ASSUME NEW p \in PrintingsOf(batch)
      PROVE  LastOfPrinting(batch, p) \in Records
  BY LastOfPrintingFacts
<1>4. ASSUME NEW c \in Cards
      PROVE  Flushed(tables, batch).card[c] =
                 IF c \notin CardsOf(batch) THEN tables.card[c]
                 ELSE CardRow(LastOfCard(batch, c))
  <2>1. tables.card[c] \in CardRows \cup {None}
    BY DEF Tables
  <2> QED
    BY <1>1, <1>2, <2>1, MarkedCard
<1>5. ASSUME NEW m \in NameKeys
      PROVE  Flushed(tables, batch).name[m] =
                 IF m \notin NamesOf(batch) THEN tables.name[m]
                 ELSE [current |-> TRUE, candidate |-> TRUE]
  <2>1. tables.name[m] \in NameRows \cup {None}
    BY DEF Tables
  <2>2. Mark(WrittenName(tables.name[m])) = [current |-> TRUE, candidate |-> TRUE]
    BY <2>1, MarkedName
  <2> QED
    BY <1>1, <2>2
<1>6. ASSUME NEW p \in Printings
      PROVE  Flushed(tables, batch).printing[p] =
                 IF p \notin PrintingsOf(batch) THEN tables.printing[p]
                 ELSE PrintingRow(LastOfPrinting(batch, p))
  <2>1. tables.printing[p] \in PrintingRows \cup {None}
    BY DEF Tables
  <2> QED
    BY <1>1, <1>3, <2>1, MarkedPrinting
<1> QED
  BY <1>1, <1>4, <1>5, <1>6

LEMMA FlushedType ==
    ASSUME NEW tables \in Tables, NEW batch \in Seq(Records)
    PROVE  Flushed(tables, batch) \in Tables
<1> DEFINE cards == [c \in Cards |->
              IF c \notin CardsOf(batch) THEN tables.card[c]
              ELSE Mark(WrittenCard(tables.card[c], LastOfCard(batch, c).facts))]
           names == [n \in NameKeys |->
              IF n \notin NamesOf(batch) THEN tables.name[n]
              ELSE Mark(WrittenName(tables.name[n]))]
           printings == [p \in Printings |->
              IF p \notin PrintingsOf(batch) THEN tables.printing[p]
              ELSE Mark(WrittenPrinting(tables.printing[p], LastOfPrinting(batch, p)))]
<1>1. Flushed(tables, batch) =
          [card |-> cards, name |-> names, printing |-> printings, revision |-> tables.revision]
  BY RowsExcept, Zenon DEF Flushed
<1>2. cards \in [Cards -> CardRows \cup {None}]
  <2> SUFFICES ASSUME NEW c \in Cards PROVE cards[c] \in CardRows \cup {None}
    BY Zenon
  <2>1. tables.card[c] \in CardRows \cup {None}
    BY DEF Tables
  <2>2. CASE c \in CardsOf(batch)
    <3>1. LastOfCard(batch, c) \in Records
      BY <2>2, LastOfCardFacts
    <3>2. cards[c] = CardRow(LastOfCard(batch, c))
      BY <2>1, <2>2, <3>1, MarkedCard
    <3> QED
      BY <3>1, <3>2, RowTypes, Zenon
  <2> QED
    BY <2>1, <2>2
<1>3. names \in [NameKeys -> NameRows \cup {None}]
  <2> SUFFICES ASSUME NEW m \in NameKeys PROVE names[m] \in NameRows \cup {None}
    BY Zenon
  <2>1. tables.name[m] \in NameRows \cup {None}
    BY DEF Tables
  <2>2. Mark(WrittenName(tables.name[m])) \in NameRows
    BY <2>1, MarkedName, NameRowType, Zenon
  <2> QED
    BY <2>1, <2>2
<1>4. printings \in [Printings -> PrintingRows \cup {None}]
  <2> SUFFICES ASSUME NEW p \in Printings PROVE printings[p] \in PrintingRows \cup {None}
    BY Zenon
  <2>1. tables.printing[p] \in PrintingRows \cup {None}
    BY DEF Tables
  <2>2. CASE p \in PrintingsOf(batch)
    <3>1. LastOfPrinting(batch, p) \in Records
      BY <2>2, LastOfPrintingFacts
    <3>2. printings[p] = PrintingRow(LastOfPrinting(batch, p))
      BY <2>1, <2>2, <3>1, MarkedPrinting
    <3> QED
      BY <3>1, <3>2, RowTypes, Zenon
  <2> QED
    BY <2>1, <2>2
<1> HIDE DEF cards, names, printings
<1> QED
  BY <1>1, <1>2, <1>3, <1>4 DEF Tables

\* The printings of a batch are stored with a card of the batch.
LEMMA FlushedLinked ==
    ASSUME NEW tables \in Tables, NEW batch \in Seq(Records),
           Linked(tables), ~RelationshipConflict(tables, batch)
    PROVE  /\ Linked(Flushed(tables, batch))
           /\ Extends(tables, Flushed(tables, batch))
<1> DEFINE new == Flushed(tables, batch)
<1>1. ASSUME NEW c \in Cards
      PROVE  new.card[c] = IF c \notin CardsOf(batch) THEN tables.card[c]
                           ELSE CardRow(LastOfCard(batch, c))
  BY FlushedRows
<1>2. ASSUME NEW p \in Printings
      PROVE  new.printing[p] = IF p \notin PrintingsOf(batch) THEN tables.printing[p]
                               ELSE PrintingRow(LastOfPrinting(batch, p))
  BY FlushedRows
<1> HIDE DEF new
<1>3. ASSUME NEW c \in CardsOf(batch)
      PROVE  CardRow(LastOfCard(batch, c)) # None
  <2>1. LastOfCard(batch, c) \in Records
    BY LastOfCardFacts
  <2>2. CardRow(LastOfCard(batch, c)) \in CardRows
    BY <2>1, RowTypes
  <2> QED
    BY <2>2, NoneAssumption
<1>4. ASSUME NEW p \in PrintingsOf(batch)
      PROVE  /\ PrintingRow(LastOfPrinting(batch, p)) # None
             /\ PrintingRow(LastOfPrinting(batch, p)).card = LastOfPrinting(batch, p).card
             /\ LastOfPrinting(batch, p).card \in CardsOf(batch) \cap Cards
  <2>1. PICK i \in 1 .. Len(batch) : LastOfPrinting(batch, p) = batch[i]
    BY LastOfPrintingFacts
  <2>2. batch[i] \in Records /\ i \in DOMAIN batch
    OBVIOUS
  <2>3. PrintingRow(batch[i]) \in PrintingRows
    BY <2>2, RowTypes
  <2>4. batch[i].card \in CardsOf(batch) \cap Cards
    BY <2>2 DEF CardsOf, Records
  <2> QED
    BY <2>1, <2>3, <2>4, NoneAssumption DEF PrintingRow
<1>5. ASSUME NEW c \in Cards, tables.card[c] # None
      PROVE  new.card[c] # None
  BY <1>1, <1>3, <1>5
<1>6. ASSUME NEW p \in Printings, tables.printing[p] # None
      PROVE  new.printing[p] # None /\ new.printing[p].card = tables.printing[p].card
  <2>1. CASE p \in PrintingsOf(batch)
    <3>1. tables.printing[p].card = LastOfPrinting(batch, p).card
      BY <2>1, <1>6 DEF RelationshipConflict
    <3> QED
      BY <2>1, <3>1, <1>2, <1>4
  <2> QED
    BY <2>1, <1>2, <1>6
<1>7. ASSUME NEW p \in Printings, new.printing[p] # None
      PROVE  new.card[new.printing[p].card] # None
  <2>1. CASE p \in PrintingsOf(batch)
    BY <2>1, <1>1, <1>2, <1>3, <1>4
  <2>2. CASE p \notin PrintingsOf(batch)
    <3>1. new.printing[p] = tables.printing[p] /\ tables.printing[p] # None
      BY <2>2, <1>2, <1>7
    <3>2. tables.printing[p] \in PrintingRows
      BY <3>1 DEF Tables
    <3>3. tables.printing[p].card \in Cards
      BY <3>2 DEF PrintingRows
    <3> QED
      BY <3>1, <3>3, <1>5 DEF Linked
  <2> QED
    BY <2>1, <2>2
<1> QED
  BY <1>5, <1>6, <1>7 DEF Linked, Extends, new

\* After a batch the candidate rows are those of the records read so far.
LEMMA FlushedRepresents ==
    ASSUME NEW tables \in Tables, NEW records \in Seq(Records), NEW batch \in Seq(Records),
           NEW k \in Nat, BatchOf(batch, records, k), Represents(tables, records, k)
    PROVE  Represents(Flushed(tables, batch), records, k + Len(batch))
<1> DEFINE new == Flushed(tables, batch)
           m == k + Len(batch)
<1>0. /\ m \in Nat /\ Len(batch) \in Nat
      /\ \A n \in 1 .. k : n \in 1 .. m
      /\ \A i \in 1 .. Len(batch) : k + i \in 1 .. m /\ records[k + i] = batch[i]
      /\ \A n \in 1 .. m : n \notin 1 .. k => n - k \in 1 .. Len(batch) /\ records[n] = batch[n - k]
  <2>1. \A n \in 1 .. m : n \notin 1 .. k => n - k \in 1 .. Len(batch) /\ k + (n - k) = n
    OBVIOUS
  <2> QED
    BY <2>1 DEF BatchOf
<1>1. ASSUME NEW n \in 1 .. m, NEW i \in 1 .. Len(batch), n \in 1 .. k
      PROVE  n <= k + i
  BY <1>1
<1>2. ASSUME NEW n \in 1 .. m, NEW i \in 1 .. Len(batch), n - k <= i
      PROVE  n <= k + i
  BY <1>2
<1>3. DOMAIN batch = 1 .. Len(batch)
  OBVIOUS
<1> HIDE DEF m
<1>4. ASSUME NEW c \in Cards
      PROVE  IF \E n \in 1 .. m : records[n].card = c
             THEN \E n \in 1 .. m :
                     LastWithCard(records, m, c, n) /\ new.card[c] = CardRow(records[n])
             ELSE new.card[c] # None => ~new.card[c].candidate
  <2>1. CASE c \in CardsOf(batch)
    <3>1. PICK i \in 1 .. Len(batch) :
             /\ LastOfCard(batch, c) = batch[i] /\ batch[i].card = c
             /\ \A j \in 1 .. Len(batch) : batch[j].card = c => j <= i
      BY <2>1, LastOfCardFacts
    <3>2. k + i \in 1 .. m /\ records[k + i] = batch[i]
      BY <1>0
    <3>3. \A j \in 1 .. m : records[j].card = c => j <= k + i
      BY <3>1, <1>0, <1>1, <1>2
    <3>4. new.card[c] = CardRow(batch[i])
      BY <2>1, <3>1, FlushedRows
    <3> QED
      BY <3>1, <3>2, <3>3, <3>4 DEF LastWithCard
  <2>2. CASE c \notin CardsOf(batch)
    <3>1. new.card[c] = tables.card[c]
      BY <2>2, FlushedRows
    <3>2. \A n \in 1 .. m : records[n].card = c => n \in 1 .. k
      BY <2>2, <1>0, <1>3 DEF CardsOf
    <3> HIDE DEF new
    <3>3. CASE \E n \in 1 .. k : records[n].card = c
      <4>1. PICK n \in 1 .. k :
               LastWithCard(records, k, c, n) /\ tables.card[c] = CardRow(records[n])
        BY <3>3 DEF Represents, CardsRepresent
      <4> QED
        BY <4>1, <3>1, <3>2, <1>0 DEF LastWithCard
    <3>4. CASE ~\E n \in 1 .. k : records[n].card = c
      <4>1. tables.card[c] # None => ~tables.card[c].candidate
        BY <3>4 DEF Represents, CardsRepresent
      <4> QED
        BY <4>1, <3>1, <3>2, <3>4
    <3> QED
      BY <3>3, <3>4
  <2> QED
    BY <2>1, <2>2
<1>5. ASSUME NEW p \in Printings
      PROVE  IF \E n \in 1 .. m : records[n].printing = p
             THEN \E n \in 1 .. m :
                     /\ LastWithPrinting(records, m, p, n)
                     /\ new.printing[p] = PrintingRow(records[n])
             ELSE new.printing[p] # None => ~new.printing[p].candidate
  <2>1. CASE p \in PrintingsOf(batch)
    <3>1. PICK i \in 1 .. Len(batch) :
             /\ LastOfPrinting(batch, p) = batch[i] /\ batch[i].printing = p
             /\ \A j \in 1 .. Len(batch) : batch[j].printing = p => j <= i
      BY <2>1, LastOfPrintingFacts
    <3>2. k + i \in 1 .. m /\ records[k + i] = batch[i]
      BY <1>0
    <3>3. \A j \in 1 .. m : records[j].printing = p => j <= k + i
      BY <3>1, <1>0, <1>1, <1>2
    <3>4. new.printing[p] = PrintingRow(batch[i])
      BY <2>1, <3>1, FlushedRows
    <3> QED
      BY <3>1, <3>2, <3>3, <3>4 DEF LastWithPrinting
  <2>2. CASE p \notin PrintingsOf(batch)
    <3>1. new.printing[p] = tables.printing[p]
      BY <2>2, FlushedRows
    <3>2. \A n \in 1 .. m : records[n].printing = p => n \in 1 .. k
      BY <2>2, <1>0, <1>3 DEF PrintingsOf
    <3> HIDE DEF new
    <3>3. CASE \E n \in 1 .. k : records[n].printing = p
      <4>1. PICK n \in 1 .. k :
               /\ LastWithPrinting(records, k, p, n)
               /\ tables.printing[p] = PrintingRow(records[n])
        BY <3>3 DEF Represents, PrintingsRepresent
      <4> QED
        BY <4>1, <3>1, <3>2, <1>0 DEF LastWithPrinting
    <3>4. CASE ~\E n \in 1 .. k : records[n].printing = p
      <4>1. tables.printing[p] # None => ~tables.printing[p].candidate
        BY <3>4 DEF Represents, PrintingsRepresent
      <4> QED
        BY <4>1, <3>1, <3>2, <3>4
    <3> QED
      BY <3>3, <3>4
  <2> QED
    BY <2>1, <2>2
<1>6. ASSUME NEW a \in NameKeys
      PROVE  IF \E n \in 1 .. m : records[n].card = a[1] /\ a[2] \in records[n].names
             THEN new.name[a] = [current |-> TRUE, candidate |-> TRUE]
             ELSE new.name[a] # None => ~new.name[a].candidate
  <2>0. a \in NamesOf(batch) <=>
            \E i \in 1 .. Len(batch) : batch[i].card = a[1] /\ a[2] \in batch[i].names
    <3>1. a = <<a[1], a[2]>>
      BY DEF NameKeys
    <3> QED
      BY <3>1, <1>3 DEF NamesOf
  <2>1. new.name[a] = IF a \notin NamesOf(batch) THEN tables.name[a]
                      ELSE [current |-> TRUE, candidate |-> TRUE]
    BY FlushedRows
  <2> HIDE DEF new
  <2> DEFINE in(j) == \E n \in 1 .. j : records[n].card = a[1] /\ a[2] \in records[n].names
  <2>2. in(m) <=> in(k) \/ a \in NamesOf(batch)
    <3>1. ASSUME NEW n \in 1 .. m, records[n].card = a[1], a[2] \in records[n].names
          PROVE  in(k) \/ a \in NamesOf(batch)
      <4>1. CASE n \in 1 .. k
        BY <3>1, <4>1
      <4>2. CASE n \notin 1 .. k
        <5>1. n - k \in 1 .. Len(batch) /\ records[n] = batch[n - k]
          BY <4>2, <1>0
        <5> QED
          BY <3>1, <5>1, <2>0
      <4> QED
        BY <4>1, <4>2
    <3>2. in(k) => in(m)
      BY <1>0
    <3>3. a \in NamesOf(batch) => in(m)
      BY <1>0, <2>0
    <3> QED
      BY <3>1, <3>2, <3>3
  <2>3. IF in(k) THEN tables.name[a] = [current |-> TRUE, candidate |-> TRUE]
        ELSE tables.name[a] # None => ~tables.name[a].candidate
    BY DEF Represents, NamesRepresent
  <2> HIDE DEF in
  <2>4. IF in(m) THEN new.name[a] = [current |-> TRUE, candidate |-> TRUE]
        ELSE new.name[a] # None => ~new.name[a].candidate
    BY <2>1, <2>2, <2>3, Zenon
  <2> QED
    BY <2>4 DEF in
<1> QED
  BY <1>4, <1>5, <1>6
     DEF Represents, CardsRepresent, NamesRepresent, PrintingsRepresent, new, m

--------
(* Beginning and finishing a candidate.                                    *)

\* A finished row shows what it was a candidate of; a reset one is none.
Finish1(row) == [row EXCEPT !.current = row.candidate]
Reset1(row) == [row EXCEPT !.candidate = FALSE]

LEMMA CardRowChanges ==
    ASSUME NEW row \in CardRows
    PROVE  /\ Finish1(row) \in CardRows /\ Finish1(row).facts = row.facts
           /\ Finish1(row).current <=> row.candidate
           /\ Reset1(row) \in CardRows /\ ~Reset1(row).candidate
<1>1. /\ row.facts \in Facts /\ row.current \in BOOLEAN /\ row.candidate \in BOOLEAN
      /\ row = [facts |-> row.facts, current |-> row.current, candidate |-> row.candidate]
  BY DEF CardRows
<1>2. ASSUME NEW v \in BOOLEAN
      PROVE  /\ [row EXCEPT !.current = v] \in CardRows
             /\ [row EXCEPT !.current = v].facts = row.facts
             /\ [row EXCEPT !.current = v].current = v
             /\ [row EXCEPT !.candidate = v] \in CardRows
             /\ [row EXCEPT !.candidate = v].candidate = v
  <2>1. [row EXCEPT !.current = v] = [facts |-> row.facts, current |-> v, candidate |-> row.candidate]
    BY <1>1
  <2>2. [row EXCEPT !.candidate = v] = [facts |-> row.facts, current |-> row.current, candidate |-> v]
    BY <1>1
  <2> QED
    BY <1>1, <2>1, <2>2 DEF CardRows
<1> QED
  BY <1>1, <1>2, Zenon DEF Finish1, Reset1

LEMMA NameRowChanges ==
    ASSUME NEW row \in NameRows
    PROVE  /\ Finish1(row) \in NameRows
           /\ Finish1(row).current <=> row.candidate
           /\ Reset1(row) \in NameRows /\ ~Reset1(row).candidate
<1>1. /\ row.current \in BOOLEAN /\ row.candidate \in BOOLEAN
      /\ row = [current |-> row.current, candidate |-> row.candidate]
  BY DEF NameRows
<1>2. ASSUME NEW v \in BOOLEAN
      PROVE  /\ [row EXCEPT !.current = v] \in NameRows
             /\ [row EXCEPT !.current = v].current = v
             /\ [row EXCEPT !.candidate = v] \in NameRows
             /\ [row EXCEPT !.candidate = v].candidate = v
  <2>1. [row EXCEPT !.current = v] = [current |-> v, candidate |-> row.candidate]
    BY <1>1
  <2>2. [row EXCEPT !.candidate = v] = [current |-> row.current, candidate |-> v]
    BY <1>1
  <2> QED
    BY <1>1, <2>1, <2>2 DEF NameRows
<1> QED
  BY <1>1, <1>2, Zenon DEF Finish1, Reset1

LEMMA PrintingRowChanges ==
    ASSUME NEW row \in PrintingRows
    PROVE  /\ Finish1(row) \in PrintingRows /\ Finish1(row).card = row.card
           /\ Finish1(row).look = row.look
           /\ Finish1(row).current <=> row.candidate
           /\ Reset1(row) \in PrintingRows /\ Reset1(row).card = row.card
           /\ ~Reset1(row).candidate
<1>1. /\ row.card \in Cards /\ row.look \in Looks
      /\ row.current \in BOOLEAN /\ row.candidate \in BOOLEAN
      /\ row = [card |-> row.card, look |-> row.look, current |-> row.current,
                candidate |-> row.candidate]
  BY DEF PrintingRows
<1>2. ASSUME NEW v \in BOOLEAN
      PROVE  /\ [row EXCEPT !.current = v] \in PrintingRows
             /\ [row EXCEPT !.current = v].card = row.card
             /\ [row EXCEPT !.current = v].look = row.look
             /\ [row EXCEPT !.current = v].current = v
             /\ [row EXCEPT !.candidate = v] \in PrintingRows
             /\ [row EXCEPT !.candidate = v].card = row.card
             /\ [row EXCEPT !.candidate = v].candidate = v
  <2>1. [row EXCEPT !.current = v] =
            [card |-> row.card, look |-> row.look, current |-> v, candidate |-> row.candidate]
    BY <1>1
  <2>2. [row EXCEPT !.candidate = v] =
            [card |-> row.card, look |-> row.look, current |-> row.current, candidate |-> v]
    BY <1>1
  <2> QED
    BY <1>1, <2>1, <2>2 DEF PrintingRows
<1> QED
  BY <1>1, <1>2, Zenon DEF Finish1, Reset1

LEMMA FinishedRows ==
    ASSUME NEW tables \in Tables
    PROVE  /\ Finished(tables).revision = tables.revision
           /\ Finished(tables).card = [c \in Cards |->
                 IF tables.card[c] = None THEN None ELSE Finish1(tables.card[c])]
           /\ Finished(tables).name = [n \in NameKeys |->
                 IF tables.name[n] = None THEN None ELSE Finish1(tables.name[n])]
           /\ Finished(tables).printing = [p \in Printings |->
                 IF tables.printing[p] = None THEN None ELSE Finish1(tables.printing[p])]
           /\ Finished(tables) \in Tables
<1> DEFINE cards == [c \in Cards |->
              IF tables.card[c] = None THEN None ELSE Finish1(tables.card[c])]
           names == [n \in NameKeys |->
              IF tables.name[n] = None THEN None ELSE Finish1(tables.name[n])]
           printings == [p \in Printings |->
              IF tables.printing[p] = None THEN None ELSE Finish1(tables.printing[p])]
<1>1. Finished(tables) =
          [card |-> cards, name |-> names, printing |-> printings, revision |-> tables.revision]
  BY RowsExcept, Zenon DEF Finished, EachRow, Finish1
<1>2. cards \in [Cards -> CardRows \cup {None}]
  <2> SUFFICES ASSUME NEW c \in Cards PROVE cards[c] \in CardRows \cup {None}
    BY Zenon
  <2>1. tables.card[c] \in CardRows \cup {None}
    BY DEF Tables
  <2> QED
    BY <2>1, CardRowChanges
<1>3. names \in [NameKeys -> NameRows \cup {None}]
  <2> SUFFICES ASSUME NEW m \in NameKeys PROVE names[m] \in NameRows \cup {None}
    BY Zenon
  <2>1. tables.name[m] \in NameRows \cup {None}
    BY DEF Tables
  <2> QED
    BY <2>1, NameRowChanges
<1>4. printings \in [Printings -> PrintingRows \cup {None}]
  <2> SUFFICES ASSUME NEW p \in Printings PROVE printings[p] \in PrintingRows \cup {None}
    BY Zenon
  <2>1. tables.printing[p] \in PrintingRows \cup {None}
    BY DEF Tables
  <2> QED
    BY <2>1, PrintingRowChanges
<1> HIDE DEF cards, names, printings
<1>5. Finished(tables) \in Tables
  BY <1>1, <1>2, <1>3, <1>4 DEF Tables
<1> QED
  BY <1>1, <1>5 DEF cards, names, printings

\* The same, row by row.
LEMMA FinishedRow ==
    ASSUME NEW tables \in Tables
    PROVE  /\ \A c \in Cards : Finished(tables).card[c] =
                 IF tables.card[c] = None THEN None ELSE Finish1(tables.card[c])
           /\ \A n \in NameKeys : Finished(tables).name[n] =
                 IF tables.name[n] = None THEN None ELSE Finish1(tables.name[n])
           /\ \A p \in Printings : Finished(tables).printing[p] =
                 IF tables.printing[p] = None THEN None ELSE Finish1(tables.printing[p])
<1>1. ASSUME NEW c \in Cards
      PROVE  Finished(tables).card[c] =
                 IF tables.card[c] = None THEN None ELSE Finish1(tables.card[c])
  BY FinishedRows, ZenonT(60)
<1>2. ASSUME NEW n \in NameKeys
      PROVE  Finished(tables).name[n] =
                 IF tables.name[n] = None THEN None ELSE Finish1(tables.name[n])
  BY FinishedRows
<1>3. ASSUME NEW p \in Printings
      PROVE  Finished(tables).printing[p] =
                 IF tables.printing[p] = None THEN None ELSE Finish1(tables.printing[p])
  BY FinishedRows
<1> QED
  BY <1>1, <1>2, <1>3

LEMMA ResetRows ==
    ASSUME NEW tables \in Tables
    PROVE  /\ Reset(tables).revision = tables.revision
           /\ Reset(tables).card = [c \in Cards |->
                 IF tables.card[c] = None THEN None ELSE Reset1(tables.card[c])]
           /\ Reset(tables).name = [n \in NameKeys |->
                 IF tables.name[n] = None THEN None ELSE Reset1(tables.name[n])]
           /\ Reset(tables).printing = [p \in Printings |->
                 IF tables.printing[p] = None THEN None ELSE Reset1(tables.printing[p])]
           /\ Reset(tables) \in Tables
<1> DEFINE cards == [c \in Cards |->
              IF tables.card[c] = None THEN None ELSE Reset1(tables.card[c])]
           names == [n \in NameKeys |->
              IF tables.name[n] = None THEN None ELSE Reset1(tables.name[n])]
           printings == [p \in Printings |->
              IF tables.printing[p] = None THEN None ELSE Reset1(tables.printing[p])]
<1>1. Reset(tables) =
          [card |-> cards, name |-> names, printing |-> printings, revision |-> tables.revision]
  BY RowsExcept, Zenon DEF Reset, EachRow, Reset1
<1>2. cards \in [Cards -> CardRows \cup {None}]
  <2> SUFFICES ASSUME NEW c \in Cards PROVE cards[c] \in CardRows \cup {None}
    BY Zenon
  <2>1. tables.card[c] \in CardRows \cup {None}
    BY DEF Tables
  <2> QED
    BY <2>1, CardRowChanges
<1>3. names \in [NameKeys -> NameRows \cup {None}]
  <2> SUFFICES ASSUME NEW m \in NameKeys PROVE names[m] \in NameRows \cup {None}
    BY Zenon
  <2>1. tables.name[m] \in NameRows \cup {None}
    BY DEF Tables
  <2> QED
    BY <2>1, NameRowChanges
<1>4. printings \in [Printings -> PrintingRows \cup {None}]
  <2> SUFFICES ASSUME NEW p \in Printings PROVE printings[p] \in PrintingRows \cup {None}
    BY Zenon
  <2>1. tables.printing[p] \in PrintingRows \cup {None}
    BY DEF Tables
  <2> QED
    BY <2>1, PrintingRowChanges
<1> HIDE DEF cards, names, printings
<1>5. Reset(tables) \in Tables
  BY <1>1, <1>2, <1>3, <1>4 DEF Tables
<1> QED
  BY <1>1, <1>5 DEF cards, names, printings

\* What a snapshot declares, position by position.
LEMMA DeclaredMembers ==
    ASSUME NEW v \in Versions
    PROVE  LET records == Snapshot[v]
               cardAt(c) == CHOOSE n \in {n \in DOMAIN records : records[n].card = c
                                /\ \A k \in DOMAIN records : records[k].card = c => k <= n} : TRUE
               printingAt(p) == CHOOSE n \in {n \in DOMAIN records : records[n].printing = p
                                /\ \A k \in DOMAIN records : records[k].printing = p => k <= n} : TRUE
           IN  Promise!Declared(v) =
                 [cards |-> {[card |-> c, facts |-> records[cardAt(c)].facts] :
                                c \in {records[n].card : n \in DOMAIN records}},
                  names |-> UNION {{[card |-> records[n].card, name |-> a] : a \in records[n].names} :
                                      n \in DOMAIN records},
                  printings |-> {[printing |-> p, card |-> records[printingAt(p)].card,
                                  look |-> records[printingAt(p)].look] :
                                    p \in {records[n].printing : n \in DOMAIN records}}]
BY Zenon DEF Promise!Declared

\* A finished candidate that represents a whole snapshot shows its members.
LEMMA FinishedShowsAll ==
    ASSUME NEW tables \in Tables, NEW v \in Versions,
           Represents(tables, Snapshot[v], Len(Snapshot[v]))
    PROVE  View(Finished(tables)) = Promise!Declared(v)
<1> DEFINE records == Snapshot[v]
           all == Finished(tables)
           lastOf(c) == {n \in DOMAIN records : records[n].card = c
                            /\ \A k \in DOMAIN records : records[k].card = c => k <= n}
           lastOfP(p) == {n \in DOMAIN records : records[n].printing = p
                            /\ \A k \in DOMAIN records : records[k].printing = p => k <= n}
           cardAt(c) == CHOOSE n \in lastOf(c) : TRUE
           printingAt(p) == CHOOSE n \in lastOfP(p) : TRUE
           shownC == {c \in Cards : all.card[c] # None /\ all.card[c].current}
           shownN == {n \in NameKeys : all.name[n] # None /\ all.name[n].current}
           shownP == {p \in Printings : all.printing[p] # None /\ all.printing[p].current}
           namesDeclared ==
               UNION {{[card |-> records[n].card, name |-> a] : a \in records[n].names} :
                         n \in DOMAIN records}
<1>1. Promise!Declared(v) =
          [cards |-> {[card |-> c, facts |-> records[cardAt(c)].facts] :
                         c \in {records[n].card : n \in DOMAIN records}},
           names |-> namesDeclared,
           printings |-> {[printing |-> p, card |-> records[printingAt(p)].card,
                           look |-> records[printingAt(p)].look] :
                             p \in {records[n].printing : n \in DOMAIN records}}]
  BY DeclaredMembers
<1>2. View(all) =
          [cards |-> {[card |-> c, facts |-> all.card[c].facts] : c \in shownC},
           names |-> {[card |-> n[1], name |-> n[2]] : n \in shownN},
           printings |-> {[printing |-> p, card |-> all.printing[p].card,
                           look |-> all.printing[p].look] : p \in shownP}]
  BY DEF View
<1>3. /\ records \in Seq(Records) /\ Len(records) \in Nat
      /\ DOMAIN records = 1 .. Len(records)
      /\ \A n \in DOMAIN records : /\ records[n] \in Records
                                   /\ records[n].card \in Cards
                                   /\ records[n].printing \in Printings
                                   /\ records[n].names \subseteq Names
  <2>1. records \in Seq(Records)
    BY CatalogAssumption
  <2> HIDE DEF records
  <2> QED
    <3>1. \A n \in DOMAIN records : records[n] \in Records
      BY <2>1
    <3>2. Len(records) \in Nat /\ DOMAIN records = 1 .. Len(records)
      BY <2>1
    <3> QED
      BY <2>1, <3>1, <3>2 DEF Records
<1>4. ASSUME NEW c \in Cards
      PROVE  /\ c \in shownC <=> \E n \in DOMAIN records : records[n].card = c
             /\ c \in shownC => all.card[c].facts = records[cardAt(c)].facts
  <2>0. tables.card[c] \in CardRows \cup {None}
    BY DEF Tables
  <2>1. all.card[c] = IF tables.card[c] = None THEN None ELSE Finish1(tables.card[c])
    BY FinishedRow, Zenon
  <2> HIDE DEF all
  <2>2. c \in shownC <=> tables.card[c] # None /\ tables.card[c].candidate
    BY <2>0, <2>1, CardRowChanges, NoneAssumption
  <2>3. CASE \E n \in DOMAIN records : records[n].card = c
    <3>1. PICK n \in 1 .. Len(records) :
             LastWithCard(records, Len(records), c, n) /\ tables.card[c] = CardRow(records[n])
      BY <1>3, <2>3 DEF Represents, CardsRepresent
    <3>2. tables.card[c] \in CardRows /\ tables.card[c] # None
      BY <3>1, <1>3, RowTypes, NoneAssumption
    <3>3. tables.card[c].candidate /\ tables.card[c].facts = records[n].facts
      BY <3>1 DEF CardRow
    <3>4. \A m \in lastOf(c) : m = n
      BY <3>1, <1>3 DEF LastWithCard
    <3>5. n \in lastOf(c)
      BY <3>1, <1>3 DEF LastWithCard
    <3>6. cardAt(c) = n
      BY <3>4, <3>5
    <3>7. all.card[c].facts = records[n].facts
      BY <2>1, <3>2, <3>3, CardRowChanges
    <3> HIDE DEF shownC, cardAt, lastOf, records
    <3> QED
      BY <2>2, <2>3, <3>2, <3>3, <3>6, <3>7
  <2>4. CASE ~\E n \in DOMAIN records : records[n].card = c
    <3>1. tables.card[c] # None => ~tables.card[c].candidate
      BY <1>3, <2>4 DEF Represents, CardsRepresent
    <3> QED
      BY <2>2, <2>4, <3>1
  <2> QED
    BY <2>3, <2>4
<1>5. ASSUME NEW p \in Printings
      PROVE  /\ p \in shownP <=> \E n \in DOMAIN records : records[n].printing = p
             /\ p \in shownP => /\ all.printing[p].card = records[printingAt(p)].card
                                /\ all.printing[p].look = records[printingAt(p)].look
  <2>0. tables.printing[p] \in PrintingRows \cup {None}
    BY DEF Tables
  <2>1. all.printing[p] = IF tables.printing[p] = None THEN None
                          ELSE Finish1(tables.printing[p])
    BY FinishedRow, Zenon
  <2> HIDE DEF all
  <2>2. p \in shownP <=> tables.printing[p] # None /\ tables.printing[p].candidate
    BY <2>0, <2>1, PrintingRowChanges, NoneAssumption
  <2>3. CASE \E n \in DOMAIN records : records[n].printing = p
    <3>1. PICK n \in 1 .. Len(records) :
             /\ LastWithPrinting(records, Len(records), p, n)
             /\ tables.printing[p] = PrintingRow(records[n])
      BY <1>3, <2>3 DEF Represents, PrintingsRepresent
    <3>2. tables.printing[p] \in PrintingRows /\ tables.printing[p] # None
      BY <3>1, <1>3, RowTypes, NoneAssumption
    <3>3. /\ tables.printing[p].candidate
          /\ tables.printing[p].card = records[n].card
          /\ tables.printing[p].look = records[n].look
      BY <3>1 DEF PrintingRow
    <3>4. \A m \in lastOfP(p) : m = n
      BY <3>1, <1>3 DEF LastWithPrinting
    <3>5. n \in lastOfP(p)
      BY <3>1, <1>3 DEF LastWithPrinting
    <3>6. printingAt(p) = n
      BY <3>4, <3>5
    <3>7. all.printing[p].card = records[n].card /\ all.printing[p].look = records[n].look
      BY <2>1, <3>2, <3>3, PrintingRowChanges
    <3> HIDE DEF shownP, printingAt, lastOfP, records
    <3> QED
      BY <2>2, <2>3, <3>2, <3>3, <3>6, <3>7
  <2>4. CASE ~\E n \in DOMAIN records : records[n].printing = p
    <3>1. tables.printing[p] # None => ~tables.printing[p].candidate
      BY <1>3, <2>4 DEF Represents, PrintingsRepresent
    <3> QED
      BY <2>2, <2>4, <3>1
  <2> QED
    BY <2>3, <2>4
<1>6. ASSUME NEW a \in NameKeys
      PROVE  a \in shownN <=>
                 \E n \in DOMAIN records : records[n].card = a[1] /\ a[2] \in records[n].names
  <2>0. tables.name[a] \in NameRows \cup {None}
    BY DEF Tables
  <2>1. all.name[a] = IF tables.name[a] = None THEN None ELSE Finish1(tables.name[a])
    BY FinishedRow, Zenon
  <2> HIDE DEF all
  <2>2. a \in shownN <=> tables.name[a] # None /\ tables.name[a].candidate
    <3>1. CASE tables.name[a] = None
      BY <3>1, <2>1
    <3>2. CASE tables.name[a] # None
      <4>1. /\ Finish1(tables.name[a]) # None
            /\ Finish1(tables.name[a]).current <=> tables.name[a].candidate
        BY <3>2, <2>0, NameRowChanges, NoneAssumption
      <4> QED
        BY <3>2, <4>1, <2>1, Zenon
    <3> QED
      BY <3>1, <3>2
  <2>3. CASE \E n \in DOMAIN records : records[n].card = a[1] /\ a[2] \in records[n].names
    <3>1. tables.name[a] = [current |-> TRUE, candidate |-> TRUE]
      BY <1>3, <2>3 DEF Represents, NamesRepresent
    <3>2. tables.name[a] # None
      BY <3>1, NameRowType, NoneAssumption
    <3>3. tables.name[a].candidate
      BY <3>1
    <3> QED
      BY <2>2, <2>3, <3>2, <3>3
  <2>4. CASE ~\E n \in DOMAIN records : records[n].card = a[1] /\ a[2] \in records[n].names
    <3>1. tables.name[a] # None => ~tables.name[a].candidate
      BY <1>3, <2>4 DEF Represents, NamesRepresent
    <3> QED
      BY <2>2, <2>4, <3>1
  <2> QED
    BY <2>3, <2>4
<1>a. shownC \subseteq Cards /\ shownP \subseteq Printings /\ shownN \subseteq NameKeys
  OBVIOUS
<1> HIDE DEF records, all, cardAt, printingAt, shownC, shownP, shownN
<1>7. shownC = {records[n].card : n \in DOMAIN records}
  BY <1>a, <1>3, <1>4
<1>8. shownP = {records[n].printing : n \in DOMAIN records}
  BY <1>a, <1>3, <1>5
<1>9. {[card |-> c, facts |-> all.card[c].facts] : c \in shownC}
         = {[card |-> c, facts |-> records[cardAt(c)].facts] : c \in shownC}
  <2>1. \A c \in shownC : all.card[c].facts = records[cardAt(c)].facts
    BY <1>a, <1>4
  <2> QED
    BY <2>1
<1>10. {[printing |-> p, card |-> all.printing[p].card, look |-> all.printing[p].look] : p \in shownP}
         = {[printing |-> p, card |-> records[printingAt(p)].card,
             look |-> records[printingAt(p)].look] : p \in shownP}
  <2>1. \A p \in shownP : /\ all.printing[p].card = records[printingAt(p)].card
                          /\ all.printing[p].look = records[printingAt(p)].look
    BY <1>a, <1>5
  <2> QED
    BY <2>1
<1>11. {[card |-> n[1], name |-> n[2]] : n \in shownN} = namesDeclared
  <2>1. ASSUME NEW a \in shownN
        PROVE  [card |-> a[1], name |-> a[2]] \in namesDeclared
    BY <1>a, <1>6
  <2>2. ASSUME NEW n \in DOMAIN records, NEW x \in records[n].names
        PROVE  [card |-> records[n].card, name |-> x] \in {[card |-> m[1], name |-> m[2]] : m \in shownN}
    <3>1. <<records[n].card, x>> \in NameKeys
      BY <1>3, <2>2 DEF NameKeys
    <3>2. <<records[n].card, x>> \in shownN
      BY <1>6, <2>2, <3>1
    <3> QED
      BY <3>2
  <2> DEFINE shown == {[card |-> n[1], name |-> n[2]] : n \in shownN}
  <2>3. \A e \in namesDeclared : \E n \in DOMAIN records : \E x \in records[n].names :
            e = [card |-> records[n].card, name |-> x]
    OBVIOUS
  <2>4. \A e \in shown : \E a \in shownN : e = [card |-> a[1], name |-> a[2]]
    OBVIOUS
  <2> HIDE DEF shown, namesDeclared
  <2>5. shown = namesDeclared
    BY <2>1, <2>2, <2>3, <2>4 DEF shown
  <2> QED
    BY <2>5 DEF shown
<1> HIDE DEF namesDeclared
<1> QED
  BY <1>1, <1>2, <1>7, <1>8, <1>9, <1>10, <1>11 DEF records, all

--------
(* The invariant holds initially.                                          *)

LEMMA OutsideFacts ==
    ASSUME NEW at \in {"idle", "read", "opened", "returned", "busy", "failed"},
           NEW v \in Versions \cup {None}, NEW revision \in Revisions \cup {None}
    PROVE  /\ Outside(at, v, revision) \in Invocations
           /\ Outside(at, v, revision).at = at
           /\ Outside(at, v, revision).version = v
           /\ Outside(at, v, revision).seen = revision
BY DEF Outside, Invocations

LEMMA TaskTyped ==
    ASSUME CatalogInv, NEW t \in Tasks
    PROVE  /\ task[t] \in Invocations
           /\ task[t].version \in Versions \cup {None}
           /\ task[t].seen \in Revisions \cup {None}
           /\ stored.revision \in Revisions \cup {None}
BY DEF CatalogInv, CatalogTypeOK, Invocations, Tables

LEMMA InitCatalogInv == CatalogInit => CatalogInv
<1> SUFFICES ASSUME CatalogInit PROVE CatalogInv
  OBVIOUS
<1> USE DEF CatalogInit
<1>i. Idle \in Invocations /\ Idle.at = "idle" /\ Idle.version = None /\ Idle.seen = None
  BY OutsideFacts DEF Idle
<1>1. NoTables \in Tables
  BY DEF NoTables, Tables
<1>2. /\ \A c \in Cards : NoTables.card[c] = None
      /\ \A p \in Printings : NoTables.printing[p] = None
      /\ NoTables.revision = None
  BY DEF NoTables
<1>3. \A t \in Tasks : task[t] = Idle
  OBVIOUS
<1>4. CatalogTypeOK
  <2>1. task \in [Tasks -> Invocations]
    BY <1>i
  <2>2. \A t \in Tasks : task[t].at = "idle"
    BY <1>3, <1>i
  <2> QED
    BY <1>1, <2>1, <2>2, CatalogAssumption DEF CatalogTypeOK
<1>5. RevisionsKnown
  BY <1>2, <1>3, <1>i DEF RevisionsKnown, LastRevision
<1>6. StoredWhole
  BY <1>2 DEF StoredWhole, Linked
<1>7. DraftSound
  BY DEF DraftSound
<1>8. OpenedKnown
  BY <1>3, <1>i DEF OpenedKnown
<1> QED
  BY <1>4, <1>5, <1>6, <1>7, <1>8 DEF CatalogInv

--------
(* Steps of a task that touch no table.                                    *)

\* What a task may become without the lock, or by giving its transaction up.
Harmless(t, q) ==
    /\ q \in Invocations
    /\ q.seen # None => Positioned(q.seen, history)
    /\ q.at = "returned" => q.seen # None /\ q.seen.version = q.version
    /\ q.at = "opened" => q.version \in Versions /\ q = Outside("opened", q.version, q.seen)
    /\ q.at \notin {"ingest", "commit"}
    /\ holder = t => q.at = "failed"

LEMMA TaskMoves ==
    ASSUME CatalogInv, NEW t \in Tasks, NEW q, Harmless(t, q),
           task' = [task EXCEPT ![t] = q],
           UNCHANGED <<stored, history, holder, draft>>
    PROVE  CatalogInv'
<1>1. /\ task' \in [Tasks -> Invocations]
      /\ task'[t] = q
      /\ \A u \in Tasks \ {t} : task'[u] = task[u]
  BY DEF CatalogInv, CatalogTypeOK, Harmless
<1>2. CatalogTypeOK'
  BY <1>1 DEF CatalogInv, CatalogTypeOK, Harmless
<1>3. RevisionsKnown'
  BY <1>1 DEF CatalogInv, RevisionsKnown, Harmless, Positioned, LastRevision
<1>4. StoredWhole'
  BY DEF CatalogInv, StoredWhole, Linked, WholeOf, View
<1>5. DraftSound'
  <2>1. CASE holder = t
    <3>1. task'[holder].at = "failed"
      BY <2>1, <1>1 DEF Harmless
    <3> QED
      BY <3>1 DEF CatalogInv, DraftSound, Publishable
  <2>2. CASE holder # t
    <3>1. holder # None => task'[holder] = task[holder]
      BY <2>2, <1>1 DEF CatalogInv, CatalogTypeOK
    <3> QED
      BY <3>1 DEF CatalogInv, DraftSound, Publishable, Ingesting
  <2> QED
    BY <2>1, <2>2
<1>6. OpenedKnown'
  BY <1>1 DEF CatalogInv, OpenedKnown, Harmless
<1> QED
  BY <1>2, <1>3, <1>4, <1>5, <1>6 DEF CatalogInv

\* Without the lock there is no transaction, and a task that lets it go leaves
\* the tables as they were.
LEMMA TaskReleases ==
    ASSUME CatalogInv, NEW t \in Tasks, NEW q, Harmless(t, q),
           task' = [task EXCEPT ![t] = q],
           holder' = None, draft' = None, \A u \in Tasks : holder = u => u = t,
           UNCHANGED <<stored, history>>
    PROVE  CatalogInv'
<1>1. /\ task' \in [Tasks -> Invocations]
      /\ task'[t] = q
      /\ \A u \in Tasks \ {t} : task'[u] = task[u]
  BY DEF CatalogInv, CatalogTypeOK, Harmless
<1>2. CatalogTypeOK'
  BY <1>1 DEF CatalogInv, CatalogTypeOK, Harmless
<1>3. RevisionsKnown'
  BY <1>1 DEF CatalogInv, RevisionsKnown, Harmless, Positioned, LastRevision
<1>4. StoredWhole'
  BY DEF CatalogInv, StoredWhole, Linked, WholeOf, View
<1>5. DraftSound'
  BY DEF DraftSound
<1>6. OpenedKnown'
  BY <1>1 DEF CatalogInv, OpenedKnown, Harmless
<1> QED
  BY <1>2, <1>3, <1>4, <1>5, <1>6 DEF CatalogInv

LEMMA PreReadStep ==
    ASSUME CatalogInv, NEW t \in Tasks, PreRead(t)
    PROVE  CatalogInv'
<1> DEFINE q == Outside("read", None, stored.revision)
<1>1. /\ q \in Invocations
      /\ q.at = "read" /\ q.version = None /\ q.seen = stored.revision
  BY TaskTyped, OutsideFacts
<1>2. stored.revision # None => Positioned(stored.revision, history)
  <2>1. history \in Seq(Versions)
    BY DEF CatalogInv, CatalogTypeOK
  <2> QED
    BY <2>1 DEF CatalogInv, RevisionsKnown, LastRevision, Positioned
<1>3. task' = [task EXCEPT ![t] = q] /\ UNCHANGED <<stored, history, holder, draft>>
  BY DEF PreRead
<1> HIDE DEF q
<1>4. Harmless(t, q)
  BY <1>1, <1>2 DEF PreRead, Harmless
<1> QED
  BY <1>3, <1>4, TaskMoves

LEMMA OpenStep ==
    ASSUME CatalogInv, NEW t \in Tasks, NEW v \in Versions, Open(t, v)
    PROVE  CatalogInv'
<1> DEFINE at == IF AlreadyPublished(task[t].seen, v) THEN "returned" ELSE "opened"
           q == Outside(at, v, task[t].seen)
<1>1. q \in Invocations /\ q.at = at /\ q.version = v /\ q.seen = task[t].seen
  BY TaskTyped, OutsideFacts
<1>a. q.at = "opened" => q = Outside("opened", q.version, q.seen)
  BY <1>1
<1>2. holder # t
  BY NoneAssumption DEF CatalogInv, CatalogTypeOK, Open
<1>3. task[t].seen # None => Positioned(task[t].seen, history)
  BY DEF CatalogInv, RevisionsKnown
<1>4. task' = [task EXCEPT ![t] = q] /\ UNCHANGED <<stored, history, holder, draft>>
  BY DEF Open
<1> HIDE DEF q
<1>5. Harmless(t, q)
  BY <1>1, <1>a, <1>2, <1>3 DEF Harmless, AlreadyPublished
<1> QED
  BY <1>4, <1>5, TaskMoves

LEMMA FailedStep ==
    ASSUME CatalogInv, NEW t \in Tasks, Failed(t)
    PROVE  CatalogInv'
<1> DEFINE q == Outside("failed", task[t].version, None)
<1>1. q \in Invocations /\ q.at = "failed" /\ q.version = task[t].version /\ q.seen = None
  BY TaskTyped, OutsideFacts
<1>2. task' = [task EXCEPT ![t] = q] /\ UNCHANGED <<stored, history>>
  BY DEF Failed, Reports
<1> HIDE DEF q
<1>3. Harmless(t, q)
  BY <1>1 DEF Harmless
<1>4. CASE UNCHANGED <<holder, draft>>
  BY <1>2, <1>3, <1>4, TaskMoves
<1>5. CASE holder' = None /\ draft' = None /\ holder = t
  BY <1>2, <1>3, <1>5, TaskReleases
<1> QED
  BY <1>4, <1>5 DEF Failed

--------
(* Steps of the transaction.                                               *)

\* A step of the holder: what is committed stands, its draft grows.
LEMMA HolderMoves ==
    ASSUME CatalogInv, NEW t \in Tasks, NEW q \in Invocations,
           task' = [task EXCEPT ![t] = q],
           UNCHANGED <<stored, history>>,
           holder \in {None, t}, holder' = t, draft' \in Tables,
           q.at \in {"ingest", "commit"}, q.seen = task[t].seen,
           Linked(draft'), Extends(stored, draft'), Len(history) < MaxRevisions,
           draft'.revision # stored.revision => Publishable(draft', stored, history),
           q.at = "ingest" => Ingesting(q, draft', stored),
           q.at = "commit" => /\ draft'.revision # stored.revision
                              /\ draft'.revision.version = q.version
    PROVE  CatalogInv'
<1>1. /\ task' \in [Tasks -> Invocations]
      /\ task'[t] = q
      /\ \A u \in Tasks \ {t} : task'[u] = task[u]
  BY DEF CatalogInv, CatalogTypeOK
<1>2. CatalogTypeOK'
  <2>1. t # None
    BY NoneAssumption
  <2>2. \A u \in Tasks \ {t} : task[u].at \notin {"ingest", "commit"}
    BY <2>1, NoneAssumption DEF CatalogInv, CatalogTypeOK
  <2>3. \A u \in Tasks : task'[u].at \in {"ingest", "commit"} => holder' = u
    BY <1>1, <2>2
  <2>4. task'[holder'].at \in {"ingest", "commit"}
    BY <1>1
  <2>5. /\ stored' \in Tables /\ history' \in Seq(Versions) /\ Len(history') <= MaxRevisions
        /\ holder' \in Tasks
    BY DEF CatalogInv, CatalogTypeOK
  <2> QED
    BY <1>1, <2>1, <2>3, <2>4, <2>5 DEF CatalogTypeOK
<1>3. RevisionsKnown'
  BY <1>1 DEF CatalogInv, RevisionsKnown, Positioned, LastRevision
<1>4. StoredWhole'
  BY DEF CatalogInv, StoredWhole, Linked, WholeOf, View
<1>5. DraftSound'
  <2>1. task'[holder'] = q
    BY <1>1
  <2>2. Linked(draft)' /\ Extends(stored, draft)'
    BY DEF Linked, Extends
  <2> QED
    BY <2>1, <2>2 DEF DraftSound
<1>6. OpenedKnown'
  BY <1>1 DEF CatalogInv, OpenedKnown
<1> QED
  BY <1>2, <1>3, <1>4, <1>5, <1>6 DEF CatalogInv

\* A reset copy keeps every row and its card, and represents nothing yet.
LEMMA ResetSound ==
    ASSUME NEW tables \in Tables, Linked(tables), NEW records
    PROVE  /\ Linked(Reset(tables)) /\ Extends(tables, Reset(tables))
           /\ Represents(Reset(tables), records, 0)
<1> DEFINE new == Reset(tables)
<1>1. ASSUME NEW c \in Cards
      PROVE  /\ new.card[c] = None <=> tables.card[c] = None
             /\ new.card[c] # None => ~new.card[c].candidate
  <2>1. new.card[c] = IF tables.card[c] = None THEN None ELSE Reset1(tables.card[c])
    BY ResetRows, ZenonT(60)
  <2>2. tables.card[c] \in CardRows \cup {None}
    BY DEF Tables
  <2> HIDE DEF new
  <2>3. CASE tables.card[c] = None
    BY <2>1, <2>3
  <2>4. CASE tables.card[c] # None
    <3>1. Reset1(tables.card[c]) # None /\ ~Reset1(tables.card[c]).candidate
      BY <2>2, <2>4, CardRowChanges, NoneAssumption
    <3> QED
      BY <2>1, <2>4, <3>1
  <2> QED
    BY <2>3, <2>4
<1>2. ASSUME NEW n \in NameKeys
      PROVE  new.name[n] # None => ~new.name[n].candidate
  <2>1. new.name[n] = IF tables.name[n] = None THEN None ELSE Reset1(tables.name[n])
    BY ResetRows
  <2>2. tables.name[n] \in NameRows \cup {None}
    BY DEF Tables
  <2> HIDE DEF new
  <2>3. CASE tables.name[n] = None
    BY <2>1, <2>3
  <2>4. CASE tables.name[n] # None
    <3>1. ~Reset1(tables.name[n]).candidate
      BY <2>2, <2>4, NameRowChanges
    <3> QED
      BY <2>1, <2>4, <3>1
  <2> QED
    BY <2>3, <2>4
<1>3. ASSUME NEW p \in Printings
      PROVE  /\ new.printing[p] = None <=> tables.printing[p] = None
             /\ new.printing[p] # None =>
                   /\ ~new.printing[p].candidate
                   /\ new.printing[p].card = tables.printing[p].card
                   /\ tables.printing[p].card \in Cards
  <2>1. new.printing[p] = IF tables.printing[p] = None THEN None
                          ELSE Reset1(tables.printing[p])
    BY ResetRows
  <2>2. tables.printing[p] \in PrintingRows \cup {None}
    BY DEF Tables
  <2> HIDE DEF new
  <2>3. CASE tables.printing[p] = None
    BY <2>1, <2>3
  <2>4. CASE tables.printing[p] # None
    <3>1. /\ Reset1(tables.printing[p]) # None /\ ~Reset1(tables.printing[p]).candidate
          /\ Reset1(tables.printing[p]).card = tables.printing[p].card
      BY <2>2, <2>4, PrintingRowChanges, NoneAssumption
    <3>2. tables.printing[p].card \in Cards
      BY <2>2, <2>4 DEF PrintingRows
    <3> QED
      BY <2>1, <2>4, <3>1, <3>2
  <2> QED
    BY <2>3, <2>4
<1> HIDE DEF new
<1>4. Linked(new)
  BY <1>1, <1>3 DEF Linked
<1>5. Extends(tables, new)
  BY <1>1, <1>3 DEF Extends
<1>6. Represents(new, records, 0)
  BY <1>1, <1>2, <1>3
     DEF Represents, CardsRepresent, NamesRepresent, PrintingsRepresent
<1> QED
  BY <1>4, <1>5, <1>6 DEF new

LEMMA BeginStep ==
    ASSUME CatalogInv, NEW t \in Tasks, Begin(t)
    PROVE  CatalogInv'
<1>0. task[t].at = "opened"
  BY DEF Begin
<1>1. CASE holder # None /\ Reports(t, "busy", None) /\ UNCHANGED <<stored, history, holder, draft>>
  <2> DEFINE q == Outside("busy", task[t].version, None)
  <2>1. q \in Invocations /\ q.at = "busy" /\ q.seen = None
    BY TaskTyped, OutsideFacts
  <2>2. holder # t
    BY <1>0, <1>1 DEF CatalogInv, CatalogTypeOK
  <2>3. task' = [task EXCEPT ![t] = q]
    BY <1>1 DEF Reports
  <2> HIDE DEF q
  <2> QED
    BY <1>1, <2>1, <2>2, <2>3, TaskMoves DEF Harmless
<1>2. CASE /\ holder = None /\ AlreadyPublished(stored.revision, task[t].version)
           /\ Reports(t, "returned", stored.revision)
           /\ UNCHANGED <<stored, history, holder, draft>>
  <2> DEFINE q == Outside("returned", task[t].version, stored.revision)
  <2>1. /\ q \in Invocations /\ q.at = "returned" /\ q.seen = stored.revision
        /\ q.version = task[t].version
    BY TaskTyped, OutsideFacts
  <2>2. holder # t
    BY <1>2, NoneAssumption
  <2>3. stored.revision # None /\ stored.revision.version = task[t].version
    BY <1>2 DEF AlreadyPublished
  <2>4. Positioned(stored.revision, history)
    <3>1. history \in Seq(Versions)
      BY DEF CatalogInv, CatalogTypeOK
    <3> QED
      BY <2>3, <3>1 DEF CatalogInv, RevisionsKnown, LastRevision, Positioned
  <2>5. task' = [task EXCEPT ![t] = q]
    BY <1>2 DEF Reports
  <2> HIDE DEF q
  <2>6. Harmless(t, q)
    BY <2>1, <2>2, <2>3, <2>4 DEF Harmless
  <2> QED
    BY <1>2, <2>5, <2>6, TaskMoves
<1>3. CASE /\ holder = None /\ ~AlreadyPublished(stored.revision, task[t].version)
           /\ Len(history) < MaxRevisions
           /\ holder' = t
           /\ draft' = Reset(stored)
           /\ task' = [task EXCEPT ![t].at = "ingest"]
           /\ UNCHANGED <<stored, history>>
  <2> DEFINE q == [task[t] EXCEPT !.at = "ingest"]
  <2>1. /\ task[t].version \in Versions
        /\ task[t] = Outside("opened", task[t].version, task[t].seen)
    BY <1>0 DEF CatalogInv, OpenedKnown
  <2>2. /\ q.at = "ingest" /\ q.version = task[t].version /\ q.seen = task[t].seen
        /\ q.next = 1 /\ q.buffered = <<>> /\ q.known = [p \in Printings |-> None]
    BY <2>1 DEF Outside
  <2>3. q \in Invocations
    BY TaskTyped DEF Invocations
  <2>4. task' = [task EXCEPT ![t] = q]
    BY <1>3
  <2> HIDE DEF q
  <2>5. stored \in Tables /\ Linked(stored)
    BY DEF CatalogInv, CatalogTypeOK, StoredWhole
  <2>6. /\ draft' \in Tables /\ Linked(draft') /\ Extends(stored, draft')
        /\ Represents(draft', Snapshot[q.version], 0)
        /\ draft'.revision = stored.revision
    BY <1>3, <2>5, ResetRows, ResetSound
  <2>7. Written(q) = 0 /\ q.next = 1 /\ Len(q.buffered) = 0
    <3>1. q.next = 1 /\ Len(q.buffered) = 0
      BY <2>2
    <3> QED
      BY <3>1 DEF Written
  <2>8. ReadSoFar(q)
    <3>1. Snapshot[q.version] \in Seq(Records)
      BY <2>1, <2>2, CatalogAssumption
    <3> QED
      BY <2>1, <2>2, <2>7, <3>1 DEF ReadSoFar, BatchOf
  <2>9. Ingesting(q, draft', stored)
    BY <1>3, <2>2, <2>6, <2>7, <2>8 DEF Ingesting
  <2> QED
    BY <1>3, <2>2, <2>3, <2>4, <2>6, <2>9, HolderMoves
<1> QED
  BY <1>1, <1>2, <1>3 DEF Begin

\* One more record is read: the batch grows, or it starts again after it was
\* written.
LEMMA ReadsOn ==
    ASSUME NEW q \in Invocations, ReadSoFar(q), q.at = "ingest",
           q.next <= Len(Snapshot[q.version]),
           q.known[Snapshot[q.version][q.next].printing]
               \in {None, Snapshot[q.version][q.next].card},
           NEW full \in BOOLEAN,
           NEW r, r = Took(q, Snapshot[q.version][q.next], full)
    PROVE  /\ r \in Invocations /\ ReadSoFar(r)
           /\ r.at = "ingest" /\ r.version = q.version /\ r.seen = q.seen
           /\ Written(r) = IF full THEN Written(q) + Len(q.buffered) ELSE Written(q)
<1> DEFINE records == Snapshot[q.version]
           record == records[q.next]
           buffered == IF full THEN <<record>> ELSE Append(q.buffered, record)
           after == [q.known EXCEPT ![record.printing] = record.card]
<1>1. /\ q.version \in Versions /\ q.next \in Nat \ {0}
      /\ q.buffered \in Seq(Records) /\ q.known \in [Printings -> Cards \cup {None}]
      /\ Written(q) \in Nat
  BY DEF ReadSoFar, Invocations
<1>2. records \in Seq(Records) /\ q.next \in 1 .. Len(records)
  <2>1. Snapshot[q.version] \in Seq(Records)
    BY <1>1, CatalogAssumption
  <2> QED
    BY <1>1, <2>1
<1>a. records = Snapshot[q.version] /\ record = records[q.next]
  OBVIOUS
<1> HIDE DEF records
<1>b. \A n \in 1 .. Len(records) :
         /\ records[n] \in Records
         /\ records[n].printing \in Printings /\ records[n].card \in Cards
  <2>1. \A n \in 1 .. Len(records) : records[n] \in Records
    BY <1>2
  <2> QED
    BY <2>1 DEF Records
<1>3. record \in Records /\ record.printing \in Printings /\ record.card \in Cards
  BY <1>2, <1>b
<1>c. /\ q.known[record.printing] \in {None, record.card}
      /\ r = [q EXCEPT !.next = q.next + 1, !.buffered = buffered, !.known = after]
  BY <1>a DEF records, Took
<1>d. buffered = (IF full THEN <<record>> ELSE Append(q.buffered, record))
      /\ after = [q.known EXCEPT ![record.printing] = record.card]
  OBVIOUS
<1> HIDE DEF record, buffered, after
<1>5. buffered \in Seq(Records) /\ Len(buffered) = IF full THEN 1 ELSE Len(q.buffered) + 1
  BY <1>1, <1>3, <1>d
<1>6. after \in [Printings -> Cards \cup {None}]
  BY <1>1, <1>3, <1>d
<1>4. /\ r \in Invocations
      /\ r.at = "ingest" /\ r.version = q.version /\ r.seen = q.seen
      /\ r.next = q.next + 1 /\ r.buffered = buffered /\ r.known = after
  <2>1. q.next + 1 \in Nat
    BY <1>1
  <2> DEFINE next == q.next + 1
  <2> HIDE DEF next
  <2>2. next \in Nat /\ r = [q EXCEPT !.next = next, !.buffered = buffered, !.known = after]
    BY <2>1, <1>c DEF next
  <2>3. /\ r \in Invocations
        /\ r.at = q.at /\ r.version = q.version /\ r.seen = q.seen
        /\ r.next = next /\ r.buffered = buffered /\ r.known = after
    BY ONLY q \in Invocations, <2>2, <1>5, <1>6 DEF Invocations
  <2> QED
    BY <2>3 DEF next
<1>8. Written(r) = IF full THEN Written(q) + Len(q.buffered) ELSE Written(q)
  BY <1>1, <1>4, <1>5 DEF Written
<1>9. BatchOf(r.buffered, records, Written(r))
  <2>1. Written(q) + Len(q.buffered) + 1 = q.next
    BY <1>1 DEF Written
  <2>2. CASE full
    <3>1. r.buffered = <<record>> /\ Written(r) + 1 = q.next
      BY <2>1, <2>2, <1>1, <1>4, <1>8, <1>d
    <3>a. Len(<<record>>) = 1 /\ <<record>>[1] = record
      OBVIOUS
    <3>2. \A i \in 1 .. Len(r.buffered) : i = 1 /\ r.buffered[i] = record
      BY ONLY <3>1, <3>a
    <3> QED
      BY <3>1, <3>2, <1>2, <1>a DEF BatchOf
  <2>3. CASE ~full
    <3>1. r.buffered = Append(q.buffered, record) /\ Written(r) = Written(q)
      BY <2>3, <1>4, <1>8, <1>d
    <3>2. BatchOf(q.buffered, records, Written(q))
      BY DEF ReadSoFar, records
    <3>3. ASSUME NEW i \in 1 .. Len(r.buffered)
          PROVE  Written(r) + i \in 1 .. Len(records) /\ r.buffered[i] = records[Written(r) + i]
      <4>1. CASE i \in 1 .. Len(q.buffered)
        <5>1. r.buffered[i] = q.buffered[i]
          BY <3>1, <4>1, <1>1
        <5> QED
          BY <3>1, <3>2, <4>1, <5>1 DEF BatchOf
      <4>2. CASE i = Len(q.buffered) + 1
        <5>1. r.buffered[i] = record
          BY <3>1, <4>2, <1>1
        <5>2. Written(r) + i = q.next
          <6>1. Len(q.buffered) \in Nat
            BY <1>1
          <6> QED
            BY <6>1, <3>1, <4>2, <2>1, <1>1
        <5> QED
          BY <5>1, <5>2, <1>2, <1>a
      <4> QED
        BY <4>1, <4>2, <3>1, <1>1
    <3> QED
      BY <3>3 DEF BatchOf
  <2> QED
    BY <2>2, <2>3
<1>10. ASSUME NEW n \in 1 .. r.next - 1
       PROVE  r.known[records[n].printing] = records[n].card
  <2>1. n \in 1 .. Len(records) /\ records[n].printing \in Printings
    BY <1>1, <1>2, <1>4, <1>b
  <2>2. CASE n = q.next
    BY <2>1, <2>2, <1>1, <1>3, <1>4, <1>a, <1>d
  <2>3. CASE n \in 1 .. q.next - 1
    <3>1. q.known[records[n].printing] = records[n].card
      BY <2>3 DEF ReadSoFar, records
    <3>2. records[n].card \in Cards
      BY <2>1, <1>b
    <3>3. records[n].printing = record.printing => records[n].card = record.card
      BY <3>1, <3>2, <1>c, NoneAssumption
    <3> QED
      BY <2>1, <3>1, <3>3, <1>1, <1>3, <1>4, <1>d
  <2> QED
    BY <2>2, <2>3, <1>1, <1>4
<1>11. ASSUME NEW p \in Printings, r.known[p] # None
       PROVE  \E n \in 1 .. r.next - 1 : records[n].printing = p
  <2>1. CASE p = record.printing
    BY <2>1, <1>1, <1>4, <1>a
  <2>2. CASE p # record.printing
    <3>1. q.known[p] # None
      BY <1>11, <2>2, <1>1, <1>3, <1>4, <1>d
    <3>2. PICK n \in 1 .. q.next - 1 : records[n].printing = p
      BY <3>1 DEF ReadSoFar, records
    <3>3. n \in 1 .. r.next - 1
      BY <1>1, <1>4
    <3> QED
      BY <3>2, <3>3
  <2> QED
    BY <2>1, <2>2
<1>12. ReadSoFar(r)
  <2>1. r.next \in 1 .. Len(records) + 1 /\ Written(r) \in Nat
    BY <1>1, <1>2, <1>4, <1>8
  <2> QED
    <3>1. Snapshot[r.version] = records /\ r.version \in Versions
      BY <1>1, <1>4 DEF records
    <3> QED
      BY <3>1, <2>1, <1>9, <1>10, <1>11 DEF ReadSoFar
<1> QED
  BY <1>4, <1>8, <1>12

LEMMA ExtendsFurther ==
    ASSUME NEW a \in Tables, NEW b \in Tables, NEW c \in Tables, Extends(a, b), Extends(b, c)
    PROVE  Extends(a, c)
BY DEF Extends

\* What is known while a task ingests.
LEMMA IngestingFacts ==
    ASSUME CatalogInv, NEW t \in Tasks, task[t].at \in {"ingest", "commit"}
    PROVE  /\ holder = t /\ holder # None
           /\ draft \in Tables /\ stored \in Tables
           /\ Linked(draft) /\ Extends(stored, draft) /\ Len(history) < MaxRevisions
           /\ task[t].at = "ingest" => Ingesting(task[t], draft, stored)
           /\ task[t].at = "commit" => /\ draft.revision # stored.revision
                                       /\ draft.revision.version = task[t].version
<1>1. holder = t
  BY DEF CatalogInv, CatalogTypeOK
<1>2. holder # None
  BY <1>1, NoneAssumption
<1>3. draft \in Tables /\ stored \in Tables
  BY <1>2 DEF CatalogInv, CatalogTypeOK
<1> QED
  BY <1>1, <1>2, <1>3 DEF CatalogInv, DraftSound

LEMMA IngestStep ==
    ASSUME CatalogInv, NEW t \in Tasks, Ingest(t)
    PROVE  CatalogInv'
<1> DEFINE q == task[t]
           records == Snapshot[q.version]
           record == records[q.next]
           known == q.known[record.printing]
           full == Full(q.buffered, record)
           refused ==
               \/ known \notin {None, record.card}
               \/ full /\ RelationshipConflict(draft, q.buffered)
               \/ record.bytes > MaxBytes
           r == Took(q, record, full)
<1>1. /\ q.at = "ingest" /\ q.next <= Len(records)
      /\ IF refused THEN Failed(t)
         ELSE /\ draft' = IF full THEN Flushed(draft, q.buffered) ELSE draft
              /\ task' = [task EXCEPT ![t] = r]
              /\ UNCHANGED <<stored, history, holder>>
  BY DEF Ingest
<1>2. CASE refused
  BY <1>1, <1>2, FailedStep
<1>3. CASE ~refused
  <2>1. /\ q \in Invocations /\ q.buffered \in Seq(Records)
        /\ stored.revision \in Revisions \cup {None}
    BY TaskTyped DEF Invocations
  <2>2. /\ holder = t /\ draft \in Tables /\ stored \in Tables
        /\ Linked(draft) /\ Extends(stored, draft) /\ Len(history) < MaxRevisions
        /\ Ingesting(q, draft, stored)
    BY <1>1, IngestingFacts
  <2>3. full \in BOOLEAN
    BY DEF Full
  <2>4. /\ r \in Invocations /\ ReadSoFar(r)
        /\ r.at = "ingest" /\ r.version = q.version /\ r.seen = q.seen
        /\ Written(r) = IF full THEN Written(q) + Len(q.buffered) ELSE Written(q)
    <3>1. ReadSoFar(q)
      BY <2>2 DEF Ingesting
    <3>2. known \in {None, record.card}
      BY <1>3
    <3>3. r = Took(q, Snapshot[q.version][q.next], full)
      OBVIOUS
    <3> HIDE DEF full, q, r, refused
    <3> QED
      BY <1>1, <2>1, <2>3, <3>1, <3>2, <3>3, ReadsOn
  <2>5. /\ draft' \in Tables /\ Linked(draft') /\ Extends(stored, draft')
        /\ draft'.revision = stored.revision
        /\ Represents(draft', records, Written(r))
    <3>1. /\ Represents(draft, records, Written(q)) /\ draft.revision = stored.revision
          /\ records \in Seq(Records) /\ Written(q) \in Nat
          /\ BatchOf(q.buffered, records, Written(q))
      BY <2>2, CatalogAssumption DEF Ingesting, ReadSoFar
    <3>2. CASE full
      <4>1. draft' = Flushed(draft, q.buffered) /\ ~RelationshipConflict(draft, q.buffered)
        BY <1>1, <1>3, <3>2
      <4>2. Written(r) = Written(q) + Len(q.buffered)
        BY <2>4, <3>2
      <4> HIDE DEF records, r, q, full, refused
      <4>3. draft' \in Tables /\ Linked(draft') /\ Extends(draft, draft')
        BY <2>1, <2>2, <4>1, FlushedType, FlushedLinked
      <4>4. Represents(draft', records, Written(r))
        BY <2>1, <2>2, <3>1, <4>1, <4>2, FlushedRepresents
      <4>5. draft'.revision = draft.revision
        BY <2>1, <2>2, <4>1, FlushedRows
      <4> QED
        BY <2>2, <3>1, <4>3, <4>4, <4>5, ExtendsFurther
    <3>3. CASE ~full
      <4>1. draft' = draft /\ Written(r) = Written(q)
        BY <1>1, <1>3, <2>4, <3>3
      <4> HIDE DEF records, r, q, full, refused
      <4> QED
        BY <2>2, <3>1, <4>1
    <3> QED
      BY <3>2, <3>3
  <2>6. task' = [task EXCEPT ![t] = r] /\ UNCHANGED <<stored, history, holder>>
    BY <1>1, <1>3
  <2>7. q.version = r.version /\ r.seen = task[t].seen
    BY <2>4
  <2>8. records = Snapshot[r.version]
    BY <2>4
  <2>9. ~AlreadyPublished(stored.revision, r.version)
    BY <2>2, <2>7 DEF Ingesting
  <2> HIDE DEF records, r, q, full, refused
  <2>10. Ingesting(r, draft', stored)
    BY <2>4, <2>5, <2>8, <2>9 DEF Ingesting
  <2> QED
    BY <2>2, <2>4, <2>5, <2>6, <2>7, <2>10, HolderMoves
<1> QED
  BY <1>2, <1>3

\* Finishing keeps every row and its card.
LEMMA FinishedSound ==
    ASSUME NEW tables \in Tables, Linked(tables)
    PROVE  Linked(Finished(tables)) /\ Extends(tables, Finished(tables))
<1> DEFINE new == Finished(tables)
<1>1. ASSUME NEW c \in Cards
      PROVE  new.card[c] = None <=> tables.card[c] = None
  <2>1. new.card[c] = IF tables.card[c] = None THEN None ELSE Finish1(tables.card[c])
    BY FinishedRow
  <2>2. tables.card[c] \in CardRows \cup {None}
    BY DEF Tables
  <2>3. tables.card[c] # None => Finish1(tables.card[c]) # None
    BY <2>2, CardRowChanges, NoneAssumption
  <2> QED
    BY <2>1, <2>3
<1>2. ASSUME NEW p \in Printings
      PROVE  /\ new.printing[p] = None <=> tables.printing[p] = None
             /\ new.printing[p] # None =>
                   /\ new.printing[p].card = tables.printing[p].card
                   /\ tables.printing[p].card \in Cards
  <2>1. new.printing[p] = IF tables.printing[p] = None THEN None
                          ELSE Finish1(tables.printing[p])
    BY FinishedRow
  <2>2. tables.printing[p] \in PrintingRows \cup {None}
    BY DEF Tables
  <2> HIDE DEF new
  <2>3. CASE tables.printing[p] = None
    BY <2>1, <2>3
  <2>4. CASE tables.printing[p] # None
    <3>1. /\ Finish1(tables.printing[p]) # None
          /\ Finish1(tables.printing[p]).card = tables.printing[p].card
      BY <2>2, <2>4, PrintingRowChanges, NoneAssumption
    <3>2. tables.printing[p].card \in Cards
      BY <2>2, <2>4 DEF PrintingRows
    <3> QED
      BY <2>1, <2>4, <3>1, <3>2
  <2> QED
    BY <2>3, <2>4
<1> HIDE DEF new
<1>3. Linked(new)
  BY <1>1, <1>2 DEF Linked
<1>4. Extends(tables, new)
  BY <1>1, <1>2 DEF Extends
<1> QED
  BY <1>3, <1>4 DEF new

\* A snapshot that was read to its end names each printing for one card.
LEMMA ReadIsCoherent ==
    ASSUME NEW q \in Invocations, ReadSoFar(q), q.next > Len(Snapshot[q.version]), q.buffered # <<>>
    PROVE  /\ Promise!Coherent(q.version)
           /\ Written(q) + Len(q.buffered) = Len(Snapshot[q.version])
<1> DEFINE records == Snapshot[q.version]
<1>1. /\ q.version \in Versions /\ records \in Seq(Records) /\ q.buffered \in Seq(Records)
      /\ q.next = Len(records) + 1 /\ Len(records) \in Nat /\ Len(q.buffered) \in Nat
  <2>1. q.version \in Versions /\ q.next \in 1 .. Len(records) + 1 /\ q.next > Len(records)
    BY DEF ReadSoFar
  <2>2. records \in Seq(Records)
    BY <2>1, CatalogAssumption
  <2>3. q.buffered \in Seq(Records)
    BY DEF Invocations
  <2> HIDE DEF records
  <2> QED
    BY <2>1, <2>2, <2>3
<1>2. Written(q) + Len(q.buffered) = Len(records)
  BY <1>1 DEF Written
<1>3. records # <<>>
  <2>1. Len(q.buffered) > 0 /\ Written(q) \in Nat
    BY <1>1 DEF ReadSoFar
  <2> HIDE DEF records
  <2> QED
    BY <2>1, <1>1, <1>2
<1>4. \A m, n \in DOMAIN records :
          records[m].printing = records[n].printing => records[m].card = records[n].card
  <2>1. \A n \in 1 .. q.next - 1 : q.known[records[n].printing] = records[n].card
    BY DEF ReadSoFar
  <2>2. DOMAIN records = 1 .. q.next - 1
    BY <1>1
  <2> HIDE DEF records
  <2> QED
    BY <2>1, <2>2
<1> QED
  BY <1>2, <1>3, <1>4 DEF Promise!Coherent

LEMMA RevisionExcept ==
    ASSUME NEW tables \in Tables, NEW revision \in Revisions,
           NEW new, new = [tables EXCEPT !.revision = revision]
    PROVE  /\ new \in Tables /\ new.revision = revision
           /\ new.card = tables.card /\ new.name = tables.name
           /\ new.printing = tables.printing
BY DEF Tables

LEMMA FinishStep ==
    ASSUME CatalogInv, NEW t \in Tasks, Finish(t)
    PROVE  CatalogInv'
<1> DEFINE q == task[t]
           batch == q.buffered
           v == q.version
           full == Flushed(draft, batch)
           done == Finished(full)
           revision == [id |-> Len(history) + 1, version |-> v]
           r == [q EXCEPT !.at = "commit", !.buffered = <<>>]
<1>1. q.at = "ingest" /\ q.next > Len(Snapshot[v])
  BY DEF Finish
<1>2. CASE batch = <<>> \/ RelationshipConflict(draft, batch)
  BY <1>2, FailedStep DEF Finish
<1>3. CASE ~(batch = <<>> \/ RelationshipConflict(draft, batch))
  <2>1. q \in Invocations /\ batch \in Seq(Records)
    BY TaskTyped DEF Invocations
  <2>2. /\ holder = t /\ draft \in Tables /\ stored \in Tables
        /\ Linked(draft) /\ Extends(stored, draft) /\ Len(history) < MaxRevisions
        /\ Ingesting(q, draft, stored)
    BY <1>1, IngestingFacts
  <2>3. /\ draft' = [done EXCEPT !.revision = revision]
        /\ task' = [task EXCEPT ![t] = r]
        /\ UNCHANGED <<stored, history, holder>>
    BY <1>3 DEF Finish
  <2>4. /\ r \in Invocations /\ r.at = "commit" /\ r.seen = task[t].seen /\ r.version = v
    <3> DEFINE nothing == <<>>
    <3>1. nothing \in Seq(Records) /\ r = [q EXCEPT !.at = "commit", !.buffered = nothing]
      OBVIOUS
    <3> HIDE DEF nothing, r
    <3> QED
      BY <2>1, <3>1 DEF Invocations
  <2>5. /\ v \in Versions /\ Snapshot[v] \in Seq(Records) /\ ReadSoFar(q)
        /\ Represents(draft, Snapshot[v], Written(q))
        /\ draft.revision = stored.revision /\ ~AlreadyPublished(stored.revision, v)
        /\ Written(q) \in Nat /\ BatchOf(batch, Snapshot[v], Written(q))
    BY <2>2, CatalogAssumption DEF Ingesting, ReadSoFar
  <2>6. /\ Promise!Coherent(v)
        /\ Written(q) + Len(batch) = Len(Snapshot[v])
    BY <1>1, <1>3, <2>1, <2>5, ReadIsCoherent
  <2>7. revision \in Revisions /\ revision.version = v /\ revision.id = Len(history) + 1
    <3>1. history \in Seq(Versions) /\ MaxRevisions \in Nat
      BY CatalogAssumption DEF CatalogInv, CatalogTypeOK
    <3>2. Len(history) + 1 \in 1 .. MaxRevisions
      BY <2>2, <3>1
    <3> QED
      BY <2>5, <3>2 DEF Revisions
  <2> HIDE DEF q, batch, v, r, revision
  <2>8. /\ full \in Tables /\ Linked(full) /\ Extends(draft, full)
        /\ Represents(full, Snapshot[v], Len(Snapshot[v]))
    <3>1. full \in Tables
      BY <2>1, <2>2, FlushedType
    <3>2. Linked(full) /\ Extends(draft, full)
      BY <1>3, <2>1, <2>2, FlushedLinked
    <3>3. Represents(full, Snapshot[v], Written(q) + Len(batch))
      BY <2>1, <2>2, <2>5, FlushedRepresents
    <3> QED
      BY <3>1, <3>2, <3>3, <2>6
  <2> HIDE DEF full
  <2>9. /\ done \in Tables /\ Linked(done) /\ Extends(full, done)
        /\ View(done) = Promise!Declared(v)
    BY <2>5, <2>8, FinishedRows, FinishedSound, FinishedShowsAll
  <2> HIDE DEF done
  <2>10. /\ draft' \in Tables /\ draft'.revision = revision
         /\ draft'.card = done.card /\ draft'.name = done.name
         /\ draft'.printing = done.printing
    BY <2>3, <2>7, <2>9, RevisionExcept
  <2>11. Linked(draft') /\ Extends(stored, draft')
    <3>1. Extends(stored, full)
      BY <2>2, <2>8, ExtendsFurther
    <3>2. Extends(stored, done)
      BY <2>2, <2>8, <2>9, <3>1, ExtendsFurther
    <3> QED
      BY <3>2, <2>9, <2>10 DEF Linked, Extends
  <2>12. View(draft') = Promise!Declared(v)
    BY <2>9, <2>10 DEF View
  <2>13. Publishable(draft', stored, history)
    BY <2>5, <2>6, <2>7, <2>10, <2>12 DEF Publishable, WholeOf, revision
  <2>14. draft'.revision # stored.revision /\ draft'.revision.version = r.version
    BY <2>4, <2>5, <2>7, <2>10, NoneAssumption DEF AlreadyPublished
  <2> QED
    BY <2>2, <2>3, <2>4, <2>10, <2>11, <2>13, <2>14, HolderMoves
<1> QED
  BY <1>2, <1>3

--------
(* A commit, and what it publishes.                                        *)

\* What is committed is the draft of a whole snapshot, a position further.
LEMMA CommitFacts ==
    ASSUME CatalogInv, NEW t \in Tasks, holder = t, draft.revision # stored.revision, Committed
    PROVE  /\ stored' = draft /\ draft \in Tables /\ Linked(draft) /\ Extends(stored, draft)
           /\ history' \in Seq(Versions) /\ Len(history') = Len(history) + 1
           /\ Len(history') <= MaxRevisions
           /\ Publishable(draft, stored, history)
           /\ draft.revision \in Revisions /\ draft.revision # None
           /\ draft.revision = LastRevision(history')
           /\ history' = Append(history, draft.revision.version)
           /\ \A n \in 1 .. Len(history) : history'[n] = history[n]
<1>1. holder # None
  BY NoneAssumption
<1>2. /\ draft \in Tables /\ Linked(draft) /\ Extends(stored, draft)
      /\ Len(history) < MaxRevisions /\ Publishable(draft, stored, history)
      /\ history \in Seq(Versions)
  BY <1>1 DEF CatalogInv, CatalogTypeOK, DraftSound
<1> DEFINE v == draft.revision.version
<1>3. v \in Versions /\ draft.revision = [id |-> Len(history) + 1, version |-> v]
  BY <1>2 DEF Publishable, WholeOf
<1>4. stored' = draft /\ history' = Append(history, v)
  BY DEF Committed
<1> HIDE DEF v
<1>5. /\ history' \in Seq(Versions) /\ Len(history') = Len(history) + 1
      /\ history'[Len(history')] = v /\ history' # <<>>
      /\ \A n \in 1 .. Len(history) : history'[n] = history[n]
  BY <1>2, <1>3, <1>4
<1>6. draft.revision = LastRevision(history')
  BY <1>3, <1>5 DEF LastRevision
<1>7. draft.revision \in Revisions /\ draft.revision # None
  <2>1. Len(history) + 1 \in 1 .. MaxRevisions
    BY <1>2, CatalogAssumption
  <2>2. draft.revision \in Revisions
    BY <1>3, <2>1 DEF Revisions
  <2> QED
    BY <2>2, NoneAssumption
<1>8. Len(history') <= MaxRevisions
  BY <1>2, <1>5, CatalogAssumption
<1> QED
  BY <1>2, <1>4, <1>5, <1>6, <1>7, <1>8 DEF v

\* Whoever answers it, a commit leaves the invariant.
LEMMA CommittedInv ==
    ASSUME CatalogInv, NEW t \in Tasks, holder = t, draft.revision # stored.revision, Committed,
           task' \in [Tasks -> Invocations],
           \A u \in Tasks \ {t} : task'[u] = task[u],
           task'[t].at \in {"returned", "failed"},
           task'[t].seen \in {None, draft.revision, task[t].seen},
           task'[t].at = "returned" =>
               task'[t].seen = draft.revision /\ draft.revision.version = task'[t].version
    PROVE  CatalogInv'
<1>1. /\ stored' = draft /\ draft \in Tables /\ Linked(draft)
      /\ history' \in Seq(Versions) /\ Len(history') = Len(history) + 1
      /\ Len(history') <= MaxRevisions /\ history \in Seq(Versions)
      /\ Publishable(draft, stored, history)
      /\ draft.revision # None
      /\ draft.revision = LastRevision(history')
      /\ \A n \in 1 .. Len(history) : history'[n] = history[n]
      /\ holder' = None /\ draft' = None
  BY CommitFacts DEF Committed, CatalogInv, CatalogTypeOK
<1>2. CatalogTypeOK'
  <2>1. \A u \in Tasks : task'[u].at \notin {"ingest", "commit"}
    BY NoneAssumption DEF CatalogInv, CatalogTypeOK
  <2> QED
    BY <1>1, <2>1 DEF CatalogTypeOK
<1>3. RevisionsKnown'
  <2>1. ASSUME NEW revision, Positioned(revision, history)
        PROVE  Positioned(revision, history')
    BY <1>1, <2>1 DEF Positioned
  <2>2. Positioned(draft.revision, history')
    BY <1>1 DEF Positioned, LastRevision
  <2>3. \A u \in Tasks : task[u].seen # None => Positioned(task[u].seen, history)
    BY DEF CatalogInv, RevisionsKnown
  <2>4. \A u \in Tasks : task'[u].seen # None => Positioned(task'[u].seen, history')
    BY <2>1, <2>2, <2>3
  <2>5. \A u \in Tasks : task'[u].at = "returned" =>
            task'[u].seen # None /\ task'[u].seen.version = task'[u].version
    BY <1>1 DEF CatalogInv, RevisionsKnown
  <2> QED
    BY <1>1, <2>4, <2>5 DEF RevisionsKnown, Positioned, LastRevision
<1>4. StoredWhole'
  BY <1>1 DEF StoredWhole, Linked, Publishable, WholeOf, View
<1>5. DraftSound'
  BY <1>1 DEF DraftSound
<1>6. OpenedKnown'
  BY DEF CatalogInv, OpenedKnown
<1> QED
  BY <1>2, <1>3, <1>4, <1>5, <1>6 DEF CatalogInv

\* The commit a task sent is of the version it was asked for.
LEMMA CommitStep ==
    ASSUME CatalogInv, NEW t \in Tasks, Commit(t)
    PROVE  CatalogInv'
<1>1. task[t].at = "commit" /\ Committed
  BY DEF Commit
<1>2. holder = t /\ draft.revision # stored.revision
  BY <1>1, IngestingFacts
<1>3. draft.revision \in Revisions /\ draft.revision # None
  BY <1>1, <1>2, CommitFacts
<1>4. CASE Reports(t, "returned", draft.revision)
  <2> DEFINE q == Outside("returned", task[t].version, draft.revision)
  <2>1. /\ q \in Invocations /\ q.at = "returned" /\ q.version = task[t].version
        /\ q.seen = draft.revision
    BY <1>3, TaskTyped, OutsideFacts
  <2>2. task' = [task EXCEPT ![t] = q]
    BY <1>4 DEF Reports
  <2> HIDE DEF q
  <2>3. /\ task' \in [Tasks -> Invocations] /\ task'[t] = q
        /\ \A u \in Tasks \ {t} : task'[u] = task[u]
    BY <2>1, <2>2 DEF CatalogInv, CatalogTypeOK
  <2>4. draft.revision.version = task[t].version
    BY <1>1, IngestingFacts
  <2> QED
    BY <1>1, <1>2, <2>1, <2>3, <2>4, CommittedInv
<1>5. CASE Reports(t, "failed", None)
  <2> DEFINE q == Outside("failed", task[t].version, None)
  <2>1. q \in Invocations /\ q.at = "failed" /\ q.seen = None
    BY TaskTyped, OutsideFacts
  <2>2. task' = [task EXCEPT ![t] = q]
    BY <1>5 DEF Reports
  <2> HIDE DEF q
  <2>3. /\ task' \in [Tasks -> Invocations] /\ task'[t] = q
        /\ \A u \in Tasks \ {t} : task'[u] = task[u]
    BY <2>1, <2>2 DEF CatalogInv, CatalogTypeOK
  <2> QED
    BY <1>1, <1>2, <2>1, <2>3, CommittedInv
<1> QED
  BY <1>4, <1>5 DEF Commit

LEMMA ExpireStep ==
    ASSUME CatalogInv, NEW t \in Tasks, Expire(t)
    PROVE  CatalogInv'
<1>1. holder = t /\ task[t].at = "failed" /\ task' = task
  BY DEF Expire
<1>2. task \in [Tasks -> Invocations]
  BY DEF CatalogInv, CatalogTypeOK
<1>3. CASE UNCHANGED <<stored, history>> /\ holder' = None /\ draft' = None
  <2> DEFINE q == task[t]
  <2>1. q \in Invocations /\ q.at = "failed" /\ task' = [task EXCEPT ![t] = q]
    BY <1>1, <1>2
  <2>2. q.seen # None => Positioned(q.seen, history)
    BY DEF CatalogInv, RevisionsKnown
  <2> HIDE DEF q
  <2>3. Harmless(t, q)
    BY <2>1, <2>2 DEF Harmless
  <2> QED
    BY <1>1, <1>3, <2>1, <2>3, TaskReleases
<1>4. CASE draft.revision # stored.revision /\ Committed
  BY <1>1, <1>2, <1>4, CommittedInv
<1> QED
  BY <1>3, <1>4 DEF Expire

--------
(* The theorems.                                                           *)

LEMMA StepCatalogInv == CatalogInv /\ [CatalogNext]_catalogVars => CatalogInv'
<1> SUFFICES ASSUME CatalogInv, [CatalogNext]_catalogVars PROVE CatalogInv'
  OBVIOUS
<1>1. CASE UNCHANGED catalogVars
  BY <1>1, SMTT(40)
     DEF catalogVars, CatalogInv, CatalogTypeOK, RevisionsKnown, StoredWhole, DraftSound,
         OpenedKnown, Linked, WholeOf, View, Positioned, LastRevision, Extends, Publishable,
         Ingesting, Represents, CardsRepresent, NamesRepresent, PrintingsRepresent
<1>2. CASE CatalogNext
  <2>1. PICK t \in Tasks : Synchronize(t)
    BY <1>2 DEF CatalogNext
  <2>2. CASE Fail(t)
    BY <2>2, FailedStep DEF Fail
  <2> QED
    BY <2>1, <2>2, PreReadStep, OpenStep, BeginStep, IngestStep, FinishStep, CommitStep,
       ExpireStep DEF Synchronize
<1> QED
  BY <1>1, <1>2

\* One transaction at a time, its draft extends the committed tables and its
\* candidate rows are those of the records it has written; what is committed
\* is a whole snapshot and carries the last position of the history.
THEOREM CatalogInductive == CatalogSpec => []CatalogInv
<1> QED
  BY InitCatalogInv, StepCatalogInv, PTL DEF CatalogSpec

\* The revision a call returns was published, with the version it was asked
\* for, although another task may have published it (synchronize's answer).
LEMMA ReturnedByInv == CatalogInv => ReturnsRequestedRevision
<1> SUFFICES ASSUME CatalogInv, NEW t \in Tasks, task[t].at = "returned"
             PROVE  /\ task[t].seen.id \in DOMAIN history
                    /\ history[task[t].seen.id] = task[t].version
                    /\ task[t].seen.version = task[t].version
  BY DEF ReturnsRequestedRevision
<1>1. /\ task[t].seen.version = task[t].version
      /\ Positioned(task[t].seen, history)
  BY DEF CatalogInv, RevisionsKnown
<1>2. DOMAIN history = 1 .. Len(history)
  BY DEF CatalogInv, CatalogTypeOK
<1> QED
  BY <1>1, <1>2 DEF Positioned

THEOREM ReturnsWhatWasPublished == CatalogSpec => []ReturnsRequestedRevision
<1> QED
  BY CatalogInductive, ReturnedByInv, PTL

\* Only a commit changes what is published.
LEMMA OnlyCommitsPublish ==
    ASSUME CatalogInv, [CatalogNext]_catalogVars
    PROVE  \/ UNCHANGED <<stored, history>>
           \/ /\ stored' = draft
              /\ draft \in Tables /\ Linked(stored) /\ Extends(stored, draft)
              /\ Publishable(draft, stored, history)
              /\ draft.revision # None
              /\ history' = Append(history, draft.revision.version)
              /\ Len(history') = Len(history) + 1
<1>1. ASSUME NEW t \in Tasks, holder = t, draft.revision # stored.revision, Committed
      PROVE  /\ stored' = draft
             /\ draft \in Tables /\ Linked(stored) /\ Extends(stored, draft)
             /\ Publishable(draft, stored, history)
             /\ draft.revision # None
             /\ history' = Append(history, draft.revision.version)
             /\ Len(history') = Len(history) + 1
  BY <1>1, CommitFacts DEF CatalogInv, StoredWhole
<1>2. CASE UNCHANGED catalogVars
  BY <1>2 DEF catalogVars
<1>3. CASE CatalogNext
  <2>1. PICK t \in Tasks : Synchronize(t)
    BY <1>3 DEF CatalogNext
  <2>2. CASE Commit(t)
    <3>1. task[t].at = "commit" /\ Committed
      BY <2>2 DEF Commit
    <3>2. holder = t /\ draft.revision # stored.revision
      BY <3>1, IngestingFacts
    <3> QED
      BY <1>1, <3>1, <3>2
  <2>3. CASE Expire(t)
    <3>1. holder = t
      BY <2>3 DEF Expire
    <3>2. CASE draft.revision # stored.revision /\ Committed
      BY <1>1, <3>1, <3>2
    <3>3. CASE UNCHANGED <<stored, history>>
      BY <3>3
    <3> QED
      BY <2>3, <3>2, <3>3 DEF Expire
  <2>4. CASE PreRead(t) \/ Begin(t) \/ (\E v \in Versions : Open(t, v))
    BY <2>4 DEF PreRead, Begin, Open
  <2>5. CASE Ingest(t)
    BY <2>5 DEF Ingest, Failed
  <2>6. CASE Finish(t)
    BY <2>6 DEF Finish, Failed
  <2>7. CASE Fail(t)
    BY <2>7 DEF Fail, Failed
  <2> QED
    BY <2>1, <2>2, <2>3, <2>4, <2>5, <2>6, <2>7 DEF Synchronize
<1> QED
  BY <1>2, <1>3

\* Nothing that was published stops resolving, and a printing keeps its card,
\* which is stored too (the conflict checks of flush).
LEMMA StepResolvable ==
    ASSUME CatalogInv, [CatalogNext]_catalogVars
    PROVE  [/\ \A c \in Cards : stored.card[c] # None => stored'.card[c] # None
            /\ \A p \in Printings :
                  stored.printing[p] # None =>
                      /\ stored'.printing[p] # None
                      /\ stored'.printing[p].card = stored.printing[p].card
                      /\ stored'.card[stored.printing[p].card] # None]_stored
<1>1. CASE UNCHANGED <<stored, history>>
  BY <1>1
<1>2. CASE stored' = draft /\ Linked(stored) /\ Extends(stored, draft)
  <2>1. ASSUME NEW p \in Printings, stored.printing[p] # None
        PROVE  /\ stored'.printing[p] # None
               /\ stored'.printing[p].card = stored.printing[p].card
               /\ stored'.card[stored.printing[p].card] # None
    <3>1. stored.printing[p] \in PrintingRows
      BY <2>1 DEF CatalogInv, CatalogTypeOK, Tables
    <3>2. stored.printing[p].card \in Cards
      BY <3>1 DEF PrintingRows
    <3>3. stored.card[stored.printing[p].card] # None
      BY <1>2, <2>1 DEF Linked
    <3> QED
      BY <1>2, <2>1, <3>2, <3>3 DEF Extends
  <2>2. \A c \in Cards : stored.card[c] # None => stored'.card[c] # None
    BY <1>2 DEF Extends
  <2> QED
    BY <2>1, <2>2
<1> QED
  BY <1>1, <1>2, OnlyCommitsPublish

THEOREM StaysResolvable == CatalogSpec => HistoryResolvable
<1>1. CatalogInv /\ [CatalogNext]_catalogVars =>
          [/\ \A c \in Cards : stored.card[c] # None => stored'.card[c] # None
           /\ \A p \in Printings :
                 stored.printing[p] # None =>
                     /\ stored'.printing[p] # None
                     /\ stored'.printing[p].card = stored.printing[p].card
                     /\ stored'.card[stored.printing[p].card] # None]_stored
  BY StepResolvable
<1> QED
  BY <1>1, CatalogInductive, PTL DEF CatalogSpec, HistoryResolvable

\* Each step of the tasks publishes one whole snapshot, of a version that is
\* not the one readers have, or nothing they could see.
LEMMA StepPublishes ==
    ASSUME CatalogInv, [CatalogNext]_catalogVars
    PROVE  [Promise!PublishedNext]_(Promise!publishedVars)
<1>1. CASE UNCHANGED <<stored, history>>
  BY <1>1 DEF Promise!publishedVars, Shown, View
<1>2. CASE /\ stored' = draft
           /\ Publishable(draft, stored, history)
           /\ draft.revision # None
           /\ history' = Append(history, draft.revision.version)
           /\ Len(history') = Len(history) + 1
  <2> DEFINE v == draft.revision.version
  <2>1. /\ v \in Versions /\ Promise!Coherent(v) /\ View(draft) = Promise!Declared(v)
        /\ draft.revision = [id |-> Len(history) + 1, version |-> v]
        /\ ~AlreadyPublished(stored.revision, v)
    BY <1>2 DEF Publishable, WholeOf
  <2>2. View(stored)' = View(draft)
    BY <1>2 DEF View
  <2>3. Shown' = [revision |-> [id |-> Len(history'), version |-> v],
                  members |-> Promise!Declared(v)]
    BY <1>2, <2>1, <2>2 DEF Shown
  <2>4. Shown # None => Shown.revision.version # v
    BY <2>1 DEF Shown, AlreadyPublished
  <2>5. Promise!Publish(v)
    BY <1>2, <2>1, <2>3, <2>4 DEF Promise!Publish
  <2> QED
    BY <2>1, <2>5 DEF Promise!PublishedNext
<1> QED
  BY <1>1, <1>2, OnlyCommitsPublish

\* The transactions of any number of overlapping tasks implement a catalog
\* that moves from one whole snapshot to another in a single step.
THEOREM ImplementsPublication == CatalogSpec => PublishesWholeSnapshots
<1>1. CatalogInit => Promise!PublishedInit
  BY DEF CatalogInit, Promise!PublishedInit, Shown, NoTables
<1>2. CatalogInv /\ [CatalogNext]_catalogVars =>
          [Promise!PublishedNext]_(Promise!publishedVars)
  BY StepPublishes
<1> QED
  BY <1>1, <1>2, CatalogInductive, PTL
     DEF CatalogSpec, PublishesWholeSnapshots, Promise!PublishedSpec

\* Whole snapshots are published, over a history that is never taken back.
THEOREM PublishesItsHistory == CatalogSpec => PublishesHistory
<1> QED
  BY StaysResolvable, ImplementsPublication, PTL DEF PublishesHistory

--------
(* The inductive invariant.                                                *)

\* What was listed are the first printings of the list.
ListedOf(q, whole) ==
    /\ Len(q.listed) <= Len(whole)
    /\ \A n \in 1 .. Len(q.listed) : q.listed[n] = whole[n].printing

\* The first k printings of the list do not match.
NoMatch(q, whole, k) == \A n \in 1 .. k : whole[n].look # q.wanted

\* The printing a lookup found is the first that matches.
Matched(q, whole) ==
    \E k \in 1 .. Len(whole) :
        /\ whole[k].look = q.wanted /\ q.printing = whole[k].printing
        /\ NoMatch(q, whole, k - 1)

\* The facts a lookup answered with are those of the revision.
FactsOf(q) ==
    [card |-> q.card, facts |-> q.facts] \in Promise!Declared(history[q.revision]).cards

Started(q) ==
    /\ q.revision \in 1 .. Len(history)
    /\ LET whole == Published(q.revision, q.card)
       IN  /\ ListedOf(q, whole)
           /\ q.at = "paging" =>
                 /\ Len(q.listed) = q.offset
                 /\ NoMatch(q, whole, q.offset)
           /\ q.at = "listed" => Len(q.listed) = Len(whole)
           /\ q.at = "absent" => NoMatch(q, whole, Len(whole))
           /\ q.at \in {"card", "found"} => Matched(q, whole)
           /\ q.at = "found" => FactsOf(q)

Unstarted(q) ==
    /\ q.revision = 0 /\ q.listed = <<>> /\ q.offset = 0
    /\ q.at \in {"idle", "paging", "stale", "unavailable"}

ReaderInv == \A r \in Readers : Unstarted(reader[r]) \/ Started(reader[r])

ReadsInv == CatalogInv /\ TypeOK /\ ReaderInv

--------
(* A printing list.                                                        *)

\* A list of the printings of T, each once and each before the next.
InOrder(l) == \A i, j \in DOMAIN l : i < j => Before(l[i], l[j])

\* Printings with one look each are before or after one another.
Ranked(T) ==
    \A p, q \in T : p.look \in Int /\ p.printing \in Int /\ (p.printing = q.printing => p = q)

LEMMA BeforeIsTotal ==
    ASSUME NEW T, Ranked(T), NEW p \in T, NEW q \in T, p # q
    PROVE  Before(p, q) \/ Before(q, p)
<1>1. /\ p.look \in Int /\ p.printing \in Int /\ q.look \in Int /\ q.printing \in Int
      /\ p.printing # q.printing
  BY DEF Ranked
<1> QED
  BY <1>1 DEF Before

LEMMA BeforeIsTransitive ==
    ASSUME NEW T, Ranked(T), NEW p \in T, NEW q \in T, NEW r \in T, Before(p, q), Before(q, r)
    PROVE  Before(p, r)
<1>1. /\ p.look \in Int /\ p.printing \in Int /\ q.look \in Int /\ q.printing \in Int
      /\ r.look \in Int /\ r.printing \in Int
  BY DEF Ranked
<1> QED
  BY <1>1 DEF Before

\* One more printing has its place in an ordered list.
LEMMA InsertedInOrder ==
    ASSUME NEW T, Ranked(T), NEW x \in T, NEW n \in Nat,
           NEW l \in [1 .. n -> T \ {x}], InOrder(l),
           \A i, j \in 1 .. n : i # j => l[i] # l[j]
    PROVE  \E f \in [1 .. n + 1 -> T] :
              /\ InOrder(f)
              /\ \A i, j \in 1 .. n + 1 : i # j => f[i] # f[j]
<1> DEFINE K == {i \in 1 .. n : Before(l[i], x)} \cup {0}
           k == Max(K)
<1>1. k \in 0 .. n /\ (k # 0 => Before(l[k], x)) /\ \A i \in 1 .. n : i > k => ~Before(l[i], x)
  <2>1. K \in SUBSET Nat /\ K # {} /\ \A i \in K : i <= n
    OBVIOUS
  <2>2. k \in K /\ \A i \in K : i <= k
    <3> HIDE DEF K
    <3> QED
      BY <2>1, BoundedMax
  <2>3. k \in 0 .. n
    BY <2>1, <2>2
  <2>4. \A i \in 1 .. n : Before(l[i], x) => i \in K
    OBVIOUS
  <2>5. k # 0 => Before(l[k], x)
    BY <2>2
  <2> HIDE DEF K, k
  <2> QED
    BY <2>2, <2>3, <2>4, <2>5
<1> HIDE DEF k
<1> DEFINE f == [i \in 1 .. n + 1 |-> IF i <= k THEN l[i] ELSE IF i = k + 1 THEN x ELSE l[i - 1]]
<1>2. ASSUME NEW i \in 1 .. n + 1
      PROVE  /\ f[i] = IF i <= k THEN l[i] ELSE IF i = k + 1 THEN x ELSE l[i - 1]
             /\ i <= k => i \in 1 .. n
             /\ ~(i <= k) /\ i # k + 1 => i - 1 \in 1 .. n /\ i - 1 > k
  BY <1>1
<1>3. \A i \in 1 .. n : l[i] \in T /\ l[i] # x
  OBVIOUS
<1>4. f \in [1 .. n + 1 -> T] /\ DOMAIN f = 1 .. n + 1
  BY <1>2, <1>3
<1> HIDE DEF f
<1>5. ASSUME NEW i \in 1 .. n + 1, NEW j \in 1 .. n + 1, i < j
      PROVE  Before(f[i], f[j]) /\ f[i] # f[j]
  <2>0. \A a, b \in 1 .. n : a < b => Before(l[a], l[b]) /\ l[a] # l[b]
    BY DEF InOrder
  <2>1. CASE j <= k
    BY <2>0, <2>1, <1>1, <1>2, <1>5
  <2>2. CASE i <= k /\ j = k + 1
    <3>1. f[i] = l[i] /\ f[j] = x /\ i \in 1 .. n /\ k \in 1 .. n
      BY <2>2, <1>1, <1>2
    <3>2. Before(l[i], x)
      <4>1. CASE i = k
        BY <4>1, <3>1, <1>1
      <4>2. CASE i < k
        <5>1. Before(l[i], l[k]) /\ Before(l[k], x)
          BY <4>2, <3>1, <2>0, <1>1
        <5> QED
          BY <5>1, <3>1, <1>3, BeforeIsTransitive
      <4> QED
        BY <4>1, <4>2, <2>2, <1>1
    <3> QED
      BY <3>1, <3>2, <1>3
  <2>3. CASE i <= k /\ j > k + 1
    <3>1. f[i] = l[i] /\ f[j] = l[j - 1] /\ i \in 1 .. n /\ j - 1 \in 1 .. n /\ i < j - 1
      BY <2>3, <1>1, <1>2
    <3> QED
      BY <3>1, <2>0
  <2>4. CASE i = k + 1 /\ j > k + 1
    <3>1. f[i] = x /\ f[j] = l[j - 1] /\ j - 1 \in 1 .. n /\ j - 1 > k
      BY <2>4, <1>1, <1>2
    <3>2. ~Before(l[j - 1], x) /\ l[j - 1] # x /\ l[j - 1] \in T
      BY <3>1, <1>1, <1>3
    <3>3. Before(x, l[j - 1])
      BY <3>2, BeforeIsTotal
    <3> QED
      BY <3>1, <3>2, <3>3
  <2>5. CASE i > k + 1
    <3>1. f[i] = l[i - 1] /\ f[j] = l[j - 1] /\ i - 1 \in 1 .. n /\ j - 1 \in 1 .. n
          /\ i - 1 < j - 1
      BY <2>5, <1>1, <1>2, <1>5
    <3> QED
      BY <3>1, <2>0
  <2> QED
    BY <2>1, <2>2, <2>3, <2>4, <2>5, <1>1, <1>5
<1>6. InOrder(f)
  BY <1>4, <1>5 DEF InOrder
<1>7. \A i, j \in 1 .. n + 1 : i # j => f[i] # f[j]
  <2> SUFFICES ASSUME NEW i \in 1 .. n + 1, NEW j \in 1 .. n + 1, i # j PROVE f[i] # f[j]
    OBVIOUS
  <2>1. i < j \/ j < i
    OBVIOUS
  <2> QED
    BY <2>1, <1>5
<1> QED
  BY <1>4, <1>6, <1>7

\* Every finite set of ranked printings has an ordered list.
LEMMA OrderedListExists ==
    ASSUME NEW T, IsFiniteSet(T), Ranked(T)
    PROVE  \E l \in SetToSeqs(T) : InOrder(l)
<1> DEFINE Has(S) == \E l \in SetToSeqs(S) : InOrder(l)
           Bad == {n \in Nat : \E S \in SUBSET T : Cardinality(S) = n /\ ~Has(S)}
           Less == {ss \in Nat \X Nat : ss[1] < ss[2]}
<1>0. ASSUME NEW S
      PROVE  SetToSeqs(S) =
                 {f \in [1 .. Cardinality(S) -> S] :
                     \A i, j \in 1 .. Cardinality(S) : i # j => f[i] # f[j]}
  BY DEF SetToSeqs
<1>1. ASSUME NEW S \in SUBSET T
      PROVE  IsFiniteSet(S) /\ Cardinality(S) \in Nat /\ Ranked(S)
  BY FS_Subset, FS_CardinalityType DEF Ranked
<1>2. SUFFICES ASSUME ~Has(T) PROVE FALSE
  OBVIOUS
<1>3. Bad \subseteq Nat /\ Bad # {}
  <2>1. Cardinality(T) \in Bad
    BY <1>1, <1>2
  <2> QED
    BY <2>1
<1>4. IsWellFoundedOn(Less, Nat)
  BY NatLessThanWellFounded DEF OpToRel
<1> HIDE DEF Bad, Less
<1>5. PICK n \in Bad : \A m \in Bad : ~(<<m, n>> \in Less)
  BY <1>3, <1>4, WFMin
<1>6. n \in Nat /\ \A m \in Nat : m < n => m \notin Bad
  BY <1>3, <1>5 DEF Less
<1> HIDE DEF Has
<1>7. PICK S \in SUBSET T : Cardinality(S) = n /\ ~Has(S)
  BY DEF Bad
<1>8. CASE n = 0
  <2>1. S = {}
    BY <1>1, <1>7, <1>8, FS_EmptySet
  <2> DEFINE f == [i \in 1 .. 0 |-> i]
  <2>2. f \in [1 .. 0 -> S] /\ \A i \in 1 .. 0 : FALSE
    OBVIOUS
  <2>3. DOMAIN f = 1 .. 0
    OBVIOUS
  <2> HIDE DEF f
  <2>4. f \in SetToSeqs(S) /\ InOrder(f)
    BY <2>2, <2>3, <1>0, <1>7, <1>8 DEF InOrder
  <2> QED
    BY <2>4, <1>7 DEF Has
<1>9. CASE n # 0
  <2>1. PICK x \in S : TRUE
    BY <1>7, <1>9, FS_EmptySet
  <2> DEFINE R == S \ {x}
             m == n - 1
  <2>2. m \in Nat /\ m < n /\ m + 1 = n
    BY <1>6, <1>9
  <2>3. Cardinality(R) = m
    BY <1>1, <1>7, <2>1, FS_RemoveElement
  <2>4. Has(R)
    <3>1. R \in SUBSET T
      OBVIOUS
    <3> HIDE DEF R, m
    <3> QED
      BY <1>6, <2>2, <2>3, <3>1 DEF Bad
  <2> HIDE DEF m
  <2>5. PICK l \in [1 .. m -> R] :
            InOrder(l) /\ \A i, j \in 1 .. m : i # j => l[i] # l[j]
    BY <1>0, <2>3, <2>4 DEF Has
  <2>6. Ranked(S) /\ x \in S
    BY <1>1, <2>1
  <2>7. PICK f \in [1 .. m + 1 -> S] :
            InOrder(f) /\ \A i, j \in 1 .. m + 1 : i # j => f[i] # f[j]
    BY <2>2, <2>5, <2>6, InsertedInOrder
  <2>8. f \in SetToSeqs(S)
    BY <1>0, <1>7, <2>2, <2>7
  <2> QED
    BY <2>7, <2>8, <1>7 DEF Has
<1> QED
  BY <1>8, <1>9

\* What a snapshot declares of its printings: one look each, and their cards.
LEMMA DeclaredPrintings ==
    ASSUME NEW v \in Versions
    PROVE  /\ IsFiniteSet(Promise!Declared(v).printings)
           /\ Ranked(Promise!Declared(v).printings)
           /\ \A p \in Promise!Declared(v).printings :
                 /\ p.printing \in Printings
                 /\ \E e \in Promise!Declared(v).cards : e.card = p.card
<1> DEFINE records == Snapshot[v]
           lastOfP(p) == {n \in DOMAIN records : records[n].printing = p
                            /\ \A k \in DOMAIN records : records[k].printing = p => k <= n}
           cardAt(c) == CHOOSE n \in {n \in DOMAIN records : records[n].card = c
                            /\ \A k \in DOMAIN records : records[k].card = c => k <= n} : TRUE
           printingAt(p) == CHOOSE n \in lastOfP(p) : TRUE
           named == {records[n].printing : n \in DOMAIN records}
           cards == {records[n].card : n \in DOMAIN records}
           member(p) == [printing |-> p, card |-> records[printingAt(p)].card,
                         look |-> records[printingAt(p)].look]
           cardMember(c) == [card |-> c, facts |-> records[cardAt(c)].facts]
           names == UNION {{[card |-> records[n].card, name |-> a] : a \in records[n].names} :
                              n \in DOMAIN records}
           D == {member(p) : p \in named}
           C == {cardMember(c) : c \in cards}
<1>1. Promise!Declared(v) = [cards |-> C, names |-> names, printings |-> D]
  BY DeclaredMembers
<1>2. Promise!Declared(v).cards = C /\ Promise!Declared(v).printings = D
  BY <1>1
<1>3. records \in Seq(Records) /\ Len(records) \in Nat /\ DOMAIN records = 1 .. Len(records)
  <2>1. records \in Seq(Records)
    BY CatalogAssumption
  <2> HIDE DEF records
  <2> QED
    BY <2>1
<1>4. \A p : member(p).printing = p
  OBVIOUS
<1>5. \A c : cardMember(c).card = c
  OBVIOUS
<1>6. ASSUME NEW p \in named
      PROVE  /\ p \in Printings /\ member(p).look \in Int
             /\ member(p).card \in cards
  <2> DEFINE S == {n \in DOMAIN records : records[n].printing = p}
  <2>1. S \in SUBSET Nat /\ S # {} /\ \A n \in S : n <= Len(records)
    BY <1>3
  <2>2. Max(S) \in S /\ \A n \in S : n <= Max(S)
    <3> HIDE DEF S
    <3> QED
      BY <1>3, <2>1, BoundedMax
  <2>3. Max(S) \in lastOfP(p)
    BY <2>2
  <2>4. printingAt(p) \in lastOfP(p)
    BY <2>3
  <2> DEFINE i == printingAt(p)
  <2>5. i \in DOMAIN records /\ records[i].printing = p
    BY <2>4
  <2>6. member(p).card = records[i].card /\ member(p).look = records[i].look
    OBVIOUS
  <2> HIDE DEF i, member, printingAt, lastOfP, S
  <2>7. records[i] \in Records /\ records[i].card \in cards
    BY <1>3, <2>5
  <2>8. records[i].printing \in Printings /\ records[i].look \in Looks
    BY <2>7 DEF Records
  <2> QED
    BY <2>5, <2>6, <2>7, <2>8, OrderAssumption
<1>7. IsFiniteSet(D)
  <2> DEFINE f == [n \in DOMAIN records |-> member(records[n].printing)]
  <2>1. f \in Surjection(DOMAIN records, D)
    <3> HIDE DEF member
    <3> QED
      BY DEF Surjection
  <2>2. IsFiniteSet(DOMAIN records)
    <3> HIDE DEF records
    <3>1. IsFiniteSet(1 .. Len(records))
      BY <1>3, FS_Interval
    <3> QED
      BY <1>3, <3>1
  <2> HIDE DEF f, D, records
  <2> QED
    BY <2>1, <2>2, FS_Surjection
<1> HIDE DEF member, cardMember, named, cards
<1>8. Ranked(D)
  BY <1>4, <1>6, OrderAssumption DEF Ranked
<1>9. \A p \in D : p.printing \in Printings /\ \E e \in C : e.card = p.card
  BY <1>4, <1>5, <1>6
<1> QED
  BY <1>2, <1>7, <1>8, <1>9

\* A list is a list of the card's printings.
LEMMA ListingFacts ==
    ASSUME NEW S, IsFiniteSet(S), Ranked(S), NEW c, NEW l, l = Listing(S, c)
    PROVE  /\ l \in Seq(S) /\ Len(l) \in Nat /\ DOMAIN l = 1 .. Len(l)
           /\ \A n \in 1 .. Len(l) : l[n] \in S /\ l[n].card = c
<1> DEFINE T == {p \in S : p.card = c}
<1>1. IsFiniteSet(T) /\ Ranked(T) /\ Cardinality(T) \in Nat
  BY FS_Subset, FS_CardinalityType DEF Ranked
<1>2. l = CHOOSE f \in SetToSeqs(T) : InOrder(f)
  BY DEF Listing, InOrder
<1>3. \A p \in T : p \in S /\ p.card = c
  OBVIOUS
<1> HIDE DEF T
<1>4. l \in SetToSeqs(T)
  BY <1>1, <1>2, OrderedListExists
<1>5. l \in [1 .. Cardinality(T) -> T]
  BY <1>4 DEF SetToSeqs
<1>6. l \in Seq(T)
  BY <1>1, <1>5
<1> QED
  BY <1>3, <1>6

\* The list of a published revision, which no later revision changes.
LEMMA PublishedFacts ==
    ASSUME CatalogInv, NEW n \in 1 .. Len(history), NEW c, NEW l, l = Published(n, c)
    PROVE  /\ l \in Seq(Promise!Declared(history[n]).printings)
           /\ Len(l) \in Nat /\ DOMAIN l = 1 .. Len(l)
           /\ \A i \in 1 .. Len(l) :
                 /\ l[i].card = c /\ l[i].printing \in Printings
                 /\ \E e \in Promise!Declared(history[n]).cards : e.card = c
<1>1. history[n] \in Versions
  BY DEF CatalogInv, CatalogTypeOK
<1> DEFINE S == Promise!Declared(history[n]).printings
<1>2. /\ IsFiniteSet(S) /\ Ranked(S)
      /\ \A p \in S : /\ p.printing \in Printings
                      /\ \E e \in Promise!Declared(history[n]).cards : e.card = p.card
  BY <1>1, DeclaredPrintings
<1>3. l = Listing(S, c)
  BY DEF Published
<1> HIDE DEF S
<1>4. /\ l \in Seq(S) /\ Len(l) \in Nat /\ DOMAIN l = 1 .. Len(l)
      /\ \A i \in 1 .. Len(l) : l[i] \in S /\ l[i].card = c
  BY <1>2, <1>3, ListingFacts
<1> QED
  BY <1>2, <1>4 DEF S

--------
(* What publications leave of a reader, and what a page adds to it.        *)

\* Publications only add to the history.
LEMMA HistoryGrows ==
    ASSUME CatalogInv, [CatalogNext]_catalogVars
    PROVE  /\ Len(history) \in Nat /\ Len(history') \in Nat /\ Len(history) <= Len(history')
           /\ \A n \in 1 .. Len(history) : history'[n] = history[n]
<1>1. history \in Seq(Versions) /\ Len(history) \in Nat
  BY DEF CatalogInv, CatalogTypeOK
<1>2. CASE history' = history
  BY <1>1, <1>2
<1>3. ASSUME NEW v \in Versions, history' = Append(history, v)
      PROVE  /\ Len(history') = Len(history) + 1
             /\ \A n \in 1 .. Len(history) : history'[n] = history[n]
  BY <1>1, <1>3, AppendProperties
<1>4. CASE /\ Publishable(draft, stored, history)
           /\ history' = Append(history, draft.revision.version)
  <2>1. draft.revision.version \in Versions
    BY <1>4 DEF Publishable, WholeOf
  <2> QED
    BY <1>1, <1>3, <1>4, <2>1
<1> QED
  BY <1>2, <1>4, OnlyCommitsPublish

\* A reader keeps what it has while the history grows.
LEMMA ReadersKept ==
    ASSUME CatalogInv, [CatalogNext]_catalogVars, ReaderInv, UNCHANGED reader
    PROVE  ReaderInv'
<1> SUFFICES ASSUME NEW r \in Readers, Started(reader[r])
             PROVE  Started(reader[r])'
  BY DEF ReaderInv, Unstarted
<1>1. /\ Len(history) \in Nat /\ Len(history') \in Nat /\ Len(history) <= Len(history')
      /\ \A n \in 1 .. Len(history) : history'[n] = history[n]
  BY HistoryGrows
<1>2. reader[r].revision \in 1 .. Len(history)
  BY DEF Started
<1>3. /\ reader[r].revision \in 1 .. Len(history')
      /\ history'[reader[r].revision] = history[reader[r].revision]
  BY <1>1, <1>2
<1>4. Published(reader[r].revision, reader[r].card)'
          = Published(reader[r].revision, reader[r].card)
  BY <1>3 DEF Published
<1>5. FactsOf(reader[r])' <=> FactsOf(reader[r])
  BY <1>3 DEF FactsOf
<1>6. reader'[r] = reader[r]
  OBVIOUS
<1> QED
  BY <1>3, <1>4, <1>5, <1>6 DEF Started, ListedOf, NoMatch, Matched

\* The committed tables list what the last published revision declared.
LEMMA StoredListing ==
    ASSUME CatalogInv, stored.revision # None
    PROVE  /\ Len(history) \in 1 .. MaxRevisions /\ stored.revision.id = Len(history)
           /\ View(stored) = Promise!Declared(history[Len(history)])
           /\ \A c : Listing(View(stored).printings, c) = Published(Len(history), c)
<1>1. /\ history \in Seq(Versions) /\ Len(history) <= MaxRevisions
      /\ stored.revision = LastRevision(history) /\ WholeOf(stored, stored.revision.version)
  BY DEF CatalogInv, CatalogTypeOK, RevisionsKnown, StoredWhole
<1>2. history # <<>> /\ stored.revision = [id |-> Len(history), version |-> history[Len(history)]]
  BY <1>1 DEF LastRevision
<1>3. Len(history) \in 1 .. MaxRevisions
  BY <1>1, <1>2, EmptySeq, CatalogAssumption
<1>4. View(stored) = Promise!Declared(history[Len(history)])
  BY <1>1, <1>2 DEF WholeOf
<1> QED
  BY <1>2, <1>3, <1>4 DEF Published

LEMMA LeastOf ==
    ASSUME NEW S \in SUBSET Nat, NEW x \in S
    PROVE  Min(S) \in S /\ \A y \in S : Min(S) <= y
<1> DEFINE Less == {ss \in Nat \X Nat : ss[1] < ss[2]}
<1>1. IsWellFoundedOn(Less, Nat)
  BY NatLessThanWellFounded DEF OpToRel
<1> HIDE DEF Less
<1>2. PICK n \in S : \A m \in S : ~(<<m, n>> \in Less)
  BY <1>1, WFMin
<1>3. ASSUME NEW m \in S PROVE n <= m
  <2>1. m \in Nat /\ n \in Nat /\ ~(m < n)
    BY <1>2 DEF Less
  <2> QED
    BY <2>1
<1> QED
  BY <1>2, <1>3 DEF Min

\* The page at an offset of a list, and the offset after it.
Paged(all, o, k, page) ==
    /\ k \in o .. Len(all) /\ DOMAIN page = 1 .. k - o
    /\ \A n \in 1 .. k - o : o + n \in 1 .. Len(all) /\ page[n] = all[o + n]
    /\ Len(all) > o + PageSize => k = o + PageSize
    /\ ~(Len(all) > o + PageSize) => k = Len(all)

\* The page at an offset that is not beyond the list.
LEMMA PageFacts ==
    ASSUME NEW S, NEW all \in Seq(S), NEW o \in Nat, o <= Len(all)
    PROVE  LET k == Min({o + PageSize, Len(all)})
           IN  Paged(all, o, k, SubSeq(all, o + 1, k))
<1> DEFINE k == Min({o + PageSize, Len(all)})
           page == SubSeq(all, o + 1, k)
<1>0. k = Min({o + PageSize, Len(all)}) /\ page = SubSeq(all, o + 1, k)
  OBVIOUS
<1> SUFFICES Paged(all, o, k, page)
  OBVIOUS
<1> HIDE DEF k, page
<1>1. Len(all) \in Nat /\ PageSize \in Nat \ {0}
  BY PageAssumption
<1>2. k = IF Len(all) > o + PageSize THEN o + PageSize ELSE Len(all)
  <2> DEFINE S2 == {o + PageSize, Len(all)}
  <2>1. S2 \in SUBSET Nat /\ Len(all) \in S2 /\ o + PageSize \in S2
    BY <1>1
  <2>2. k \in S2 /\ \A y \in S2 : k <= y
    <3> HIDE DEF S2
    <3>1. Min(S2) \in S2 /\ \A y \in S2 : Min(S2) <= y
      BY <2>1, LeastOf
    <3> QED
      BY <1>0, <3>1 DEF S2
  <2> QED
    BY <1>1, <2>2
<1>3. k \in o .. Len(all)
  BY <1>1, <1>2
<1>4. /\ Len(page) = k - o /\ page \in Seq(S)
      /\ \A n \in 1 .. k - o : page[n] = all[o + n]
  <2>0. \A i \in 1 .. Len(all) : all[i] \in S
    OBVIOUS
  <2>1. o + 1 \in Int /\ k \in Int /\ \A i \in o + 1 .. k : i \in 1 .. Len(all)
    <3> DEFINE m == Len(all)
    <3>1. m \in Nat /\ o \in Nat /\ k \in o .. m
      BY <1>1, <1>3
    <3> HIDE DEF m
    <3>2. o + 1 \in Int /\ k \in Int /\ \A i \in o + 1 .. k : i \in 1 .. m
      BY ONLY <3>1
    <3> QED
      BY <3>2 DEF m
  <2>2. /\ page \in Seq(S)
        /\ Len(page) = IF o + 1 <= k THEN k - (o + 1) + 1 ELSE 0
        /\ \A i \in 1 .. k - (o + 1) + 1 : page[i] = all[o + 1 + i - 1]
    <3> DEFINE m == o + 1
    <3>1. m \in Int /\ k \in Int /\ \A i \in m .. k : all[i] \in S
      BY <2>0, <2>1
    <3>2. page = SubSeq(all, m, k)
      BY <1>0
    <3> HIDE DEF m
    <3>3. /\ page \in Seq(S)
          /\ Len(page) = IF m <= k THEN k - m + 1 ELSE 0
          /\ \A i \in 1 .. k - m + 1 : page[i] = all[m + i - 1]
      BY ONLY <3>1, <3>2, SubSeqProperties
    <3> QED
      BY <3>3 DEF m
  <2>3. /\ (IF o + 1 <= k THEN k - (o + 1) + 1 ELSE 0) = k - o /\ k - (o + 1) + 1 = k - o
        /\ \A i \in 1 .. k - o : o + 1 + i - 1 = o + i
    BY <1>1, <1>3
  <2> QED
    BY <2>2, <2>3
<1>5. DOMAIN page = 1 .. k - o
  BY <1>4
<1>6. \A n \in 1 .. k - o : o + n \in 1 .. Len(all)
  BY <1>1, <1>3
<1>7. /\ Len(all) > o + PageSize => k = o + PageSize
      /\ ~(Len(all) > o + PageSize) => k = Len(all)
  BY <1>2
<1> QED
  BY <1>3, <1>4, <1>5, <1>6, <1>7 DEF Paged

--------
(* The readers' steps.                                                     *)

\* A reader after one more page, before it turns to what the page showed.
Reached(q, v, o, l) == [q EXCEPT !.revision = v, !.token = v, !.offset = o, !.listed = l]

LEMMA ReachedFields ==
    ASSUME NEW q \in Reading, NEW v \in 0 .. MaxRevisions, NEW o \in Nat,
           NEW l \in Seq(Printings), NEW x, x = Reached(q, v, o, l)
    PROVE  /\ x \in Reading /\ x.revision = v /\ x.token = v /\ x.offset = o /\ x.listed = l
           /\ x.at = q.at /\ x.card = q.card /\ x.wanted = q.wanted
<1>1. /\ x.revision = v /\ x.token = v /\ x.offset = o /\ x.listed = l
      /\ x.at = q.at /\ x.card = q.card /\ x.wanted = q.wanted
  BY DEF Reached, Reading
<1>2. x \in Reading
  BY DEF Reached, Reading
<1> QED
  BY <1>1, <1>2

LEMMA TurnedFields ==
    ASSUME NEW q \in Reading, NEW x,
           NEW a \in {"idle", "paging", "card", "listed", "found", "absent", "stale", "unavailable"},
           x = [q EXCEPT !.at = a]
    PROVE  /\ x \in Reading /\ x.at = a
           /\ x.revision = q.revision /\ x.token = q.token /\ x.offset = q.offset
           /\ x.listed = q.listed /\ x.card = q.card /\ x.wanted = q.wanted
           /\ x.printing = q.printing /\ x.facts = q.facts
BY DEF Reading

LEMMA FoundFields ==
    ASSUME NEW q \in Reading, NEW x, NEW p \in Printings,
           x = [q EXCEPT !.at = "card", !.printing = p]
    PROVE  /\ x \in Reading /\ x.at = "card" /\ x.printing = p
           /\ x.revision = q.revision /\ x.token = q.token /\ x.offset = q.offset
           /\ x.listed = q.listed /\ x.card = q.card /\ x.wanted = q.wanted
BY DEF Reading

LEMMA AnsweredFields ==
    ASSUME NEW q \in Reading, NEW x, NEW f \in Facts,
           x = [q EXCEPT !.at = "found", !.facts = f]
    PROVE  /\ x \in Reading /\ x.at = "found" /\ x.facts = f
           /\ x.revision = q.revision /\ x.token = q.token /\ x.offset = q.offset
           /\ x.listed = q.listed /\ x.card = q.card /\ x.wanted = q.wanted
           /\ x.printing = q.printing
BY DEF Reading

\* One reader's step is enough: the rest of a step is unchanged.
LEMMA ReaderStep ==
    ASSUME ReadsInv, UNCHANGED catalogVars, NEW r \in Readers, NEW x \in Reading,
           x.token = x.revision, Unstarted(x) \/ Started(x),
           reader' = [reader EXCEPT ![r] = x]
    PROVE  ReadsInv'
<1>1. CatalogInv'
  BY StepCatalogInv DEF ReadsInv
<1>2. history' = history
  BY DEF catalogVars
<1>3. \A s \in Readers : reader'[s] = IF s = r THEN x ELSE reader[s]
  BY DEF ReadsInv, TypeOK
<1>4. TypeOK'
  BY <1>1, <1>3 DEF ReadsInv, TypeOK, CatalogInv
<1>5. ASSUME NEW y, NEW s \in Readers, reader'[s] = y
      PROVE  /\ Unstarted(y) => Unstarted(reader[s])'
             /\ Started(y) => Started(reader[s])'
  <2>2. FactsOf(reader[s])' <=> FactsOf(y)
    BY <1>2, <1>5 DEF FactsOf
  <2>3. Published(reader[s].revision, reader[s].card)' = Published(y.revision, y.card)
    BY <1>5, <1>2 DEF Published
  <2>4. Started(y) => Started(reader[s])'
    BY <1>2, <1>5, <2>2, <2>3, SMTT(40) DEF Started, ListedOf, NoMatch, Matched
  <2>5. Unstarted(y) => Unstarted(reader[s])'
    BY <1>5 DEF Unstarted
  <2> QED
    BY <2>4, <2>5
<1>6. ASSUME NEW s \in Readers
      PROVE  Unstarted(reader[s])' \/ Started(reader[s])'
  <2>1. CASE s = r
    BY <2>1, <1>3, <1>5
  <2>2. CASE s # r
    <3>1. Unstarted(reader[s]) \/ Started(reader[s])
      BY DEF ReadsInv, ReaderInv
    <3> QED
      BY <2>2, <3>1, <1>3, <1>5
  <2> QED
    BY <2>1, <2>2
<1> QED
  BY <1>1, <1>4, <1>6 DEF ReadsInv, ReaderInv

\* A read that stops keeps what it has.
LEMMA StopsAsIs ==
    ASSUME ReadsInv, UNCHANGED catalogVars, NEW r \in Readers,
           NEW a \in {"stale", "unavailable"}, Finishes(r, a)
    PROVE  ReadsInv'
<1> DEFINE q == reader[r]
           x == [q EXCEPT !.at = a]
<1>1. q \in Reading /\ q.token = q.revision /\ (Unstarted(q) \/ Started(q))
  BY DEF ReadsInv, TypeOK, ReaderInv
<1>2. reader' = [reader EXCEPT ![r] = x]
  BY DEF Finishes
<1> HIDE DEF q, x
<1>3. /\ x \in Reading /\ x.at = a
      /\ x.revision = q.revision /\ x.token = q.token /\ x.offset = q.offset
      /\ x.listed = q.listed /\ x.card = q.card /\ x.wanted = q.wanted
  BY <1>1, TurnedFields DEF x
<1>4. Unstarted(q) => Unstarted(x)
  BY <1>3 DEF Unstarted
<1>5. Started(q) => Started(x)
  BY <1>3 DEF Started, ListedOf
<1> QED
  BY <1>1, <1>2, <1>3, <1>4, <1>5, ReaderStep

LEMMA StartStep ==
    ASSUME ReadsInv, NEW r \in Readers, NEW c \in Cards, NEW wanted \in Looks \cup {None},
           Start(r, c, wanted)
    PROVE  ReadsInv'
<1> DEFINE x == [at |-> "paging", card |-> c, wanted |-> wanted, offset |-> 0, token |-> 0,
                 revision |-> 0, listed |-> <<>>, printing |-> None, facts |-> None]
<1>1. x \in Reading
  BY CatalogAssumption, EmptySeq DEF Reading
<1>2. reader' = [reader EXCEPT ![r] = x] /\ UNCHANGED catalogVars
  BY DEF Start
<1>3. Unstarted(x) /\ x.token = x.revision
  BY DEF Unstarted
<1> HIDE DEF x
<1> QED
  BY <1>1, <1>2, <1>3, ReaderStep

\* The list a page continues, and what it has of it.
LEMMA PageListed ==
    ASSUME CatalogInv, NEW q \in Reading, NEW all, NEW k, NEW page,
           q.at = "paging", Unstarted(q) \/ Started(q),
           stored.revision # None, q.revision \in {0, Len(history)},
           all = Published(Len(history), q.card),
           k = Min({q.offset + PageSize, Len(all)}), page = SubSeq(all, q.offset + 1, k)
    PROVE  /\ Len(history) \in 1 .. MaxRevisions
           /\ ListedOf(q, all) /\ Len(q.listed) = q.offset /\ q.offset \in Nat
           /\ NoMatch(q, all, q.offset)
           /\ q.offset <= Len(all) /\ Len(all) \in Nat
           /\ \A n \in 1 .. Len(all) : all[n].printing \in Printings
           /\ Paged(all, q.offset, k, page)
<1>1. Len(history) \in 1 .. MaxRevisions
  BY StoredListing
<1>2. Len(history) \in 1 .. Len(history)
  BY <1>1
<1>3. /\ all \in Seq(Promise!Declared(history[Len(history)]).printings)
      /\ Len(all) \in Nat /\ \A n \in 1 .. Len(all) : all[n].printing \in Printings
  BY <1>2, PublishedFacts
<1>4. q.offset \in Nat
  BY DEF Reading
<1>5. /\ ListedOf(q, all) /\ Len(q.listed) = q.offset
      /\ NoMatch(q, all, q.offset)
  <2>1. CASE Unstarted(q)
    <3>1. q.listed = <<>> /\ q.offset = 0 /\ Len(q.listed) = 0
      BY <2>1 DEF Unstarted
    <3> QED
      BY <1>3, <3>1 DEF ListedOf, NoMatch
  <2>2. CASE Started(q)
    <3>1. q.revision = Len(history)
      BY <1>1, <2>2 DEF Started, Unstarted
    <3> QED
      BY <2>2, <3>1 DEF Started
  <2> QED
    BY <2>1, <2>2
<1>6. q.offset <= Len(all)
  BY <1>5 DEF ListedOf
<1>7. Paged(all, q.offset, k, page)
  <2> DEFINE o == q.offset
             S == Promise!Declared(history[Len(history)]).printings
  <2>1. /\ all \in Seq(S) /\ o \in Nat /\ o <= Len(all)
        /\ k = Min({o + PageSize, Len(all)}) /\ page = SubSeq(all, o + 1, k)
    BY <1>3, <1>4, <1>6
  <2> HIDE DEF o, S
  <2>2. Paged(all, o, k, page)
    BY ONLY <2>1, PageFacts
  <2> QED
    BY <2>2 DEF o
<1> QED
  BY <1>1, <1>3, <1>4, <1>5, <1>6, <1>7

\* After a page more of the list is held, and what the page has is settled.
LEMMA PageHeld ==
    ASSUME NEW q, NEW x, NEW all, NEW o \in Nat, NEW k, NEW page,
           q.listed \in Seq(Printings), ListedOf(q, all), Len(q.listed) = o,
           NoMatch(q, all, o), Len(all) \in Nat, Paged(all, o, k, page),
           \A n \in 1 .. Len(all) : all[n].printing \in Printings,
           x.listed = q.listed \o Identities(page), x.wanted = q.wanted
    PROVE  /\ Identities(page) \in Seq(Printings)
           /\ x.listed \in Seq(Printings) /\ ListedOf(x, all) /\ Len(x.listed) = k
           /\ (\A n \in DOMAIN page : page[n].look # q.wanted) => NoMatch(x, all, k)
           /\ \A m \in DOMAIN page :
                 (\A n \in DOMAIN page : page[n].look = q.wanted => m <= n)
                     => NoMatch(x, all, o + m - 1)
<1> DEFINE t == Identities(page)
           m == k - o
<1>0. /\ m \in Nat /\ k = o + m /\ k \in Nat /\ k <= Len(all) /\ DOMAIN page = 1 .. m
      /\ \A n \in 1 .. m : o + n \in 1 .. Len(all) /\ page[n] = all[o + n]
  BY DEF Paged
<1> HIDE DEF m
<1>1. /\ DOMAIN t = 1 .. m
      /\ \A n \in 1 .. m : t[n] = all[o + n].printing /\ o + n \in 1 .. Len(all)
  BY <1>0 DEF Identities
<1>2. \A n \in 1 .. k : n <= o \/ \E j \in 1 .. m : n = o + j
  <2> SUFFICES ASSUME NEW n \in 1 .. k, ~(n <= o) PROVE \E j \in 1 .. m : n = o + j
    OBVIOUS
  <2>1. n - o \in 1 .. m /\ n = o + (n - o)
    BY <1>0
  <2> QED
    BY <2>1
<1>3. t \in Seq(Printings) /\ Len(t) = m
  <2>1. t = [n \in 1 .. m |-> page[n].printing]
    BY <1>0 DEF Identities
  <2>2. \A n \in 1 .. m : page[n].printing \in Printings
    BY <1>0
  <2> HIDE DEF t
  <2> QED
    BY <2>1, <2>2, <1>0
<1> HIDE DEF t
<1>4. /\ x.listed \in Seq(Printings) /\ Len(x.listed) = o + m
      /\ \A n \in 1 .. o + m : x.listed[n] = IF n <= o THEN q.listed[n] ELSE t[n - o]
  <2> DEFINE s == q.listed
  <2>1. s \in Seq(Printings) /\ Len(s) = o /\ x.listed = s \o t
    BY DEF t
  <2> HIDE DEF s
  <2>2. /\ s \o t \in Seq(Printings) /\ Len(s \o t) = o + m
        /\ \A n \in 1 .. o + m : (s \o t)[n] = IF n <= o THEN s[n] ELSE t[n - o]
    BY ONLY <1>3, <2>1, ConcatProperties
  <2> QED
    BY <2>1, <2>2 DEF s
<1>5. Len(x.listed) = k /\ x.listed \in Seq(Printings)
  BY <1>0, <1>4
<1>6. ASSUME NEW n \in 1 .. k PROVE x.listed[n] = all[n].printing
  <2>1. CASE n <= o
    BY <1>0, <1>4, <2>1 DEF ListedOf
  <2>2. ASSUME NEW j \in 1 .. m, n = o + j
        PROVE  x.listed[n] = all[n].printing
    <3>1. n \in 1 .. o + m /\ ~(n <= o) /\ n - o = j
      BY <1>0, <2>2
    <3>2. x.listed[n] = t[j]
      BY <1>4, <3>1
    <3> QED
      BY <1>1, <2>2, <3>2
  <2> QED
    BY <1>2, <2>1, <2>2
<1>7. ListedOf(x, all)
  BY <1>0, <1>5, <1>6 DEF ListedOf
<1>8. ASSUME NEW n \in 1 .. k, \A j \in 1 .. m : n = o + j => page[j].look # q.wanted
      PROVE  all[n].look # q.wanted
  <2>1. CASE n <= o
    BY <2>1 DEF NoMatch
  <2>2. ASSUME NEW j \in 1 .. m, n = o + j
        PROVE  all[n].look # q.wanted
    BY <1>0, <1>8, <2>2
  <2> QED
    BY <1>2, <2>1, <2>2
<1>9. (\A n \in DOMAIN page : page[n].look # q.wanted) => NoMatch(x, all, k)
  BY <1>0, <1>8 DEF NoMatch
<1>10. ASSUME NEW i \in DOMAIN page,
              \A n \in DOMAIN page : page[n].look = q.wanted => i <= n
       PROVE  NoMatch(x, all, o + i - 1)
  <2> SUFFICES ASSUME NEW n \in 1 .. o + i - 1 PROVE all[n].look # q.wanted
    BY DEF NoMatch
  <2>1. i \in 1 .. m /\ n \in 1 .. k /\ \A j \in 1 .. m : n = o + j => ~(i <= j)
    BY <1>0
  <2>2. \A j \in 1 .. m : n = o + j => page[j].look # q.wanted
    BY <1>0, <1>10, <2>1
  <2> QED
    BY <1>8, <2>1, <2>2
<1> QED
  BY <1>3, <1>5, <1>7, <1>9, <1>10 DEF t

LEMMA ReadPageStep ==
    ASSUME ReadsInv, NEW r \in Readers, ReadPage(r)
    PROVE  ReadsInv'
<1> DEFINE q == reader[r]
           all == Listing(View(stored).printings, q.card)
           k == Min({q.offset + PageSize, Len(all)})
           page == SubSeq(all, q.offset + 1, k)
           more == Len(all) > q.offset + PageSize
           matches == {n \in DOMAIN page : page[n].look = q.wanted}
           v == stored.revision.id
           read == Reached(q, v, q.offset + PageSize, q.listed \o Identities(page))
           x == IF matches # {}
                THEN [read EXCEPT !.at = "card", !.printing = page[Min(matches)].printing]
                ELSE IF more THEN read
                ELSE [read EXCEPT !.at = IF q.wanted = None THEN "listed" ELSE "absent"]
<1>1. /\ q \in Reading /\ q.at = "paging" /\ q.token = q.revision
      /\ CatalogInv /\ UNCHANGED catalogVars
      /\ Unstarted(q) \/ Started(q)
  BY DEF ReadsInv, TypeOK, ReaderInv, ReadPage
<1>2. CASE Finishes(r, "unavailable") \/ Finishes(r, "stale")
  BY <1>1, <1>2, StopsAsIs
<1>3. CASE stored.revision # None /\ ~Stale(q.token) /\ reader' = [reader EXCEPT ![r] = x]
  <2>1. /\ Len(history) \in 1 .. MaxRevisions /\ v = Len(history)
        /\ all = Published(Len(history), q.card)
    BY <1>1, <1>3, StoredListing
  <2>2. q.revision \in {0, Len(history)}
    BY <1>1, <1>3, <2>1 DEF Stale
  <2> HIDE DEF q, all, v
  <2>3. k = Min({q.offset + PageSize, Len(all)}) /\ page = SubSeq(all, q.offset + 1, k)
    OBVIOUS
  <2> HIDE DEF k, page
  <2>4. /\ ListedOf(q, all) /\ Len(q.listed) = q.offset /\ q.offset \in Nat
        /\ NoMatch(q, all, q.offset)
        /\ q.offset <= Len(all) /\ Len(all) \in Nat
        /\ \A n \in 1 .. Len(all) : all[n].printing \in Printings
        /\ Paged(all, q.offset, k, page)
    BY <1>1, <1>3, <2>1, <2>2, <2>3, PageListed
  <2>5. q.listed \in Seq(Printings) /\ q.wanted \in Looks \cup {None}
    BY <1>1 DEF Reading
  <2> DEFINE l == q.listed \o Identities(page)
  <2>6. ASSUME NEW y, y.listed = l, y.wanted = q.wanted
        PROVE  /\ y.listed \in Seq(Printings) /\ ListedOf(y, all) /\ Len(y.listed) = k
               /\ (\A n \in DOMAIN page : page[n].look # q.wanted) => NoMatch(y, all, k)
               /\ \A m \in DOMAIN page :
                     (\A n \in DOMAIN page : page[n].look = q.wanted => m <= n)
                         => NoMatch(y, all, q.offset + m - 1)
    BY <2>4, <2>5, <2>6, PageHeld, ZenonT(60)
  <2>7. /\ read \in Reading /\ read.revision = v /\ read.token = v
        /\ read.offset = q.offset + PageSize /\ read.listed = l
        /\ read.at = q.at /\ read.card = q.card /\ read.wanted = q.wanted
    <3>1. l \in Seq(Printings)
      <4> DEFINE y == [listed |-> l, wanted |-> q.wanted]
      <4>1. y.listed = l /\ y.wanted = q.wanted
        OBVIOUS
      <4> HIDE DEF y, l
      <4> QED
        BY <4>1, <2>6
    <3>2. q.offset + PageSize \in Nat /\ v \in 0 .. MaxRevisions
      BY <2>1, <2>4, PageAssumption
    <3> DEFINE n == q.offset + PageSize
    <3>3. read = Reached(q, v, n, l) /\ n \in Nat /\ q \in Reading
      BY <1>1, <3>2
    <3> HIDE DEF l, n, read
    <3>4. /\ read \in Reading /\ read.revision = v /\ read.token = v
          /\ read.offset = n /\ read.listed = l
          /\ read.at = q.at /\ read.card = q.card /\ read.wanted = q.wanted
      BY <3>1, <3>2, <3>3, ReachedFields
    <3> QED
      BY <3>4 DEF n
  <2>8. k \in q.offset .. Len(all) /\ DOMAIN page = 1 .. k - q.offset
        /\ \A n \in 1 .. k - q.offset :
              q.offset + n \in 1 .. Len(all) /\ page[n] = all[q.offset + n]
    BY <2>4 DEF Paged
  <2>9. v \in 1 .. Len(history) /\ all = Published(v, q.card)
    BY <2>1
  <2> HIDE DEF read, l
  <2>10. CASE matches # {}
    <3> DEFINE m == Min(matches)
               p == page[m].printing
    <3>1. m \in matches /\ \A n \in matches : m <= n
      <4>1. matches \in SUBSET Nat
        BY <2>8
      <4> HIDE DEF matches
      <4> QED
        BY <4>1, <2>10, LeastOf
    <3>2. m \in DOMAIN page /\ page[m].look = q.wanted
          /\ \A n \in DOMAIN page : page[n].look = q.wanted => m <= n
      BY <3>1
    <3> HIDE DEF m
    <3>3. /\ q.offset + m \in 1 .. Len(all) /\ page[m] = all[q.offset + m]
          /\ p \in Printings
      BY <2>4, <2>8, <3>2
    <3>4. x = [read EXCEPT !.at = "card", !.printing = p]
      BY <2>10 DEF m
    <3> HIDE DEF x, p
    <3>5. /\ x \in Reading /\ x.at = "card" /\ x.printing = p
          /\ x.revision = v /\ x.token = v
          /\ x.listed = l /\ x.card = q.card /\ x.wanted = q.wanted
      <4>1. read \in Reading /\ p \in Printings
        BY <2>7, <3>3
      <4>2. /\ x \in Reading /\ x.at = "card" /\ x.printing = p
            /\ x.revision = read.revision /\ x.token = read.token
            /\ x.listed = read.listed /\ x.card = read.card /\ x.wanted = read.wanted
        BY ONLY <3>4, <4>1, FoundFields, ZenonT(60)
      <4> QED
        BY <2>7, <4>2
    <3>6. ListedOf(x, all) /\ NoMatch(x, all, q.offset + m - 1)
      BY <2>6, <3>2, <3>5
    <3>7. Matched(x, all)
      <4> DEFINE i == q.offset + m
      <4>1. i \in 1 .. Len(all) /\ all[i].look = x.wanted /\ x.printing = all[i].printing
            /\ NoMatch(x, all, i - 1)
        <5>1. page[m].look = q.wanted /\ all[i] = page[m] /\ i \in 1 .. Len(all)
          BY <3>2, <3>3
        <5>2. x.wanted = q.wanted /\ x.printing = page[m].printing
          BY <3>5 DEF p
        <5>3. NoMatch(x, all, i - 1)
          <6>1. i - 1 = q.offset + m - 1
            BY <2>4, <2>8, <3>2
          <6> QED
            BY <3>6, <6>1
        <5> HIDE DEF i
        <5>4. all[i].look = x.wanted /\ x.printing = all[i].printing
          BY ONLY <5>1, <5>2
        <5> QED
          BY <5>1, <5>3, <5>4
      <4> HIDE DEF i
      <4> QED
        BY <4>1 DEF Matched
    <3>8. Started(x)
      BY <2>9, <3>5, <3>6, <3>7 DEF Started
    <3> QED
      BY <1>1, <1>3, <3>5, <3>8, ReaderStep
  <2>11. CASE matches = {}
    <3>1. \A n \in DOMAIN page : page[n].look # q.wanted
      BY <2>11
    <3>2. CASE more
      <4>1. x = read
        BY <2>11, <3>2
      <4>2. k = q.offset + PageSize
        BY <2>4, <3>2 DEF Paged
      <4> HIDE DEF x
      <4>3. ListedOf(x, all) /\ Len(x.listed) = k /\ NoMatch(x, all, k)
        BY <2>6, <2>7, <3>1, <4>1
      <4>4. Started(x)
        BY <1>1, <2>7, <2>9, <4>1, <4>2, <4>3 DEF Started
      <4> QED
        BY <1>1, <1>3, <2>7, <4>1, <4>4, ReaderStep
    <3>3. CASE ~more
      <4> DEFINE a == IF q.wanted = None THEN "listed" ELSE "absent"
      <4>1. x = [read EXCEPT !.at = a]
        BY <2>11, <3>3
      <4>2. k = Len(all)
        BY <2>4, <3>3 DEF Paged
      <4>3. a \in {"listed", "absent"}
        OBVIOUS
      <4> HIDE DEF x, a
      <4>4. /\ x \in Reading /\ x.at = a /\ x.revision = v /\ x.token = v
            /\ x.listed = l /\ x.card = q.card /\ x.wanted = q.wanted
        BY <2>7, <4>1, <4>3, TurnedFields
      <4>5. ListedOf(x, all) /\ Len(x.listed) = k /\ NoMatch(x, all, k)
        BY <2>6, <3>1, <4>4
      <4>6. Started(x)
        BY <2>9, <4>2, <4>3, <4>4, <4>5 DEF Started
      <4> QED
        BY <1>1, <1>3, <4>4, <4>6, ReaderStep
    <3> QED
      BY <3>2, <3>3
  <2> QED
    BY <2>10, <2>11
<1> QED
  BY <1>2, <1>3 DEF ReadPage, Reached

\* The facts a committed card shows.
LEMMA StoredCard ==
    ASSUME CatalogInv, NEW c \in Cards,
           \E e \in View(stored).cards : e.card = c
    PROVE  /\ stored.card[c] # None /\ stored.card[c].facts \in Facts
           /\ [card |-> c, facts |-> stored.card[c].facts] \in View(stored).cards
<1> DEFINE K == {d \in Cards : stored.card[d] # None /\ stored.card[d].current}
           shown(d) == [card |-> d, facts |-> stored.card[d].facts]
<1>1. View(stored).cards = {shown(d) : d \in K}
  BY DEF View
<1>2. \A d : shown(d).card = d
  OBVIOUS
<1>3. c \in K
  <2> HIDE DEF K, shown
  <2> QED
    BY <1>1, <1>2
<1>4. stored.card[c] \in CardRows
  BY <1>3 DEF CatalogInv, CatalogTypeOK, Tables
<1> QED
  BY <1>1, <1>3, <1>4 DEF CardRows

LEMMA ResolveCardStep ==
    ASSUME ReadsInv, NEW r \in Readers, ResolveCard(r)
    PROVE  ReadsInv'
<1> DEFINE q == reader[r]
           f == stored.card[q.card].facts
           x == [q EXCEPT !.at = "found", !.facts = f]
<1>1. /\ q \in Reading /\ q.at = "card" /\ q.token = q.revision
      /\ CatalogInv /\ UNCHANGED catalogVars
      /\ Started(q)
  BY DEF ReadsInv, TypeOK, ReaderInv, ResolveCard, Unstarted
<1>2. CASE Finishes(r, "unavailable") \/ Finishes(r, "stale")
  BY <1>1, <1>2, StopsAsIs
<1>3. CASE ~Moved(q.revision) /\ reader' = [reader EXCEPT ![r] = x]
  <2>1. /\ q.revision \in 1 .. Len(history) /\ history \in Seq(Versions)
        /\ stored.revision = LastRevision(history)
    BY <1>1 DEF Started, CatalogInv, CatalogTypeOK, RevisionsKnown
  <2>2. Len(history) \in 1 .. MaxRevisions /\ history # <<>>
    <3>1. Len(history) \in Nat /\ Len(history) # 0 /\ Len(history) <= MaxRevisions
      BY <1>1, <2>1 DEF CatalogInv, CatalogTypeOK
    <3> QED
      BY <3>1, CatalogAssumption
  <2>3. stored.revision = [id |-> Len(history), version |-> history[Len(history)]]
    BY <2>1, <2>2 DEF LastRevision
  <2>4. stored.revision # None /\ stored.revision.id = Len(history)
    <3>1. history[Len(history)] \in Versions /\ Len(history) \in 1 .. MaxRevisions
      BY <2>1, <2>2
    <3>2. stored.revision \in Revisions
      BY <2>3, <3>1 DEF Revisions
    <3> QED
      BY <2>3, <3>2, NoneAssumption
  <2>5. q.revision = Len(history)
    BY <1>3, <2>1, <2>4 DEF Moved
  <2>6. View(stored) = Promise!Declared(history[q.revision])
    BY <1>1, <2>4, <2>5, StoredListing
  <2> DEFINE all == Published(q.revision, q.card)
  <2>7. ListedOf(q, all) /\ Matched(q, all)
    BY <1>1 DEF Started
  <2>8. \E e \in View(stored).cards : e.card = q.card
    <3>1. \A i \in 1 .. Len(all) :
             \E e \in Promise!Declared(history[q.revision]).cards : e.card = q.card
      <4> DEFINE n == q.revision
                 c == q.card
      <4>1. n \in 1 .. Len(history) /\ all = Published(n, c)
        BY <2>1
      <4> HIDE DEF n, c, all
      <4>2. \A i \in 1 .. Len(all) :
               \E e \in Promise!Declared(history[n]).cards : e.card = c
        BY <1>1, <4>1, PublishedFacts
      <4> QED
        BY <4>2 DEF n, c
    <3> QED
      BY <2>6, <2>7, <3>1 DEF Matched
  <2>9. q.card \in Cards
    BY <1>1 DEF Reading
  <2>10. f \in Facts /\ [card |-> q.card, facts |-> f] \in View(stored).cards
    BY <1>1, <2>8, <2>9, StoredCard
  <2> HIDE DEF q, f, all
  <2>11. x = [q EXCEPT !.at = "found", !.facts = f]
    OBVIOUS
  <2> HIDE DEF x
  <2>12. /\ x \in Reading /\ x.at = "found" /\ x.facts = f
         /\ x.revision = q.revision /\ x.token = q.token
         /\ x.listed = q.listed /\ x.card = q.card /\ x.wanted = q.wanted
         /\ x.printing = q.printing
    <3>1. q \in Reading /\ f \in Facts
      BY <1>1, <2>10
    <3> QED
      BY ONLY <2>11, <3>1, AnsweredFields, ZenonT(60)
  <2>13. FactsOf(x)
    BY <2>6, <2>10, <2>12 DEF FactsOf
  <2>14. ListedOf(x, all) /\ Matched(x, all)
    BY <2>7, <2>12 DEF ListedOf, Matched, NoMatch
  <2>15. all = Published(x.revision, x.card)
    BY <2>12 DEF all
  <2>16. Started(x)
    BY <2>1, <2>12, <2>13, <2>14, <2>15 DEF Started
  <2> QED
    BY <1>1, <1>3, <2>12, <2>16, ReaderStep
<1> QED
  BY <1>2, <1>3 DEF ResolveCard

LEMMA InitReadsInv == Init => ReadsInv
<1> SUFFICES ASSUME Init PROVE ReadsInv
  OBVIOUS
<1>1. CatalogInv
  BY InitCatalogInv DEF Init
<1>2. PICK c \in Cards : reader = [r \in Readers |->
          [at |-> "idle", card |-> c, wanted |-> None, offset |-> 0, token |-> 0,
           revision |-> 0, listed |-> <<>>, printing |-> None, facts |-> None]]
  BY DEF Init
<1> DEFINE x == [at |-> "idle", card |-> c, wanted |-> None, offset |-> 0, token |-> 0,
                 revision |-> 0, listed |-> <<>>, printing |-> None, facts |-> None]
<1>3. x \in Reading /\ Unstarted(x) /\ x.token = x.revision
  BY CatalogAssumption, EmptySeq DEF Reading, Unstarted
<1>4. reader = [r \in Readers |-> x]
  BY <1>2
<1> HIDE DEF x
<1> QED
  BY <1>1, <1>3, <1>4 DEF ReadsInv, TypeOK, CatalogInv, ReaderInv

LEMMA StepReadsInv == ReadsInv /\ [Next]_vars => ReadsInv'
<1> SUFFICES ASSUME ReadsInv, [Next]_vars PROVE ReadsInv'
  OBVIOUS
<1>1. CASE (CatalogNext \/ UNCHANGED catalogVars) /\ UNCHANGED reader
  <2>1. CatalogInv' /\ ReaderInv'
    BY <1>1, StepCatalogInv, ReadersKept DEF ReadsInv
  <2> QED
    BY <1>1, <2>1 DEF ReadsInv, TypeOK, CatalogInv
<1>2. ASSUME NEW r \in Readers, Read(r) PROVE ReadsInv'
  <2>1. CASE FailRead(r)
    BY <2>1, StopsAsIs DEF FailRead
  <2> QED
    BY <1>2, <2>1, StartStep, ReadPageStep, ResolveCardStep DEF Read
<1>3. CASE UNCHANGED vars
  BY <1>1, <1>3 DEF vars
<1>4. CASE CatalogNext /\ UNCHANGED reader
  BY <1>1, <1>4
<1>5. CASE \E r \in Readers : Read(r)
  BY <1>2, <1>5
<1> QED
  BY <1>3, <1>4, <1>5 DEF Next

\* Every reader holds a prefix of the list of the revision it started from.
THEOREM ReadsInductive == Spec => []ReadsInv
<1> QED
  BY InitReadsInv, StepReadsInv, PTL DEF Spec

--------
(* What consumers join.                                                    *)

\* The first entries of a list, held in order, are its prefix.
LEMMA PrefixOf ==
    ASSUME NEW S, NEW T, NEW s \in Seq(S), NEW t \in Seq(T), Len(s) <= Len(t),
           \A n \in 1 .. Len(s) : s[n] = t[n]
    PROVE  IsPrefix(s, t) /\ (Len(s) = Len(t) => s = t)
<1> DEFINE m == Len(s)
<1>1. m \in Nat /\ Len(t) \in Nat /\ \A n \in 1 .. m : s[n] \in S /\ n \in 1 .. Len(t)
  OBVIOUS
<1>2. \A n \in 1 .. m : t[n] \in T
  BY <1>1
<1>3. \A n \in 1 .. m : s[n] = t[n]
  OBVIOUS
<1> DEFINE a == SubSeq(s, 1, m)
           b == SubSeq(t, 1, m)
<1>4. a = b
  <2> HIDE DEF m
  <2>1. m = 0 \/ 1 <= m
    BY <1>1
  <2>2. 1 \in Int /\ m \in Int /\ m - 1 + 1 = m /\ \A n \in 1 .. m : 1 + n - 1 = n
    BY <1>1
  <2>3. a \in Seq(S) /\ Len(a) = m /\ \A n \in 1 .. m : a[n] = s[n]
    BY <1>1, <2>1, <2>2, SubSeqProperties
  <2>4. b \in Seq(T) /\ Len(b) = m /\ \A n \in 1 .. m : b[n] = t[n]
    BY <1>1, <1>2, <2>1, <2>2, SubSeqProperties
  <2> HIDE DEF a, b
  <2> QED
    BY <1>3, <2>3, <2>4, SeqEqual
<1>5. IsPrefix(s, t)
  BY <1>4 DEF IsPrefix
<1>6. Len(s) = Len(t) => s = t
  BY <1>3, SeqEqual
<1> QED
  BY <1>5, <1>6

\* The invariant is what consumers may rely on.
LEMMA AnswersByInv == ReadsInv => AnswersNameTheirRevision
<1> SUFFICES ASSUME ReadsInv PROVE AnswersNameTheirRevision
  OBVIOUS
<1>1. ReturnsRequestedRevision
  BY ReturnedByInv DEF ReadsInv
<1>2. ASSUME NEW q, q \in Reading, Started(q), NEW whole, whole = Published(q.revision, q.card)
      PROVE  /\ whole \in Seq(Promise!Declared(history[q.revision]).printings)
             /\ Len(whole) \in Nat /\ DOMAIN whole = 1 .. Len(whole)
             /\ \A i \in 1 .. Len(whole) : whole[i].printing \in Printings
  <2> DEFINE n == q.revision
             c == q.card
  <2>1. n \in 1 .. Len(history) /\ whole = Published(n, c) /\ CatalogInv
    BY <1>2 DEF Started, ReadsInv
  <2> HIDE DEF n, c
  <2>2. /\ whole \in Seq(Promise!Declared(history[n]).printings)
        /\ Len(whole) \in Nat /\ DOMAIN whole = 1 .. Len(whole)
        /\ \A i \in 1 .. Len(whole) : whole[i].printing \in Printings
    BY <2>1, PublishedFacts
  <2> QED
    BY <2>2 DEF n
<1>3. ASSUME NEW q, q \in Reading, Unstarted(q) \/ Started(q)
      PROVE  LET whole == Identities(Published(q.revision, q.card))
             IN  /\ q.revision # 0 => IsPrefix(q.listed, whole)
                 /\ q.at = "listed" => q.listed = whole
  <2> DEFINE pub == Published(q.revision, q.card)
             whole == Identities(pub)
  <2>1. CASE Unstarted(q)
    BY <2>1 DEF Unstarted
  <2>2. CASE Started(q)
    <3> HIDE DEF pub
    <3>1. Len(pub) \in Nat /\ DOMAIN pub = 1 .. Len(pub)
          /\ \A i \in 1 .. Len(pub) : pub[i].printing \in Printings
      BY <1>2, <1>3, <2>2 DEF pub
    <3>2. whole \in Seq(Printings) /\ Len(whole) = Len(pub)
          /\ \A i \in 1 .. Len(pub) : whole[i] = pub[i].printing
      BY <3>1 DEF Identities
    <3>3. /\ q.listed \in Seq(Printings) /\ Len(q.listed) <= Len(pub)
          /\ \A n \in 1 .. Len(q.listed) : q.listed[n] = pub[n].printing
          /\ q.at = "listed" => Len(q.listed) = Len(pub)
      BY <1>3, <2>2 DEF Started, ListedOf, Reading, pub
    <3> HIDE DEF whole
    <3>4. \A n \in 1 .. Len(q.listed) : q.listed[n] = whole[n]
      BY <3>1, <3>2, <3>3
    <3>5. IsPrefix(q.listed, whole) /\ (Len(q.listed) = Len(whole) => q.listed = whole)
      BY <3>2, <3>3, <3>4, PrefixOf
    <3> QED
      BY <3>2, <3>3, <3>5 DEF whole, pub
  <2> QED
    BY <1>3, <2>1, <2>2
<1>4. ASSUME NEW q, q \in Reading, Unstarted(q) \/ Started(q)
      PROVE  LET whole == Published(q.revision, q.card)
                 matches == {n \in DOMAIN whole : whole[n].look = q.wanted}
             IN  /\ q.at = "found" =>
                       /\ matches # {} /\ q.printing = whole[Min(matches)].printing
                       /\ [card |-> q.card, facts |-> q.facts]
                             \in Promise!Declared(history[q.revision]).cards
                 /\ q.at = "absent" => matches = {}
  <2> DEFINE whole == Published(q.revision, q.card)
             matches == {n \in DOMAIN whole : whole[n].look = q.wanted}
  <2>1. CASE q.at \notin {"found", "absent"}
    BY <2>1
  <2>2. CASE Started(q)
    <3> HIDE DEF whole
    <3>1. Len(whole) \in Nat /\ DOMAIN whole = 1 .. Len(whole)
      BY <1>2, <1>4, <2>2 DEF whole
    <3>2. /\ q.at = "absent" => NoMatch(q, whole, Len(whole))
          /\ q.at = "found" => Matched(q, whole) /\ FactsOf(q)
      BY <2>2 DEF Started, whole
    <3>3. q.at = "absent" => matches = {}
      BY <3>1, <3>2 DEF NoMatch
    <3>4. ASSUME Matched(q, whole)
          PROVE  matches # {} /\ q.printing = whole[Min(matches)].printing
      <4>1. PICK k \in 1 .. Len(whole) :
                /\ whole[k].look = q.wanted /\ q.printing = whole[k].printing
                /\ NoMatch(q, whole, k - 1)
        BY <3>4 DEF Matched
      <4>2. k \in matches /\ matches \in SUBSET Nat
        BY <3>1, <4>1
      <4>3. \A n \in matches : n >= k
        <5> SUFFICES ASSUME NEW n \in matches, ~(n >= k) PROVE FALSE
          OBVIOUS
        <5>1. n \in 1 .. k - 1 /\ whole[n].look = q.wanted
          BY <3>1
        <5> QED
          BY <4>1, <5>1 DEF NoMatch
      <4> HIDE DEF matches
      <4>4. Min(matches) \in matches /\ \A n \in matches : Min(matches) <= n
        BY <4>2, LeastOf
      <4>5. Min(matches) = k
        <5> DEFINE i == Min(matches)
        <5>1. i \in Nat /\ k \in Nat /\ i <= k /\ i >= k
          BY <4>2, <4>3, <4>4
        <5> HIDE DEF i
        <5>2. i = k
          BY ONLY <5>1
        <5> QED
          BY <5>2 DEF i
      <4> QED
        BY <4>1, <4>2, <4>5
    <3> QED
      BY <3>2, <3>3, <3>4 DEF FactsOf, whole
  <2>3. CASE Unstarted(q)
    BY <2>1, <2>3 DEF Unstarted
  <2> QED
    BY <1>4, <2>2, <2>3
<1>5. \A r \in Readers : reader[r] \in Reading /\ (Unstarted(reader[r]) \/ Started(reader[r]))
  BY DEF ReadsInv, TypeOK, ReaderInv
<1>6. PagesJoin
  BY <1>3, <1>5 DEF PagesJoin
<1>7. LookupAnswers
  BY <1>4, <1>5 DEF LookupAnswers
<1> QED
  BY <1>1, <1>6, <1>7 DEF AnswersNameTheirRevision, ReadsOneRevision

\* Pages read while tasks publish join to the list of one revision, a lookup
\* answers from one, and a call returns the revision it asked for (the page
\* tokens of service.ts, the comparison of printing-lookup.ts).
THEOREM AnswersOneRevision == Spec => []AnswersNameTheirRevision
<1> QED
  BY ReadsInductive, AnswersByInv, PTL

--------
(* The table of routes.                                                    *)

One(p, a) ==
    Len(p) = 1 /\ DOMAIN p = 1 .. 1 /\ p[1] = a
Two(p, a, b) ==
    Len(p) = 2 /\ DOMAIN p = 1 .. 2 /\ p[1] = a /\ p[2] = b
Three(p, a, b, c) ==
    Len(p) = 3 /\ DOMAIN p = 1 .. 3 /\ p[1] = a /\ p[2] = b /\ p[3] = c
Four(p, a, b, c, d) ==
    Len(p) = 4 /\ DOMAIN p = 1 .. 4 /\ p[1] = a /\ p[2] = b /\ p[3] = c /\ p[4] = d
Five(p, a, b, c, d, e) ==
    Len(p) = 5 /\ DOMAIN p = 1 .. 5 /\ p[1] = a /\ p[2] = b /\ p[3] = c /\ p[4] = d /\ p[5] = e

LEMMA TemplatesWritten ==
    /\ Two(Template.catalogResolve, "catalog", "resolve")
    /\ Two(Template.catalogQuery, "catalog", "query")
    /\ Four(Template.catalogCardPrintings, "catalog", "cards", ":cardId", "printings")
    /\ One(Template.preservedCard, "card")
    /\ One(Template.search, "search")
    /\ Two(Template.userCardsQuery, "collection", "query")
    /\ Two(Template.userCardsFragments, "collection", "fragments")
    /\ Two(Template.copies, "collection", "copies")
    /\ Three(Template.copiesRead, "collection", "copies", "read")
    /\ Three(Template.userCardsPhysicalDetail, "collection", "copies", ":copyId")
    /\ Four(Template.copyCorrections, "collection", "copies", ":copyId", "corrections")
    /\ Four(Template.copyLocation, "collection", "copies", ":copyId", "location")
    /\ Two(Template.tags, "collection", "tags")
    /\ Three(Template.tagsRead, "collection", "tags", "read")
    /\ Four(Template.tagRename, "collection", "tags", ":tagId", "rename")
    /\ Four(Template.tagAssociations, "collection", "tags", ":tagId", "associations")
    /\ Two(Template.associations, "collection", "associations")
    /\ Three(Template.associationsRead, "collection", "associations", "read")
    /\ Four(Template.associationChanges, "collection", "associations", ":associationId", "changes")
    /\ Four(Template.associationRemoval, "collection", "associations", ":associationId", "removal")
    /\ Two(Template.imports, "collection", "imports")
    /\ Three(Template.importSources, "collection", "imports", "sources")
    /\ Four(Template.importOperation, "collection", "imports", "operations", ":operationId")
    /\ Four(Template.importEntries, "collection", "imports", ":sessionId", "entries")
    /\ Four(Template.importCaptures, "collection", "imports", ":sessionId", "captures")
    /\ Four(Template.importDiscard, "collection", "imports", ":sessionId", "discard")
    /\ Four(Template.importConfirmation, "collection", "imports", ":sessionId", "confirmation")
    /\ Five(Template.importEntryReview, "collection", "imports", "entries", ":entryId", "review")
    /\ Five(Template.importEntryCandidates, "collection", "imports", "entries", ":entryId", "candidates")
    /\ Five(Template.importEntryDiscard, "collection", "imports", "entries", ":entryId", "discard")
<1>1. /\ Two(Template.catalogResolve, "catalog", "resolve")
      /\ Two(Template.catalogQuery, "catalog", "query")
      /\ Four(Template.catalogCardPrintings, "catalog", "cards", ":cardId", "printings")
      /\ One(Template.preservedCard, "card")
      /\ One(Template.search, "search")
      /\ Two(Template.userCardsQuery, "collection", "query")
  BY DEF Template, Collection, One, Two, Three, Four, Five
<1>2. /\ Two(Template.userCardsFragments, "collection", "fragments")
      /\ Two(Template.copies, "collection", "copies")
      /\ Three(Template.copiesRead, "collection", "copies", "read")
      /\ Three(Template.userCardsPhysicalDetail, "collection", "copies", ":copyId")
      /\ Four(Template.copyCorrections, "collection", "copies", ":copyId", "corrections")
      /\ Four(Template.copyLocation, "collection", "copies", ":copyId", "location")
  BY DEF Template, Collection, One, Two, Three, Four, Five
<1>3. /\ Two(Template.tags, "collection", "tags")
      /\ Three(Template.tagsRead, "collection", "tags", "read")
      /\ Four(Template.tagRename, "collection", "tags", ":tagId", "rename")
      /\ Four(Template.tagAssociations, "collection", "tags", ":tagId", "associations")
      /\ Two(Template.associations, "collection", "associations")
      /\ Three(Template.associationsRead, "collection", "associations", "read")
  BY DEF Template, Collection, One, Two, Three, Four, Five
<1>4. /\ Four(Template.associationChanges, "collection", "associations", ":associationId", "changes")
      /\ Four(Template.associationRemoval, "collection", "associations", ":associationId", "removal")
      /\ Two(Template.imports, "collection", "imports")
      /\ Three(Template.importSources, "collection", "imports", "sources")
      /\ Four(Template.importOperation, "collection", "imports", "operations", ":operationId")
      /\ Four(Template.importEntries, "collection", "imports", ":sessionId", "entries")
  BY DEF Template, Collection, One, Two, Three, Four, Five
<1>5. /\ Four(Template.importCaptures, "collection", "imports", ":sessionId", "captures")
      /\ Four(Template.importDiscard, "collection", "imports", ":sessionId", "discard")
      /\ Four(Template.importConfirmation, "collection", "imports", ":sessionId", "confirmation")
      /\ Five(Template.importEntryReview, "collection", "imports", "entries", ":entryId", "review")
      /\ Five(Template.importEntryCandidates, "collection", "imports", "entries", ":entryId", "candidates")
      /\ Five(Template.importEntryDiscard, "collection", "imports", "entries", ":entryId", "discard")
  BY DEF Template, Collection, One, Two, Three, Four, Five
<1> QED
  BY <1>1, <1>2, <1>3, <1>4, <1>5

LEMMA LengthsOfPaths ==
    /\ Len(Template.catalogResolve) = 2 /\ DOMAIN Template.catalogResolve = 1 .. 2
    /\ Len(Template.catalogQuery) = 2 /\ DOMAIN Template.catalogQuery = 1 .. 2
    /\ Len(Template.catalogCardPrintings) = 4 /\ DOMAIN Template.catalogCardPrintings = 1 .. 4
    /\ Len(Template.preservedCard) = 1 /\ DOMAIN Template.preservedCard = 1 .. 1
    /\ Len(Template.search) = 1 /\ DOMAIN Template.search = 1 .. 1
    /\ Len(Template.userCardsQuery) = 2 /\ DOMAIN Template.userCardsQuery = 1 .. 2
    /\ Len(Template.userCardsFragments) = 2 /\ DOMAIN Template.userCardsFragments = 1 .. 2
    /\ Len(Template.copies) = 2 /\ DOMAIN Template.copies = 1 .. 2
    /\ Len(Template.copiesRead) = 3 /\ DOMAIN Template.copiesRead = 1 .. 3
    /\ Len(Template.userCardsPhysicalDetail) = 3 /\ DOMAIN Template.userCardsPhysicalDetail = 1 .. 3
    /\ Len(Template.copyCorrections) = 4 /\ DOMAIN Template.copyCorrections = 1 .. 4
    /\ Len(Template.copyLocation) = 4 /\ DOMAIN Template.copyLocation = 1 .. 4
    /\ Len(Template.tags) = 2 /\ DOMAIN Template.tags = 1 .. 2
    /\ Len(Template.tagsRead) = 3 /\ DOMAIN Template.tagsRead = 1 .. 3
    /\ Len(Template.tagRename) = 4 /\ DOMAIN Template.tagRename = 1 .. 4
    /\ Len(Template.tagAssociations) = 4 /\ DOMAIN Template.tagAssociations = 1 .. 4
    /\ Len(Template.associations) = 2 /\ DOMAIN Template.associations = 1 .. 2
    /\ Len(Template.associationsRead) = 3 /\ DOMAIN Template.associationsRead = 1 .. 3
    /\ Len(Template.associationChanges) = 4 /\ DOMAIN Template.associationChanges = 1 .. 4
    /\ Len(Template.associationRemoval) = 4 /\ DOMAIN Template.associationRemoval = 1 .. 4
    /\ Len(Template.imports) = 2 /\ DOMAIN Template.imports = 1 .. 2
    /\ Len(Template.importSources) = 3 /\ DOMAIN Template.importSources = 1 .. 3
    /\ Len(Template.importOperation) = 4 /\ DOMAIN Template.importOperation = 1 .. 4
    /\ Len(Template.importEntries) = 4 /\ DOMAIN Template.importEntries = 1 .. 4
    /\ Len(Template.importCaptures) = 4 /\ DOMAIN Template.importCaptures = 1 .. 4
    /\ Len(Template.importDiscard) = 4 /\ DOMAIN Template.importDiscard = 1 .. 4
    /\ Len(Template.importConfirmation) = 4 /\ DOMAIN Template.importConfirmation = 1 .. 4
    /\ Len(Template.importEntryReview) = 5 /\ DOMAIN Template.importEntryReview = 1 .. 5
    /\ Len(Template.importEntryCandidates) = 5 /\ DOMAIN Template.importEntryCandidates = 1 .. 5
    /\ Len(Template.importEntryDiscard) = 5 /\ DOMAIN Template.importEntryDiscard = 1 .. 5
BY TemplatesWritten DEF One, Two, Three, Four, Five

LEMMA RoutesInOrder ==
    /\ DOMAIN Routes = 1 .. 32
    /\ \A i \in 1 .. 8 : Routes[i] = QueryRoutes[i]
    /\ \A i \in 9 .. 21 : Routes[i] = RecordRoutes[i - 8]
    /\ \A i \in 22 .. 32 : Routes[i] = ImportRoutes[i - 21]
BY DEF Routes, QueryRoutes, RecordRoutes, ImportRoutes

Routed(i, operation, method, path) ==
    Routes[i].operation = operation /\ Routes[i].method = method /\ Routes[i].path = path

Sent(op, method, path) == Sends[op].method = method /\ Sends[op].path = path

LEMMA QueryRoutesNamed ==
    /\ Routed(1, "catalogResolve", "POST", Template.catalogResolve)
    /\ Routed(2, "listCardPrintings", "GET", Template.catalogCardPrintings)
    /\ Routed(3, "catalogQuery", "POST", Template.catalogQuery)
    /\ Routed(4, "query", "POST", Template.userCardsQuery)
    /\ Routed(5, "readFragments", "POST", Template.userCardsFragments)
    /\ Routed(6, "readPhysicalDetail", "GET", Template.userCardsPhysicalDetail)
    /\ Routed(7, "preservedCard", "GET", Template.preservedCard)
    /\ Routed(8, "preservedSearch", "GET", Template.search)
<1>1. \A i \in 1 .. 8 : Routes[i] = QueryRoutes[i]
  BY RoutesInOrder
<1> QED
  BY <1>1 DEF Routed, QueryRoutes, Public, Private

LEMMA RecordRoutesNamed ==
    /\ Routed(9, "readCopies", "POST", Template.copiesRead)
    /\ Routed(10, "createCopies", "POST", Template.copies)
    /\ Routed(11, "correctCopy", "POST", Template.copyCorrections)
    /\ Routed(12, "setCopyLocation", "POST", Template.copyLocation)
    /\ Routed(13, "listTags", "GET", Template.tags)
    /\ Routed(14, "listAssociations", "GET", Template.tagAssociations)
    /\ Routed(15, "readTags", "POST", Template.tagsRead)
    /\ Routed(16, "createTag", "POST", Template.tags)
    /\ Routed(17, "renameTag", "POST", Template.tagRename)
    /\ Routed(18, "readAssociations", "POST", Template.associationsRead)
    /\ Routed(19, "createAssociation", "POST", Template.associations)
    /\ Routed(20, "changeAssociation", "POST", Template.associationChanges)
    /\ Routed(21, "removeAssociation", "POST", Template.associationRemoval)
<1>1. \A i \in 9 .. 21 : Routes[i] = RecordRoutes[i - 8]
  BY RoutesInOrder
<1> QED
  BY <1>1 DEF Routed, RecordRoutes, Public, Private

LEMMA ImportRoutesNamed ==
    /\ Routed(22, "listImportSessions", "GET", Template.imports)
    /\ Routed(23, "recoverImportOperation", "GET", Template.importOperation)
    /\ Routed(24, "stageSourceImport", "POST", Template.importSources)
    /\ Routed(25, "listImportEntries", "GET", Template.importEntries)
    /\ Routed(26, "stageImportEntries", "POST", Template.importEntries)
    /\ Routed(27, "stageCaptureObservation", "POST", Template.importCaptures)
    /\ Routed(28, "discardImportSession", "POST", Template.importDiscard)
    /\ Routed(29, "confirmImport", "POST", Template.importConfirmation)
    /\ Routed(30, "reviewImportEntry", "POST", Template.importEntryReview)
    /\ Routed(31, "attachImportCandidates", "POST", Template.importEntryCandidates)
    /\ Routed(32, "discardImportEntry", "POST", Template.importEntryDiscard)
<1>1. \A i \in 22 .. 32 : Routes[i] = ImportRoutes[i - 21]
  BY RoutesInOrder
<1> QED
  BY <1>1 DEF Routed, ImportRoutes, Public, Private

LEMMA SendsNamed ==
    /\ Sent("catalogResolve", "POST", Template.catalogResolve)
    /\ Sent("catalogQuery", "POST", Template.catalogQuery)
    /\ Sent("listCardPrintings", "GET", Template.catalogCardPrintings)
    /\ Sent("query", "POST", Template.userCardsQuery)
    /\ Sent("readFragments", "POST", Template.userCardsFragments)
    /\ Sent("readPhysicalDetail", "GET", Template.userCardsPhysicalDetail)
    /\ Sent("readCopies", "POST", Template.copiesRead)
    /\ Sent("correctCopy", "POST", Template.copyCorrections)
    /\ Sent("setCopyLocation", "POST", Template.copyLocation)
    /\ Sent("listTags", "GET", Template.tags)
    /\ Sent("readTags", "POST", Template.tagsRead)
    /\ Sent("createTag", "POST", Template.tags)
    /\ Sent("renameTag", "POST", Template.tagRename)
    /\ Sent("listAssociations", "GET", Template.tagAssociations)
    /\ Sent("readAssociations", "POST", Template.associationsRead)
    /\ Sent("createAssociation", "POST", Template.associations)
    /\ Sent("changeAssociation", "POST", Template.associationChanges)
    /\ Sent("removeAssociation", "POST", Template.associationRemoval)
    /\ Sent("listImportSessions", "GET", Template.imports)
    /\ Sent("listImportEntries", "GET", Template.importEntries)
    /\ Sent("stageImportEntries", "POST", Template.importEntries)
    /\ Sent("stageSourceImport", "POST", Template.importSources)
    /\ Sent("stageCaptureObservation", "POST", Template.importCaptures)
    /\ Sent("reviewImportEntry", "POST", Template.importEntryReview)
    /\ Sent("attachImportCandidates", "POST", Template.importEntryCandidates)
    /\ Sent("discardImportEntry", "POST", Template.importEntryDiscard)
    /\ Sent("discardImportSession", "POST", Template.importDiscard)
    /\ Sent("confirmImport", "POST", Template.importConfirmation)
    /\ Sent("recoverImportOperation", "GET", Template.importOperation)
BY DEF Sent, Sends, CatalogSends, RecordSends, ImportSends, Posts, Gets

\* Only routes of a method and a length are told apart by their templates.
RouteIs(i, method, length) == Routes[i].method = method /\ Len(Routes[i].path) = length
RequestIs(op, method, length) == Sends[op].method = method /\ Len(Sends[op].path) = length

LEMMA RoutesAre ==
    /\ RouteIs(1, "POST", 2)
    /\ RouteIs(2, "GET", 4)
    /\ RouteIs(3, "POST", 2)
    /\ RouteIs(4, "POST", 2)
    /\ RouteIs(5, "POST", 2)
    /\ RouteIs(6, "GET", 3)
    /\ RouteIs(7, "GET", 1)
    /\ RouteIs(8, "GET", 1)
    /\ RouteIs(9, "POST", 3)
    /\ RouteIs(10, "POST", 2)
    /\ RouteIs(11, "POST", 4)
    /\ RouteIs(12, "POST", 4)
    /\ RouteIs(13, "GET", 2)
    /\ RouteIs(14, "GET", 4)
    /\ RouteIs(15, "POST", 3)
    /\ RouteIs(16, "POST", 2)
    /\ RouteIs(17, "POST", 4)
    /\ RouteIs(18, "POST", 3)
    /\ RouteIs(19, "POST", 2)
    /\ RouteIs(20, "POST", 4)
    /\ RouteIs(21, "POST", 4)
    /\ RouteIs(22, "GET", 2)
    /\ RouteIs(23, "GET", 4)
    /\ RouteIs(24, "POST", 3)
    /\ RouteIs(25, "GET", 4)
    /\ RouteIs(26, "POST", 4)
    /\ RouteIs(27, "POST", 4)
    /\ RouteIs(28, "POST", 4)
    /\ RouteIs(29, "POST", 4)
    /\ RouteIs(30, "POST", 5)
    /\ RouteIs(31, "POST", 5)
    /\ RouteIs(32, "POST", 5)
BY QueryRoutesNamed, RecordRoutesNamed, ImportRoutesNamed, LengthsOfPaths DEF RouteIs, Routed

LEMMA RequestsAre ==
    /\ RequestIs("catalogResolve", "POST", 2)
    /\ RequestIs("catalogQuery", "POST", 2)
    /\ RequestIs("listCardPrintings", "GET", 4)
    /\ RequestIs("query", "POST", 2)
    /\ RequestIs("readFragments", "POST", 2)
    /\ RequestIs("readPhysicalDetail", "GET", 3)
    /\ RequestIs("readCopies", "POST", 3)
    /\ RequestIs("correctCopy", "POST", 4)
    /\ RequestIs("setCopyLocation", "POST", 4)
    /\ RequestIs("listTags", "GET", 2)
    /\ RequestIs("readTags", "POST", 3)
    /\ RequestIs("createTag", "POST", 2)
    /\ RequestIs("renameTag", "POST", 4)
    /\ RequestIs("listAssociations", "GET", 4)
    /\ RequestIs("readAssociations", "POST", 3)
    /\ RequestIs("createAssociation", "POST", 2)
    /\ RequestIs("changeAssociation", "POST", 4)
    /\ RequestIs("removeAssociation", "POST", 4)
    /\ RequestIs("listImportSessions", "GET", 2)
    /\ RequestIs("listImportEntries", "GET", 4)
    /\ RequestIs("stageImportEntries", "POST", 4)
    /\ RequestIs("stageSourceImport", "POST", 3)
    /\ RequestIs("stageCaptureObservation", "POST", 4)
    /\ RequestIs("reviewImportEntry", "POST", 5)
    /\ RequestIs("attachImportCandidates", "POST", 5)
    /\ RequestIs("discardImportEntry", "POST", 5)
    /\ RequestIs("discardImportSession", "POST", 4)
    /\ RequestIs("confirmImport", "POST", 4)
    /\ RequestIs("recoverImportOperation", "GET", 4)
BY SendsNamed, LengthsOfPaths DEF RequestIs, Sent

LEMMA RoutesByForm ==
    ASSUME NEW i \in 1 .. 32
    PROVE  /\ RouteIs(i, "GET", 2) => i \in {13, 22}
           /\ RouteIs(i, "GET", 3) => i \in {6}
           /\ RouteIs(i, "GET", 4) => i \in {2, 14, 23, 25}
           /\ RouteIs(i, "POST", 2) => i \in {1, 3, 4, 5, 10, 16, 19}
           /\ RouteIs(i, "POST", 3) => i \in {9, 15, 18, 24}
           /\ RouteIs(i, "POST", 4) => i \in {11, 12, 17, 20, 21, 26, 27, 28, 29}
           /\ RouteIs(i, "POST", 5) => i \in {30, 31, 32}
<1> DEFINE method(k) == Routes[k].method
           length(k) == Len(Routes[k].path)
<1>1. \A k, m, n : RouteIs(k, m, n) <=> method(k) = m /\ length(k) = n
  BY DEF RouteIs
<1> HIDE DEF method, length
<1>2. CASE i \in 1 .. 8
  BY <1>1, <1>2, RoutesAre
<1>3. CASE i \in 9 .. 21
  BY <1>1, <1>3, RoutesAre
<1>4. CASE i \in 22 .. 32
  BY <1>1, <1>4, RoutesAre
<1> QED
  BY <1>2, <1>3, <1>4

LEMMA FormsOfRequests ==
    ASSUME NEW op \in Operations
    PROVE  \/ RequestIs(op, "GET", 2) \/ RequestIs(op, "GET", 3) \/ RequestIs(op, "GET", 4)
           \/ RequestIs(op, "POST", 2) \/ RequestIs(op, "POST", 3) \/ RequestIs(op, "POST", 4)
           \/ RequestIs(op, "POST", 5)
<1>1. Operations = DOMAIN CatalogSends \cup DOMAIN RecordSends \cup DOMAIN ImportSends
  BY DEF Operations, Sends
<1>2. CASE op \in DOMAIN CatalogSends
  BY <1>2, RequestsAre DEF CatalogSends
<1>3. CASE op \in DOMAIN RecordSends
  BY <1>3, RequestsAre DEF RecordSends
<1>4. CASE op \in DOMAIN ImportSends
  BY <1>4, RequestsAre DEF ImportSends
<1> QED
  BY <1>1, <1>2, <1>3, <1>4

LEMMA RequestsByForm ==
    ASSUME NEW op \in Operations
    PROVE  /\ RequestIs(op, "GET", 2) => op \in {"listTags", "listImportSessions"}
           /\ RequestIs(op, "GET", 3) => op \in {"readPhysicalDetail"}
           /\ RequestIs(op, "GET", 4) => op \in {"listCardPrintings", "listAssociations",
                    "listImportEntries", "recoverImportOperation"}
           /\ RequestIs(op, "POST", 2) => op \in {"catalogResolve", "catalogQuery", "query",
                    "readFragments", "createTag", "createAssociation"}
           /\ RequestIs(op, "POST", 3) => op \in {"readCopies", "readTags", "readAssociations",
                    "stageSourceImport"}
           /\ RequestIs(op, "POST", 4) => op \in {"correctCopy", "setCopyLocation",
                    "renameTag", "changeAssociation", "removeAssociation",
                    "stageImportEntries", "stageCaptureObservation", "discardImportSession",
                    "confirmImport"}
           /\ RequestIs(op, "POST", 5) => op \in {"reviewImportEntry",
                    "attachImportCandidates", "discardImportEntry"}
<1> DEFINE method(x) == Sends[x].method
           length(x) == Len(Sends[x].path)
<1>1. \A x, m, n : RequestIs(x, m, n) <=> method(x) = m /\ length(x) = n
  BY DEF RequestIs
<1>2. Operations = DOMAIN CatalogSends \cup DOMAIN RecordSends \cup DOMAIN ImportSends
  BY DEF Operations, Sends
<1> HIDE DEF method, length
<1>3. CASE op \in DOMAIN CatalogSends
  BY <1>1, <1>3, RequestsAre DEF CatalogSends
<1>4. CASE op \in DOMAIN RecordSends
  BY <1>1, <1>4, RequestsAre DEF RecordSends
<1>5. CASE op \in DOMAIN ImportSends
  BY <1>1, <1>5, RequestsAre DEF ImportSends
<1> QED
  BY <1>2, <1>3, <1>4, <1>5

\* No path is one of both templates, whatever stands for their parameters.
DiffersAt(s, t, k) == s[k] \notin Parameters /\ t[k] \notin Parameters /\ s[k] # t[k]
Distinct(s, t) == \E k \in 1 .. Len(s) : DiffersAt(s, t, k)

LEMMA GetsOfTwo ==
    \A p, q \in {"tags", "imports"} : p # q =>
        Distinct(Template[p], Template[q])
BY TemplatesWritten DEF Distinct, DiffersAt, Parameters, Two

LEMMA GetsOfFour ==
    \A p, q \in {"catalogCardPrintings", "tagAssociations", "importEntries",
                  "importOperation"} : p # q =>
        \/ Distinct(Template[p], Template[q])
        \/ p = "importOperation" /\ q = "importEntries"
        \/ p = "importEntries" /\ q = "importOperation"
BY TemplatesWritten DEF Distinct, DiffersAt, Parameters, Four

LEMMA PostsOfTwo ==
    \A p, q \in {"catalogResolve", "catalogQuery", "userCardsQuery", "userCardsFragments",
                   "tags", "associations", "copies"} : p # q =>
        Distinct(Template[p], Template[q])
BY TemplatesWritten DEF Distinct, DiffersAt, Parameters, Two

LEMMA PostsOfThree ==
    \A p, q \in {"copiesRead", "tagsRead", "associationsRead", "importSources"} : p # q =>
        Distinct(Template[p], Template[q])
BY TemplatesWritten DEF Distinct, DiffersAt, Parameters, Three

LEMMA PostsOfFour ==
    \A p, q \in {"copyCorrections", "copyLocation", "tagRename", "associationChanges",
                   "associationRemoval", "importEntries", "importCaptures", "importDiscard",
                   "importConfirmation"} : p # q =>
        Distinct(Template[p], Template[q])
BY TemplatesWritten DEF Distinct, DiffersAt, Parameters, Four

LEMMA PostsOfFive ==
    \A p, q \in {"importEntryReview", "importEntryCandidates", "importEntryDiscard"} : p # q =>
        Distinct(Template[p], Template[q])
BY TemplatesWritten DEF Distinct, DiffersAt, Parameters, Five

LEMMA FirstOf ==
    ASSUME NEW S \in SUBSET Nat, S # {}
    PROVE  First(S) \in S /\ \A y \in S : First(S) <= y
<1> DEFINE Less == {ss \in Nat \X Nat : ss[1] < ss[2]}
<1>1. IsWellFoundedOn(Less, Nat)
  BY NatLessThanWellFounded DEF OpToRel
<1> HIDE DEF Less
<1>2. PICK n \in S : \A m \in S : ~(<<m, n>> \in Less)
  BY <1>1, WFMin
<1>3. ASSUME NEW m \in S PROVE n <= m
  <2>1. m \in Nat /\ n \in Nat /\ ~(m < n)
    BY <1>2 DEF Less
  <2> QED
    BY <2>1
<1> QED
  BY <1>2, <1>3 DEF First

\* A route and a request of the same form.
AreOf(i, op, method, length) == RouteIs(i, method, length) /\ RequestIs(op, method, length)

\* A route that takes a request is the one of its operation, but for the two
\* that a name decides between.
TakesIts(i, op) ==
    \/ Routes[i].operation = op /\ Routes[i].path = Sends[op].path
    \/ Distinct(Sends[op].path, Routes[i].path)
    \/ op = "recoverImportOperation" /\ i > 23
    \/ op = "listImportEntries" /\ Routes[i].path = Template.importOperation

LEMMA RoutesTake ==
    ASSUME NEW i \in 1 .. 32, NEW op \in Operations, NEW m, NEW n, AreOf(i, op, m, n)
    PROVE  TakesIts(i, op)
<1>1. CASE m = "GET" /\ n = 2
  <2>1. i \in {13, 22}
    BY <1>1, RoutesByForm DEF AreOf
  <2>2. op \in {"listTags", "listImportSessions"}
    BY <1>1, RequestsByForm DEF AreOf
  <2> QED
    BY <2>1, <2>2, RecordRoutesNamed, ImportRoutesNamed, SendsNamed, GetsOfTwo
       DEF TakesIts, Routed, Sent
<1>2. CASE m = "GET" /\ n = 3
  <2>1. i \in {6}
    BY <1>2, RoutesByForm DEF AreOf
  <2>2. op \in {"readPhysicalDetail"}
    BY <1>2, RequestsByForm DEF AreOf
  <2> QED
    BY <2>1, <2>2, QueryRoutesNamed, SendsNamed
       DEF TakesIts, Routed, Sent
<1>3. CASE m = "GET" /\ n = 4
  <2>1. i \in {2, 14, 23, 25}
    BY <1>3, RoutesByForm DEF AreOf
  <2>2. op \in {"listCardPrintings", "listAssociations", "listImportEntries",
                "recoverImportOperation"}
    BY <1>3, RequestsByForm DEF AreOf
  <2> QED
    BY <2>1, <2>2, QueryRoutesNamed, RecordRoutesNamed, ImportRoutesNamed, SendsNamed,
       GetsOfFour
       DEF TakesIts, Routed, Sent
<1>4. CASE m = "POST" /\ n = 2
  <2>1. i \in {1, 3, 4, 5, 10, 16, 19}
    BY <1>4, RoutesByForm DEF AreOf
  <2>2. op \in {"catalogResolve", "catalogQuery", "query", "readFragments", "createTag",
                "createAssociation"}
    BY <1>4, RequestsByForm DEF AreOf
  <2> QED
    BY <2>1, <2>2, QueryRoutesNamed, RecordRoutesNamed, SendsNamed, PostsOfTwo
       DEF TakesIts, Routed, Sent
<1>5. CASE m = "POST" /\ n = 3
  <2>1. i \in {9, 15, 18, 24}
    BY <1>5, RoutesByForm DEF AreOf
  <2>2. op \in {"readCopies", "readTags", "readAssociations", "stageSourceImport"}
    BY <1>5, RequestsByForm DEF AreOf
  <2> QED
    BY <2>1, <2>2, RecordRoutesNamed, ImportRoutesNamed, SendsNamed, PostsOfThree
       DEF TakesIts, Routed, Sent
<1>6. CASE m = "POST" /\ n = 4
  <2>1. i \in {11, 12, 17, 20, 21, 26, 27, 28, 29}
    BY <1>6, RoutesByForm DEF AreOf
  <2>2. op \in {"correctCopy", "setCopyLocation", "renameTag", "changeAssociation",
                "removeAssociation", "stageImportEntries", "stageCaptureObservation",
                "discardImportSession", "confirmImport"}
    BY <1>6, RequestsByForm DEF AreOf
  <2> QED
    BY <2>1, <2>2, RecordRoutesNamed, ImportRoutesNamed, SendsNamed, PostsOfFour
       DEF TakesIts, Routed, Sent
<1>7. CASE m = "POST" /\ n = 5
  <2>1. i \in {30, 31, 32}
    BY <1>7, RoutesByForm DEF AreOf
  <2>2. op \in {"reviewImportEntry", "attachImportCandidates", "discardImportEntry"}
    BY <1>7, RequestsByForm DEF AreOf
  <2> QED
    BY <2>1, <2>2, ImportRoutesNamed, SendsNamed, PostsOfFive
       DEF TakesIts, Routed, Sent
<1>8. \/ RequestIs(op, "GET", 2)
      \/ RequestIs(op, "GET", 3)
      \/ RequestIs(op, "GET", 4)
      \/ RequestIs(op, "POST", 2)
      \/ RequestIs(op, "POST", 3)
      \/ RequestIs(op, "POST", 4)
      \/ RequestIs(op, "POST", 5)
  BY FormsOfRequests
<1>9. \/ m = "GET" /\ n = 2
      \/ m = "GET" /\ n = 3
      \/ m = "GET" /\ n = 4
      \/ m = "POST" /\ n = 2
      \/ m = "POST" /\ n = 3
      \/ m = "POST" /\ n = 4
      \/ m = "POST" /\ n = 5
  BY <1>8 DEF AreOf, RequestIs
<1> QED
  BY <1>1, <1>2, <1>3, <1>4, <1>5, <1>6, <1>7, <1>9

--------
(* The route a request reaches.                                            *)

LEMMA PathsOfRequests ==
    ASSUME NEW op \in Operations, NEW name
    PROVE  LET s == Sends[op].path
               p == Expanded(s, name)
           IN  /\ Len(s) \in Nat /\ DOMAIN s = 1 .. Len(s)
               /\ Len(p) = Len(s) /\ DOMAIN p = DOMAIN s
               /\ \A k \in DOMAIN s : p[k] = IF s[k] \in Parameters THEN name ELSE s[k]
<1> DEFINE s == Sends[op].path
<1>1. Len(s) \in Nat /\ DOMAIN s = 1 .. Len(s)
  <2>1. Operations = DOMAIN CatalogSends \cup DOMAIN RecordSends \cup DOMAIN ImportSends
    BY DEF Operations, Sends
  <2>2. CASE op \in DOMAIN CatalogSends
    BY <2>2, SendsNamed, LengthsOfPaths DEF CatalogSends, Sent
  <2>3. CASE op \in DOMAIN RecordSends
    BY <2>3, SendsNamed, LengthsOfPaths DEF RecordSends, Sent
  <2>4. CASE op \in DOMAIN ImportSends
    BY <2>4, SendsNamed, LengthsOfPaths DEF ImportSends, Sent
  <2> QED
    BY <2>1, <2>2, <2>3, <2>4
<1> HIDE DEF s
<1>2. Len(Expanded(s, name)) = Len(s) /\ DOMAIN Expanded(s, name) = DOMAIN s
  BY <1>1 DEF Expanded
<1>3. \A k \in DOMAIN s : Expanded(s, name)[k] = IF s[k] \in Parameters THEN name ELSE s[k]
  BY DEF Expanded
<1> QED
  BY <1>1, <1>2, <1>3 DEF s

LEMMA DistinctNeverMatch ==
    ASSUME NEW op \in Operations, NEW name, NEW t, Distinct(Sends[op].path, t)
    PROVE  ~Matches(t, Expanded(Sends[op].path, name))
<1> DEFINE s == Sends[op].path
           p == Expanded(s, name)
<1>1. /\ DOMAIN s = 1 .. Len(s) /\ DOMAIN p = DOMAIN s
      /\ \A k \in DOMAIN s : p[k] = IF s[k] \in Parameters THEN name ELSE s[k]
  BY PathsOfRequests
<1>2. Distinct(s, t)
  OBVIOUS
<1> HIDE DEF s, p
<1>3. PICK k \in 1 .. Len(s) : DiffersAt(s, t, k)
  BY <1>2 DEF Distinct
<1>4. k \in DOMAIN p /\ p[k] = s[k] /\ t[k] \notin Parameters /\ t[k] # s[k]
  BY <1>1, <1>3 DEF DiffersAt
<1>5. ~Matches(t, p)
  BY <1>4 DEF Matches
<1> QED
  BY <1>5 DEF s, p

\* The operation that runs is the one that was asked for, of the identity it
\* was asked for (transport.ts resolveRoute, matchPath).
LEMMA ReachesItsRoute ==
    ASSUME NEW op \in Operations, NEW name,
           \/ name \in Identifiers
           \/ \A k \in DOMAIN Sends[op].path : Sends[op].path[k] \notin Parameters,
           RouteOf(Sends[op].method, Expanded(Sends[op].path, name)).kind = "matched"
    PROVE  LET p == Expanded(Sends[op].path, name)
               route == RouteOf(Sends[op].method, p).route
           IN  route.operation = op /\ Carried(route.path, p) \subseteq {name}
<1> DEFINE m == Sends[op].method
           s == Sends[op].path
           p == Expanded(s, name)
           onPath == {i \in DOMAIN Routes : Matches(Routes[i].path, p)}
           fits == {i \in onPath : Routes[i].method = m}
           i == First(fits)
<1>1. /\ Len(s) \in Nat /\ DOMAIN s = 1 .. Len(s)
      /\ Len(p) = Len(s) /\ DOMAIN p = DOMAIN s
      /\ \A k \in DOMAIN s : p[k] = IF s[k] \in Parameters THEN name ELSE s[k]
  BY PathsOfRequests
<1>2. fits # {} /\ RouteOf(m, p).route = Routes[i]
  BY DEF RouteOf
<1>3. DOMAIN Routes = 1 .. 32
  BY RoutesInOrder
<1>4. i \in fits /\ \A j \in fits : i <= j
  <2>1. fits \in SUBSET Nat
    BY <1>3
  <2> HIDE DEF fits
  <2> QED
    BY <1>2, <2>1, FirstOf
<1>5. i \in 1 .. 32 /\ Matches(Routes[i].path, p) /\ Routes[i].method = m
  BY <1>3, <1>4
<1> HIDE DEF i
<1>6. AreOf(i, op, m, Len(s))
  BY <1>1, <1>5 DEF AreOf, RouteIs, RequestIs, Matches
<1>7. TakesIts(i, op)
  BY <1>5, <1>6, RoutesTake
<1>8. ~Distinct(s, Routes[i].path)
  BY <1>5, DistinctNeverMatch
<1>9. ~(op = "recoverImportOperation" /\ i > 23)
  <2> SUFFICES ASSUME op = "recoverImportOperation", i > 23 PROVE FALSE
    OBVIOUS
  <2>1. Routes[23].method = m /\ Routes[23].path = s
    BY ImportRoutesNamed, SendsNamed DEF Routed, Sent
  <2>2. Matches(s, p)
    BY <1>1 DEF Matches
  <2>3. 23 \in fits
    BY <1>3, <2>1, <2>2
  <2> HIDE DEF fits
  <2> QED
    BY <1>4, <1>5, <2>3
<1>10. ~(op = "listImportEntries" /\ Routes[i].path = Template.importOperation)
  <2> SUFFICES ASSUME op = "listImportEntries", Routes[i].path = Template.importOperation
               PROVE  FALSE
    OBVIOUS
  <2>1. s = Template.importEntries
    BY SendsNamed DEF Sent
  <2>2. Four(s, "collection", "imports", ":sessionId", "entries")
    BY <2>1, TemplatesWritten
  <2>3. Four(Routes[i].path, "collection", "imports", "operations", ":operationId")
    BY TemplatesWritten
  <2> HIDE DEF s, p
  <2>4. 3 \in DOMAIN s /\ s[3] = ":sessionId" /\ p[3] = name
    BY <1>1, <2>2 DEF Four, Parameters
  <2>5. name = "operations"
    BY <1>1, <1>5, <2>3, <2>4 DEF Matches, Four, Parameters
  <2>6. name \in Identifiers
    BY <2>4 DEF Parameters, s
  <2> QED
    BY <2>5, <2>6, IdentifierAssumption
<1>11. Routes[i].operation = op /\ Routes[i].path = s
  BY <1>7, <1>8, <1>9, <1>10 DEF TakesIts
<1>12. Carried(s, p) \subseteq {name}
  BY <1>1 DEF Carried
<1> QED
  BY <1>2, <1>11, <1>12 DEF i

--------
(* The invariant of a request.                                             *)

Fields == {"at", "op", "name", "over", "withdrawn", "posted", "server", "ran", "work", "told",
           "applied", "reply", "got", "answer", "result"}
IsCall(x) == x = [f \in Fields |-> x[f]]

\* What a step leaves as it was.
Keeps(x, y, changed) == \A f \in Fields \ changed : y[f] = x[f]

Fixed(op) == \A k \in DOMAIN Sends[op].path : Sends[op].path[k] \notin Parameters

\* How far a request came, at either end.
Progress(x) ==
    /\ x.at \in {"idle", "token", "sent", "reading", "ended"}
    /\ x.server \in {"away", "verifying", "working", "answered"}
    /\ x.over \in BOOLEAN /\ x.posted \in BOOLEAN /\ x.applied \in BOOLEAN
    /\ x.at # "idle" => x.op \in Operations /\ (x.name \in Identifiers \/ Fixed(x.op))
    /\ x.at \in {"idle", "token"} => x.server = "away" /\ ~x.posted
    /\ x.posted => x.server = "away" /\ x.at # "reading"
    /\ x.at # "ended" => x.result = "none"

\* What the component was asked to do, and did.
Work(x) ==
    /\ x.work \in {"none", "running", "done"}
    /\ x.server \in {"away", "verifying"} => x.work = "none"
    /\ x.server = "working" => x.work = "running"
    /\ x.work # "done" => ~x.applied
    /\ x.work = "done" =>
          /\ x.server = "answered" /\ x.told \in {"ok"} \cup Reported
          /\ x.applied => x.told \in {"ok", "unavailable"}
          /\ x.told = "ok" => (x.applied <=> x.op \in Writes)

\* Codes that leave open what was done.
Undecided == {"timeout", "cancelled", "unavailable"}

\* A code says that nothing was begun, or what the component said.
Tells(x, code) ==
    \/ code \in Undecided
    \/ x.work = "none" /\ code \in {"unauthorized", "route-not-found", "method-not-allowed"}
    \/ x.work = "done" /\ code = x.told /\ code \in Reported

Replied(x) ==
    x.server = "answered" =>
        IF x.reply.status = 200 THEN x.work = "done" /\ x.told = "ok" /\ x.reply.code = "none"
        ELSE x.reply.code \in Codes /\ Tells(x, x.reply.code)

\* What is read is the reply of the invocation, or of what stands in front of
\* it, which answers for one that never began or says nothing definite.
Received(x) ==
    x.at = "reading" =>
        \/ x.server = "answered" /\ x.got = x.reply
        \/ /\ x.got.code = "none" /\ x.got.status \in Int /\ x.got.status # 200
           /\ x.got.status >= 500 \/ x.server = "away"

\* An end that is definite is one: nothing arrives or goes on after it.
Settled(x) ==
    /\ x.result = "ok" => x.work = "done" /\ x.told = "ok" /\ ~x.over
    /\ x.result \notin Undecided \cup {"none"} /\ ~x.over =>
          /\ ~x.posted /\ x.server \in {"away", "answered"}
          /\ x.work = "none" \/ (x.work = "done" /\ x.result = x.told)

CallInv(x) ==
    /\ IsCall(x) /\ Progress(x) /\ Work(x) /\ RunsWhatWasAsked(x)
    /\ Replied(x) /\ Received(x) /\ Settled(x)

TransportInv == call = [c \in Calls |-> call[c]] /\ \A c \in Calls : CallInv(call[c])

LEMMA StepsKeep ==
    ASSUME TransportInv, NEW c \in Calls, NEW x, CallInv(x), Steps(c, x)
    PROVE  TransportInv'
BY DEF TransportInv, Steps

LEMMA UnaskedHolds == CallInv(Unasked)
<1>1. IsCall(Unasked)
  BY DEF IsCall, Fields, Unasked
<1> QED
  BY <1>1 DEF CallInv, Progress, Work, RunsWhatWasAsked, Replied, Received, Settled, Unasked,
     NoRun, NoReply

LEMMA AskKeeps ==
    ASSUME TransportInv, NEW c \in Calls, NEW op \in Operations,
           NEW name \in Identifiers \cup {"none"},
           Ask(c, op, name)
    PROVE  TransportInv'
<1> DEFINE y == [Unasked EXCEPT !.at = "token", !.op = op, !.name = name]
<1>1. name \in Identifiers \/ Fixed(op)
  BY DEF Ask, Fixed
<1>2. /\ IsCall(y) /\ Keeps(Unasked, y, {"at", "op", "name"})
      /\ y.at = "token" /\ y.op = op /\ y.name = name
  BY DEF IsCall, Keeps, Fields, Unasked
<1>3. Steps(c, y)
  BY DEF Ask
<1> HIDE DEF y
<1>4. /\ y.over = FALSE /\ y.posted = FALSE /\ y.server = "away" /\ y.ran = NoRun
      /\ y.work = "none" /\ y.applied = FALSE /\ y.result = "none"
  BY <1>2 DEF Keeps, Fields, Unasked
<1>5. CallInv(y)
  BY <1>1, <1>2, <1>4 DEF CallInv, Progress, Work, RunsWhatWasAsked, Replied, Received, Settled
<1> QED
  BY <1>3, <1>5, StepsKeep

LEMMA EndedHolds ==
    ASSUME NEW x, CallInv(x), NEW result,
           x.at \in {"token", "sent", "reading"}, Settled(Ended(x, result))
    PROVE  CallInv(Ended(x, result))
<1> DEFINE y == Ended(x, result)
<1>1. IsCall(y) /\ Keeps(x, y, {"at", "result"}) /\ y.at = "ended"
  BY DEF CallInv, IsCall, Keeps, Fields, Ended
<1>2. Settled(y)
  OBVIOUS
<1> HIDE DEF y
<1>3. CallInv(y)
  BY <1>1, <1>2 DEF CallInv, Keeps, Fields, Progress, Work, RunsWhatWasAsked, Replied, Received,
     Tells
<1> QED
  BY <1>3 DEF y

\* An end that leaves open what was done, or that the account boundary makes.
LEMMA OpenEnds ==
    ASSUME NEW x, CallInv(x), NEW result \in Undecided \cup {"unauthorized"},
           x.at \in {"token", "sent", "reading"},
           result = "unauthorized" => x.over \/ x.at = "token"
    PROVE  CallInv(Ended(x, result))
<1> DEFINE y == Ended(x, result)
<1>1. Keeps(x, y, {"at", "result"}) /\ y.result = result
  BY DEF CallInv, IsCall, Keeps, Fields, Ended
<1> HIDE DEF y
<1>2. Settled(y)
  BY <1>1 DEF CallInv, Keeps, Fields, Progress, Work, Settled, Undecided
<1> QED
  BY <1>2, EndedHolds DEF y

LEMMA CredentialKeeps ==
    ASSUME TransportInv, NEW c \in Calls, NEW got, Credential(c, got)
    PROVE  TransportInv'
<1> DEFINE x == call[c]
           y == [x EXCEPT !.at = "sent", !.posted = TRUE]
<1>1. CallInv(x) /\ x.at = "token"
  BY DEF TransportInv, Credential
<1>2. \/ \E result \in Undecided \cup {"unauthorized"} : Steps(c, Ended(x, result))
      \/ Steps(c, y)
  BY DEF Credential, Undecided
<1>3. IsCall(y) /\ Keeps(x, y, {"at", "posted"}) /\ y.at = "sent" /\ y.posted = TRUE
  BY <1>1 DEF CallInv, IsCall, Keeps, Fields
<1> HIDE DEF x, y
<1>4. CallInv(y)
  <2>1. /\ y.op = x.op /\ y.name = x.name /\ y.over = x.over /\ y.server = x.server
        /\ y.ran = x.ran /\ y.work = x.work /\ y.told = x.told /\ y.applied = x.applied
        /\ y.reply = x.reply /\ y.got = x.got /\ y.result = x.result
    BY <1>1, <1>3 DEF Keeps, Fields
  <2>2. Progress(y) /\ Work(y)
    BY <1>1, <1>3, <2>1 DEF CallInv, Progress, Work
  <2>3. RunsWhatWasAsked(y)
    BY <1>1, <1>3, <2>1 DEF CallInv, RunsWhatWasAsked
  <2>4. Replied(y) /\ Received(y)
    BY <1>1, <1>3, <2>1 DEF CallInv, Progress, Work, Replied, Received, Tells
  <2>5. Settled(y)
    BY <1>1, <1>3, <2>1 DEF CallInv, Progress, Work, Settled
  <2> QED
    BY <1>1, <1>3, <2>2, <2>3, <2>4, <2>5 DEF CallInv
<1>5. CASE Steps(c, y)
  BY <1>4, <1>5, StepsKeep
<1>6. ASSUME NEW result \in Undecided \cup {"unauthorized"}, Steps(c, Ended(x, result))
      PROVE  TransportInv'
  <2>1. CallInv(Ended(x, result))
    BY <1>1, OpenEnds
  <2> QED
    BY <1>6, <2>1, StepsKeep
<1> QED
  BY <1>2, <1>5, <1>6

LEMMA SessionEndsKeeps ==
    ASSUME TransportInv, NEW c \in Calls, SessionEnds(c)
    PROVE  TransportInv'
<1> DEFINE x == call[c]
           y == [x EXCEPT !.over = TRUE]
<1>1. CallInv(x) /\ x.at \in {"token", "sent", "reading"} /\ Steps(c, y)
  BY DEF TransportInv, SessionEnds
<1>2. IsCall(y) /\ Keeps(x, y, {"over"}) /\ y.over = TRUE
  BY <1>1 DEF CallInv, IsCall, Keeps, Fields
<1> HIDE DEF x, y
<1>3. CallInv(y)
  <2>1. /\ y.at = x.at /\ y.op = x.op /\ y.name = x.name /\ y.posted = x.posted
        /\ y.server = x.server /\ y.ran = x.ran /\ y.work = x.work /\ y.told = x.told
        /\ y.applied = x.applied /\ y.reply = x.reply /\ y.got = x.got /\ y.result = x.result
    BY <1>1, <1>2 DEF Keeps, Fields
  <2>2. Progress(y) /\ Work(y)
    BY <1>1, <1>2, <2>1 DEF CallInv, Progress, Work
  <2>3. RunsWhatWasAsked(y)
    BY <1>1, <1>2, <2>1 DEF CallInv, RunsWhatWasAsked
  <2>4. Replied(y) /\ Received(y)
    BY <1>1, <1>2, <2>1 DEF CallInv, Progress, Work, Replied, Received, Tells
  <2>5. Settled(y)
    BY <1>1, <1>2, <2>1 DEF CallInv, Progress, Work, Settled
  <2> QED
    BY <1>1, <1>2, <2>2, <2>3, <2>4, <2>5 DEF CallInv
<1> QED
  BY <1>1, <1>3, StepsKeep

LEMMA WithdrawKeeps ==
    ASSUME TransportInv, NEW c \in Calls, Withdraw(c)
    PROVE  TransportInv'
<1> DEFINE x == call[c]
           y == [x EXCEPT !.withdrawn = TRUE]
<1>1. CallInv(x) /\ x.at \in {"token", "sent", "reading"}
  BY DEF TransportInv, Withdraw
<1>2. IsCall(y) /\ Keeps(x, y, {"withdrawn"})
  BY <1>1 DEF CallInv, IsCall, Keeps, Fields
<1>3. Steps(c, Ended(y, "cancelled")) \/ Steps(c, y)
  BY DEF Withdraw
<1> HIDE DEF x, y
<1>4. CallInv(y) /\ y.at = x.at
  BY <1>1, <1>2 DEF CallInv, Keeps, Fields, Progress, Work, RunsWhatWasAsked, Replied, Received,
     Tells, Settled
<1>5. CallInv(Ended(y, "cancelled"))
  BY <1>1, <1>4, OpenEnds DEF Undecided
<1> QED
  BY <1>3, <1>4, <1>5, StepsKeep

LEMMA NetworkFailsKeeps ==
    ASSUME TransportInv, NEW c \in Calls, NetworkFails(c)
    PROVE  TransportInv'
<1>1. CallInv(call[c]) /\ call[c].at = "sent" /\ Steps(c, Ended(call[c], "unavailable"))
  BY DEF TransportInv, NetworkFails
<1>2. CallInv(Ended(call[c], "unavailable"))
  BY <1>1, OpenEnds DEF Undecided
<1> QED
  BY <1>1, <1>2, StepsKeep

LEMMA GatewayAnswersKeeps ==
    ASSUME TransportInv, NEW c \in Calls, NEW status \in Int, status # 200,
           GatewayAnswers(c, status)
    PROVE  TransportInv'
<1> DEFINE x == call[c]
           r == [status |-> status, code |-> "none"]
           y == [x EXCEPT !.at = "reading", !.got = r, !.posted = FALSE]
<1>1. /\ CallInv(x) /\ x.at = "sent" /\ Steps(c, y)
      /\ x.server # "away" => status >= 500
  BY DEF TransportInv, GatewayAnswers
<1>2. /\ IsCall(y) /\ Keeps(x, y, {"at", "got", "posted"})
      /\ y.at = "reading" /\ y.got = r /\ y.posted = FALSE
  BY <1>1 DEF CallInv, IsCall, Keeps, Fields
<1>3. y.got.status = status /\ y.got.code = "none"
  BY <1>2
<1> HIDE DEF x, y, r
<1>4. CallInv(y)
  <2>1. /\ y.op = x.op /\ y.name = x.name /\ y.over = x.over /\ y.server = x.server
        /\ y.ran = x.ran /\ y.work = x.work /\ y.told = x.told /\ y.applied = x.applied
        /\ y.reply = x.reply /\ y.result = x.result
    BY <1>1, <1>2, <1>3 DEF Keeps, Fields
  <2>2. Progress(y) /\ Work(y)
    <3>1. Progress(x) /\ Work(x) /\ x.at = "sent"
      BY <1>1 DEF CallInv
    <3>2. Progress(y)
      BY <1>2, <2>1, <3>1 DEF Progress
    <3> QED
      BY <2>1, <3>1, <3>2 DEF Work
  <2>3. RunsWhatWasAsked(y)
    BY <1>1, <1>2, <1>3, <2>1 DEF CallInv, RunsWhatWasAsked
  <2>4. Replied(y) /\ Received(y)
    BY <1>1, <1>2, <1>3, <2>1 DEF CallInv, Progress, Work, Replied, Received, Tells
  <2>5. Settled(y)
    BY <1>1, <1>2, <1>3, <2>1 DEF CallInv, Progress, Work, Settled
  <2> QED
    BY <1>1, <1>2, <1>3, <2>2, <2>3, <2>4, <2>5 DEF CallInv
<1> QED
  BY <1>1, <1>4, StepsKeep

\* A reply of the invocation, and the request it answers.
LEMMA FailsHolds ==
    ASSUME NEW x, CallInv(x), NEW code \in Codes, Tells(x, code),
           x.at \notin {"idle", "token"}, ~x.posted, x.server # "answered",
           x.at = "reading" => x.server # "away"
    PROVE  CallInv(Fails(x, code))
<1> DEFINE r == [status |-> TransportStatus[code], code |-> code]
           y == Fails(x, code)
<1>1. /\ IsCall(y) /\ Keeps(x, y, {"server", "reply"})
      /\ y.server = "answered" /\ y.reply = r
  BY DEF CallInv, IsCall, Keeps, Fields, Fails, Answered
<1>2. y.reply.status # 200 /\ y.reply.code = code
  BY <1>1 DEF TransportStatus, Codes
<1> HIDE DEF y, r
<1>3. CallInv(y)
  <2>1. /\ y.at = x.at /\ y.op = x.op /\ y.name = x.name /\ y.over = x.over
        /\ y.posted = x.posted /\ y.ran = x.ran /\ y.work = x.work /\ y.told = x.told
        /\ y.applied = x.applied /\ y.got = x.got /\ y.result = x.result
    BY <1>1, <1>2 DEF Keeps, Fields
  <2>2. Progress(y) /\ Work(y)
    BY <1>1, <1>2, <2>1 DEF CallInv, Progress, Work
  <2>3. RunsWhatWasAsked(y)
    BY <1>1, <1>2, <2>1 DEF CallInv, RunsWhatWasAsked
  <2>4. Replied(y) /\ Received(y)
    BY <1>1, <1>2, <2>1 DEF CallInv, Progress, Work, Replied, Received, Tells
  <2>5. Settled(y)
    BY <1>1, <1>2, <2>1 DEF CallInv, Progress, Work, Settled
  <2> QED
    BY <1>1, <1>2, <2>2, <2>3, <2>4, <2>5 DEF CallInv
<1> QED
  BY <1>3 DEF y

LEMMA ArriveKeeps ==
    ASSUME TransportInv, NEW c \in Calls, Arrive(c)
    PROVE  TransportInv'
<1> DEFINE old == call[c]
           x == [old EXCEPT !.posted = FALSE]
           path == PathOf(x)
           found == RouteOf(Sends[x.op].method, path)
           ran == [operation |-> found.route.operation, named |-> Carried(found.route.path, path)]
           y == [x EXCEPT !.server = "verifying", !.ran = ran]
<1>1. /\ CallInv(old) /\ old.posted /\ old.server = "away"
      /\ Steps(c, IF found.kind # "matched" THEN Fails(x, found.kind) ELSE y)
  BY DEF TransportInv, Arrive
<1>2. IsCall(x) /\ Keeps(old, x, {"posted"}) /\ x.posted = FALSE
  BY <1>1 DEF CallInv, IsCall, Keeps, Fields
<1>3. /\ IsCall(y) /\ Keeps(x, y, {"server", "ran"})
      /\ y.server = "verifying" /\ y.ran = ran
  BY <1>2 DEF IsCall, Keeps, Fields
<1>4. found.kind # "matched" => found.kind \in {"route-not-found", "method-not-allowed"}
  BY DEF RouteOf
<1>5. x.op \in Operations /\ (x.name \in Identifiers \/ Fixed(x.op))
  <2> HIDE DEF old, x
  <2>1. old.at # "idle"
    BY <1>1 DEF CallInv, Progress
  <2>2. x.op = old.op /\ x.name = old.name
    BY <1>2 DEF Keeps, Fields
  <2> QED
    BY <1>1, <2>1, <2>2 DEF CallInv, Progress
<1>6. found.kind = "matched" => ran.operation = x.op /\ ran.named \subseteq {x.name}
  <2>1. path = Expanded(Sends[x.op].path, x.name)
    BY DEF PathOf
  <2>2. SUFFICES ASSUME found.kind = "matched"
                 PROVE  /\ found.route.operation = x.op
                        /\ Carried(found.route.path, path) \subseteq {x.name}
    OBVIOUS
  <2> DEFINE op == x.op
             name == x.name
  <2>3. op \in Operations /\ (name \in Identifiers \/ Fixed(op))
    BY <1>5
  <2>4. RouteOf(Sends[op].method, Expanded(Sends[op].path, name)).kind = "matched"
    BY <2>1, <2>2
  <2> HIDE DEF op, name
  <2>5. LET p == Expanded(Sends[op].path, name)
            route == RouteOf(Sends[op].method, p).route
        IN  route.operation = op /\ Carried(route.path, p) \subseteq {name}
    BY <2>3, <2>4, ReachesItsRoute DEF Fixed
  <2> QED
    BY <2>1, <2>5 DEF op, name
<1> HIDE DEF old, x, path, found, ran, y
<1>7. CallInv(x)
  <2>1. /\ x.at = old.at /\ x.op = old.op /\ x.name = old.name /\ x.over = old.over
        /\ x.server = old.server /\ x.ran = old.ran /\ x.work = old.work /\ x.told = old.told
        /\ x.applied = old.applied /\ x.reply = old.reply /\ x.got = old.got
        /\ x.result = old.result
    BY <1>2 DEF Keeps, Fields
  <2>2. Progress(x) /\ Work(x)
    BY <1>1, <1>2, <2>1 DEF CallInv, Progress, Work
  <2>3. RunsWhatWasAsked(x)
    BY <1>1, <2>1 DEF CallInv, RunsWhatWasAsked
  <2>4. Replied(x) /\ Received(x)
    BY <1>1, <1>2, <2>1 DEF CallInv, Progress, Work, Replied, Received, Tells
  <2>5. Settled(x)
    BY <1>1, <1>2, <2>1 DEF CallInv, Progress, Work, Settled
  <2> QED
    BY <1>2, <2>2, <2>3, <2>4, <2>5 DEF CallInv
<1>8. /\ x.at \notin {"idle", "token", "reading"} /\ x.posted = FALSE
      /\ x.server = "away" /\ x.work = "none"
  BY <1>1, <1>2 DEF CallInv, Keeps, Fields, Progress, Work
<1>9. CASE found.kind # "matched"
  <2>1. found.kind \in Codes /\ Tells(x, found.kind)
    BY <1>4, <1>8, <1>9 DEF Codes, Tells
  <2>2. CallInv(Fails(x, found.kind))
    BY <1>7, <1>8, <2>1, FailsHolds
  <2> QED
    BY <1>1, <1>9, <2>2, StepsKeep
<1>10. CASE found.kind = "matched"
  <2>1. /\ y.at = x.at /\ y.op = x.op /\ y.name = x.name /\ y.over = x.over
        /\ y.posted = x.posted /\ y.work = x.work /\ y.told = x.told
        /\ y.applied = x.applied /\ y.reply = x.reply /\ y.got = x.got
        /\ y.result = x.result
    BY <1>3 DEF Keeps, Fields
  <2>2. Progress(y) /\ Work(y)
    BY <1>3, <1>7, <1>8, <2>1 DEF CallInv, Progress, Work
  <2>3. RunsWhatWasAsked(y)
    BY <1>3, <1>6, <1>10, <2>1 DEF RunsWhatWasAsked
  <2>4. Replied(y) /\ Received(y)
    BY <1>3, <1>7, <1>8, <2>1 DEF CallInv, Replied, Received
  <2>5. Settled(y)
    BY <1>1, <1>3, <1>7, <1>8, <2>1, <1>2 DEF CallInv, Settled, Keeps, Fields
  <2>6. CallInv(y)
    BY <1>3, <2>2, <2>3, <2>4, <2>5 DEF CallInv
  <2> QED
    BY <1>1, <1>10, <2>6, StepsKeep
<1> QED
  BY <1>9, <1>10

LEMMA VerifyKeeps ==
    ASSUME TransportInv, NEW c \in Calls, NEW who, Verify(c, who)
    PROVE  TransportInv'
<1> DEFINE x == call[c]
           y == [x EXCEPT !.server = "working", !.work = "running"]
<1>1. CallInv(x) /\ x.server = "verifying"
  BY DEF TransportInv, Verify
<1>2. \/ \E code \in {"unavailable", "unauthorized"} : Steps(c, Fails(x, code))
      \/ Steps(c, y)
  BY DEF Verify
<1>3. /\ IsCall(y) /\ Keeps(x, y, {"server", "work"})
      /\ y.server = "working" /\ y.work = "running"
  BY <1>1 DEF CallInv, IsCall, Keeps, Fields
<1> HIDE DEF x, y
<1>4. x.at \notin {"idle", "token"} /\ ~x.posted /\ x.work = "none"
  BY <1>1 DEF CallInv, Progress, Work
<1>5. ASSUME NEW code \in {"unavailable", "unauthorized"}, Steps(c, Fails(x, code))
      PROVE  TransportInv'
  <2>1. code \in Codes /\ Tells(x, code)
    BY <1>4 DEF Codes, Tells, Undecided
  <2>2. CallInv(Fails(x, code))
    BY <1>1, <1>4, <2>1, FailsHolds
  <2> QED
    BY <1>5, <2>2, StepsKeep
<1>6. CallInv(y)
  <2>1. /\ y.at = x.at /\ y.op = x.op /\ y.name = x.name /\ y.over = x.over
        /\ y.posted = x.posted /\ y.ran = x.ran /\ y.told = x.told
        /\ y.applied = x.applied /\ y.reply = x.reply /\ y.got = x.got
        /\ y.result = x.result
    BY <1>3 DEF Keeps, Fields
  <2>2. Progress(y) /\ Work(y)
    BY <1>1, <1>3, <1>4, <2>1 DEF CallInv, Progress, Work
  <2>3. RunsWhatWasAsked(y)
    BY <1>1, <2>1 DEF CallInv, RunsWhatWasAsked
  <2>4. Replied(y) /\ Received(y)
    BY <1>1, <1>3, <2>1 DEF CallInv, Replied, Received
  <2>5. Settled(y)
    BY <1>1, <1>3, <1>4, <2>1 DEF CallInv, Settled
  <2> QED
    BY <1>3, <2>2, <2>3, <2>4, <2>5 DEF CallInv
<1> QED
  BY <1>2, <1>5, <1>6, StepsKeep

LEMMA WorkEndsKeeps ==
    ASSUME TransportInv, NEW c \in Calls, NEW told \in {"ok"} \cup Reported,
           NEW applied \in BOOLEAN, WorkEnds(c, told, applied)
    PROVE  TransportInv'
<1> DEFINE old == call[c]
           x == [old EXCEPT !.work = "done", !.told = told, !.applied = applied]
           code == IF told = "ok" THEN "none" ELSE told
           r == [status |-> IF told = "ok" THEN 200 ELSE TransportStatus[told], code |-> code]
           y == [x EXCEPT !.server = "answered", !.reply = r]
<1>1. /\ CallInv(old) /\ old.work = "running"
      /\ applied => old.op \in Writes /\ told \in {"ok", "unavailable"}
      /\ told = "ok" => (applied <=> old.op \in Writes)
  BY DEF TransportInv, CallInv, IsCall, Fields, WorkEnds
<1>2. /\ IsCall(x) /\ Keeps(old, x, {"work", "told", "applied"})
      /\ x.work = "done" /\ x.told = told /\ x.applied = applied
  BY <1>1 DEF CallInv, IsCall, Keeps, Fields
<1>3. /\ IsCall(y) /\ Keeps(x, y, {"server", "reply"}) /\ y.server = "answered" /\ y.reply = r
  BY <1>2 DEF IsCall, Keeps, Fields
<1>4. Steps(c, IF x.server # "working" THEN x ELSE y)
  BY DEF WorkEnds, Answered, Fails
<1>5. /\ told = "ok" => r.status = 200 /\ r.code = "none"
      /\ told # "ok" => r.status # 200 /\ r.code = told /\ told \in Codes
  BY DEF TransportStatus, Codes, Reported
<1> HIDE DEF old, x, r, code, y
<1>6. /\ x.at = old.at /\ x.op = old.op /\ x.name = old.name /\ x.over = old.over
      /\ x.posted = old.posted /\ x.server = old.server /\ x.ran = old.ran
      /\ x.reply = old.reply /\ x.got = old.got /\ x.result = old.result
  BY <1>2 DEF Keeps, Fields
<1>7. /\ y.at = x.at /\ y.op = x.op /\ y.name = x.name /\ y.over = x.over
      /\ y.posted = x.posted /\ y.ran = x.ran /\ y.work = x.work /\ y.told = x.told
      /\ y.applied = x.applied /\ y.got = x.got /\ y.result = x.result
  BY <1>3 DEF Keeps, Fields
<1>8. old.server \in {"working", "answered"}
  BY <1>1 DEF CallInv, Progress, Work
<1>9. RunsWhatWasAsked(x) /\ Progress(x)
  BY <1>1, <1>2, <1>6 DEF CallInv, RunsWhatWasAsked, Progress
<1>10. CASE x.server = "answered"
  <2>1. Work(x)
    BY <1>1, <1>2, <1>6, <1>10 DEF Work
  <2>2. Replied(x) /\ Received(x)
    BY <1>1, <1>2, <1>6, <1>8, <1>10 DEF CallInv, Replied, Received, Tells
  <2>3. Settled(x)
    BY <1>1, <1>2, <1>6, <1>8, <1>10 DEF CallInv, Settled
  <2>4. CallInv(x)
    BY <1>2, <1>9, <2>1, <2>2, <2>3 DEF CallInv
  <2> QED
    BY <1>4, <1>10, <2>4, StepsKeep
<1>11. CASE x.server = "working"
  <2>1. Progress(y) /\ RunsWhatWasAsked(y)
    BY <1>3, <1>7, <1>9, <1>11 DEF Progress, RunsWhatWasAsked
  <2>2. Work(y)
    BY <1>1, <1>2, <1>3, <1>6, <1>7 DEF Work
  <2>3. Replied(y)
    BY <1>2, <1>3, <1>5, <1>7 DEF Replied, Tells
  <2>4. Received(y)
    BY <1>1, <1>3, <1>6, <1>7, <1>11 DEF CallInv, Received
  <2>5. Settled(y)
    BY <1>1, <1>3, <1>6, <1>7, <1>11 DEF CallInv, Settled
  <2>6. CallInv(y)
    BY <1>3, <2>1, <2>2, <2>3, <2>4, <2>5 DEF CallInv
  <2> QED
    BY <1>4, <1>11, <2>6, StepsKeep
<1> QED
  BY <1>6, <1>8, <1>10, <1>11

LEMMA DeadlineKeeps ==
    ASSUME TransportInv, NEW c \in Calls, NEW expired \in BOOLEAN, Deadline(c, expired)
    PROVE  TransportInv'
<1> DEFINE x == call[c]
<1>1. CallInv(x) /\ x.server \in {"verifying", "working"} /\ Steps(c, Fails(x, Abandoned(expired)))
  BY DEF TransportInv, Deadline
<1> HIDE DEF x
<1>2. x.at \notin {"idle", "token"} /\ ~x.posted
  BY <1>1 DEF CallInv, Progress
<1>3. Abandoned(expired) \in Codes /\ Tells(x, Abandoned(expired))
  BY DEF Abandoned, Codes, Tells, Undecided
<1>4. CallInv(Fails(x, Abandoned(expired)))
  BY <1>1, <1>2, <1>3, FailsHolds
<1> QED
  BY <1>1, <1>4, StepsKeep

LEMMA DeliverKeeps ==
    ASSUME TransportInv, NEW c \in Calls, NEW answer, Deliver(c, answer)
    PROVE  TransportInv'
<1> DEFINE x == call[c]
           y == [x EXCEPT !.at = "reading", !.got = x.reply, !.answer = answer]
<1>1. CallInv(x) /\ x.at = "sent" /\ x.server = "answered" /\ Steps(c, y)
  BY DEF TransportInv, Deliver
<1>2. /\ IsCall(y) /\ Keeps(x, y, {"at", "got", "answer"})
      /\ y.at = "reading" /\ y.got = x.reply
  BY <1>1 DEF CallInv, IsCall, Keeps, Fields
<1> HIDE DEF x, y
<1>3. CallInv(y)
  <2>1. /\ y.op = x.op /\ y.name = x.name /\ y.over = x.over /\ y.posted = x.posted
        /\ y.server = x.server /\ y.ran = x.ran /\ y.work = x.work /\ y.told = x.told
        /\ y.applied = x.applied /\ y.reply = x.reply /\ y.result = x.result
    BY <1>2 DEF Keeps, Fields
  <2>2. Progress(y) /\ Work(y)
    BY <1>1, <1>2, <2>1 DEF CallInv, Progress, Work
  <2>3. RunsWhatWasAsked(y)
    BY <1>1, <2>1 DEF CallInv, RunsWhatWasAsked
  <2>4. Replied(y) /\ Received(y)
    BY <1>1, <1>2, <2>1 DEF CallInv, Replied, Received, Tells
  <2>5. Settled(y)
    BY <1>1, <1>2, <2>1 DEF CallInv, Settled
  <2> QED
    BY <1>2, <2>2, <2>3, <2>4, <2>5 DEF CallInv
<1> QED
  BY <1>1, <1>3, StepsKeep

LEMMA ReadBodyKeeps ==
    ASSUME TransportInv, NEW c \in Calls, NEW text \in BOOLEAN, ReadBody(c, text)
    PROVE  TransportInv'
<1> DEFINE x == call[c]
           result == IF ~text THEN IF x.withdrawn THEN "cancelled" ELSE "unavailable"
                     ELSE IF x.over THEN "unauthorized"
                     ELSE IF x.got.status # 200
                       THEN IF x.got.code \in Codes THEN x.got.code ELSE CodeOfStatus(x.got.status)
                     ELSE IF Readable(x.answer) THEN "ok" ELSE "unavailable"
<1>1. CallInv(x) /\ x.at = "reading" /\ Steps(c, Ended(x, result))
  BY DEF TransportInv, ReadBody
<1>2. \/ result \in Undecided
      \/ x.over /\ result = "unauthorized"
      \/ ~x.over /\ x.got.status # 200 /\ x.got.code \in Codes /\ result = x.got.code
      \/ /\ ~x.over /\ x.got.status # 200 /\ x.got.code \notin Codes
         /\ result = CodeOfStatus(x.got.status)
      \/ ~x.over /\ x.got.status = 200 /\ result = "ok"
  BY DEF Undecided
<1> HIDE DEF x, result
<1>3. CASE result \in Undecided \/ (x.over /\ result = "unauthorized")
  <2>1. result \in Undecided \cup {"unauthorized"} /\ (result = "unauthorized" => x.over)
    BY <1>3 DEF Undecided
  <2>2. CallInv(Ended(x, result))
    BY <1>1, <2>1, OpenEnds
  <2> QED
    BY <1>1, <2>2, StepsKeep
<1> DEFINE y == Ended(x, result)
<1>4. /\ y.over = x.over /\ y.posted = x.posted /\ y.server = x.server /\ y.work = x.work
      /\ y.told = x.told /\ y.result = result
  BY <1>1 DEF CallInv, IsCall, Fields, Ended
<1>5. ~x.posted
  BY <1>1 DEF CallInv, Progress
<1>6. \/ x.server = "answered" /\ x.got = x.reply
      \/ /\ x.got.code = "none" /\ x.got.status \in Int /\ x.got.status # 200
         /\ x.got.status >= 500 \/ x.server = "away"
  BY <1>1 DEF CallInv, Received
<1>7. CASE ~x.over /\ x.got.status # 200 /\ x.got.code \in Codes /\ result = x.got.code
  <2>1. x.server = "answered" /\ Tells(x, result)
    BY <1>1, <1>6, <1>7 DEF CallInv, Replied, Codes
  <2>2. result # "ok"
    BY <1>7 DEF Codes
  <2>3. Settled(y)
    BY <1>4, <1>5, <2>1, <2>2 DEF Settled, Tells
  <2> QED
    BY <1>1, <2>3, EndedHolds, StepsKeep
<1>8. CASE /\ ~x.over /\ x.got.status # 200 /\ x.got.code \notin Codes
           /\ result = CodeOfStatus(x.got.status)
  <2>1. x.got.status \in Int /\ (x.got.status >= 500 \/ x.server = "away")
    BY <1>1, <1>6, <1>8 DEF CallInv, Replied
  <2>2. x.got.status >= 500 => result \in Undecided
    BY <1>8, <2>1 DEF CodeOfStatus, Undecided
  <2>3. result # "ok"
    BY <1>8, <2>1 DEF CodeOfStatus
  <2>4. x.server = "away" => x.work = "none"
    BY <1>1 DEF CallInv, Work
  <2>5. Settled(y)
    BY <1>4, <1>5, <2>1, <2>2, <2>3, <2>4 DEF Settled
  <2> QED
    BY <1>1, <2>5, EndedHolds, StepsKeep
<1>9. CASE ~x.over /\ x.got.status = 200 /\ result = "ok"
  <2>1. x.server = "answered" /\ x.work = "done" /\ x.told = "ok"
    BY <1>1, <1>6, <1>9 DEF CallInv, Replied
  <2>2. Settled(y)
    BY <1>4, <1>5, <1>9, <2>1 DEF Settled
  <2> QED
    BY <1>1, <2>2, EndedHolds, StepsKeep
<1> QED
  BY <1>2, <1>3, <1>7, <1>8, <1>9

LEMMA TransportStep ==
    ASSUME TransportInv, [TransportNext]_call PROVE TransportInv'
<1>1. CASE UNCHANGED call
  BY <1>1 DEF TransportInv
<1>2. ASSUME NEW c \in Calls, NEW op \in Operations, NEW name \in Identifiers \cup {"none"},
             Ask(c, op, name)
      PROVE  TransportInv'
  BY <1>2, AskKeeps
<1>3. ASSUME NEW c \in Calls, \E got \in {"present", "absent", "unavailable"} : Credential(c, got)
      PROVE  TransportInv'
  BY <1>3, CredentialKeeps
<1>4. ASSUME NEW c \in Calls, SessionEnds(c) \/ Withdraw(c) \/ NetworkFails(c) \/ Arrive(c)
      PROVE  TransportInv'
  BY <1>4, SessionEndsKeeps, WithdrawKeeps, NetworkFailsKeeps, ArriveKeeps
<1>5. ASSUME NEW c \in Calls,
             NEW status \in {401, 403, 404, 408, 413, 429, 500, 502, 503, 504},
             GatewayAnswers(c, status)
      PROVE  TransportInv'
  <2>1. status \in Int /\ status # 200
    OBVIOUS
  <2> QED
    BY <1>5, <2>1, GatewayAnswersKeeps
<1>6. ASSUME NEW c \in Calls,
             \E who \in {"account", "anonymous", "invalid", "unavailable"} : Verify(c, who)
      PROVE  TransportInv'
  BY <1>6, VerifyKeeps
<1>7. ASSUME NEW c \in Calls, NEW told \in {"ok"} \cup Reported, NEW applied \in BOOLEAN,
             WorkEnds(c, told, applied)
      PROVE  TransportInv'
  BY <1>7, WorkEndsKeeps
<1>8. ASSUME NEW c \in Calls, NEW expired \in BOOLEAN, Deadline(c, expired)
      PROVE  TransportInv'
  BY <1>8, DeadlineKeeps
<1>9. ASSUME NEW c \in Calls, \E answer \in Answers(call[c].op) : Deliver(c, answer)
      PROVE  TransportInv'
  BY <1>9, DeliverKeeps
<1>10. ASSUME NEW c \in Calls, NEW text \in BOOLEAN, ReadBody(c, text)
      PROVE  TransportInv'
  BY <1>10, ReadBodyKeeps
<1> QED
  BY <1>1, <1>2, <1>3, <1>4, <1>5, <1>6, <1>7, <1>8, <1>9, <1>10 DEF TransportNext

\* Every step of a request, of its invocation and of what stands in front of it
\* preserves what the result rests on (client.ts createAuthenticatedRequest,
\* request-handler.ts createRequestHandler).
THEOREM TransportInductive == TransportSpec => []TransportInv
<1>1. TransportInit => TransportInv
  BY UnaskedHolds DEF TransportInit, TransportInv
<1>2. TransportInv /\ [TransportNext]_call => TransportInv'
  BY TransportStep
<1> QED
  BY <1>1, <1>2, PTL DEF TransportSpec

\* What a caller is told of its request is true of it, for any requests and any
\* identities but the word "operations" (client.ts readFailure, transport.ts
\* resolveRoute and raceDeadline, request-handler.ts classifyFailure).
THEOREM ReportsAsItWas == TransportSpec => []ReportedAsItWas
<1>1. TransportInv => ReportedAsItWas
  <2> SUFFICES ASSUME TransportInv, NEW c \in Calls
               PROVE  /\ RunsWhatWasAsked(call[c]) /\ RefusedIsUndone(call[c])
                      /\ AnsweredAsDone(call[c])
    BY DEF ReportedAsItWas
  <2> DEFINE x == call[c]
  <2>1. Progress(x) /\ Work(x) /\ RunsWhatWasAsked(x) /\ Settled(x)
    BY DEF TransportInv, CallInv
  <2> HIDE DEF x
  <2>2. RefusedIsUndone(x)
    BY <2>1 DEF RefusedIsUndone, Progress, Work, Settled, Undecided, Definite
  <2>3. AnsweredAsDone(x)
    BY <2>1 DEF AnsweredAsDone, Progress, Work, Settled, Undecided
  <2> QED
    BY <2>1, <2>2, <2>3 DEF x
<1> QED
  BY <1>1, TransportInductive, PTL
=============================================================================
