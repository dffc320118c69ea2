----------------------------- MODULE Organization -----------------------------
(***************************************************************************)
(* One account's tags, associations and copies, and the global printing    *)
(* references, as their transactions write them                            *)
(* (src/usercards/internal/organization.ts, copies.ts, references.ts,      *)
(* postgres.ts, and imports/confirmation.ts for a confirmation into a      *)
(* tag).  A transaction runs statement by statement under READ COMMITTED:  *)
(* a statement sees what has committed and what its own transaction wrote, *)
(* and waits for a row another transaction wrote or locked.  The account   *)
(* row is taken last, so advancing the revision and committing are one     *)
(* step.                                                                   *)
(***************************************************************************)
EXTENDS Integers, FiniteSets, FiniteSetsExt, Sequences, SequencesExt

CONSTANTS
    None,           \* null, no record
    Intended,       \* deck, wish-list and other tags
    Locations,      \* location tags
    Owned,          \* the account's ownership tag
    Targets,        \* cards and printings, as numbers: the order of identities
    Printings,
    Copies,
    MaxQuantity,    \* maxAssociationQuantity
    MaxIssued,      \* bound on the association identities composed
    Workers,        \* concurrent requests, each served once
    Requests,       \* what a caller may ask: see the operations below
    Accounts,       \* the records before: [tag, association, copy, reference]
    PageSize,
    Readers

ASSUME AccountAssumption ==
    /\ Targets \cup Printings \subseteq Nat
    /\ {MaxQuantity, MaxIssued} \subseteq Nat /\ PageSize \in Nat \ {0}

Tags == Intended \cup Locations \cup {Owned}
Ids == 1 .. MaxIssued

\* Intended tags ask for a quantity of a card or printing, the others name copies.
\* A copy that a deck or another tag names, whose quantity is null
\* (model.ts:52-56), is written and read by the same statements as a card: it is
\* one of Targets here, its quantity a number.
Rows ==
    [tag : Intended, target : Targets, quantity : 1 .. MaxQuantity, revision : Nat \ {0}]
    \cup [tag : Locations \cup {Owned}, target : Copies, quantity : {None},
          revision : Nat \ {0}]
CopyRows == [printing : Printings, revision : Nat \ {0}]

ASSUME TagAssumption ==
    /\ Intended \cap Locations = {} /\ Owned \notin Intended \cup Locations
    /\ None \notin Tags \cup Nat \cup Rows \cup CopyRows
    /\ None \notin [quantity : 1 .. MaxQuantity, revision : Nat \ {0}]

\* What the services admit of a caller's request before they open a transaction.
ASSUME RequestAssumption ==
    \A r \in Requests :
        /\ r.op \in {"createTag", "correctTag", "insertAssociation", "correctAssociation",
                     "removeAssociation", "confirm", "moveCopyLocation", "correctCopy",
                     "insertCopies"}
        /\ r.op = "createTag" => r.tag \in Intended \cup Locations
        /\ r.op = "correctTag" => r.tag \in Tags /\ r.expected \in Nat \ {0}
        /\ r.op \in {"insertAssociation", "confirm"} => r.tag \in Intended
        /\ r.op \in {"insertAssociation", "correctAssociation"} =>
              r.target \in Targets /\ r.quantity \in 1 .. MaxQuantity
        /\ r.op = "confirm" =>
              /\ DOMAIN r.wanted \subseteq Targets /\ IsFiniteSet(DOMAIN r.wanted)
              /\ \A x \in DOMAIN r.wanted : r.wanted[x] \in 1 .. MaxQuantity
        /\ r.op \in {"moveCopyLocation", "correctCopy", "insertCopies"} => r.copy \in Copies
        /\ r.op = "moveCopyLocation" => r.place \in Locations \cup {None}
        /\ r.op \in {"correctCopy", "insertCopies"} => r.printing \in Printings

\* A tag names a target once, a copy is owned and in one place at most: the
\* unique indexes of association and the foreign keys of its rows.
ASSUME AccountsAssumption ==
    \A a \in Accounts :
        /\ a.tag \in [Tags -> Nat] /\ a.copy \in [Copies -> CopyRows \cup {None}]
        /\ a.reference \subseteq Printings
        /\ a.association \in Seq(Rows) /\ Len(a.association) <= MaxIssued
        /\ \A i, j \in DOMAIN a.association :
              LET r == a.association[i] s == a.association[j]
              IN  r.target = s.target /\ (r.tag = s.tag \/ {r.tag, s.tag} \subseteq Locations)
                      => i = j
        /\ \A i \in DOMAIN a.association :
              a.association[i].tag \notin Intended => a.copy[a.association[i].target] # None
        /\ \A i \in DOMAIN a.association : a.tag[a.association[i].tag] > 0
        /\ \A c \in Copies : a.copy[c] # None =>
              \E i \in DOMAIN a.association :
                  a.association[i].tag = Owned /\ a.association[i].target = c

VARIABLES
    tag,            \* [Tags -> revision, 0 while there is no such row]
    association,    \* [Ids -> [tag, target, quantity, revision] or None]
    copy,           \* [Copies -> [printing, revision] or None]
    reference,      \* the printings whose card is recorded
    revision,       \* the account's private revision
    issued,         \* association identities composed so far
    held,           \* [Workers -> the rows and index keys it wrote or locked]
    work,           \* [Workers -> where its transaction is]
    reader          \* [Readers -> the list a consumer reads page by page]

tables == <<tag, association, copy, reference, revision>>
vars == <<tag, association, copy, reference, revision, issued, held, work, reader>>

\* A row written, and rows written over the others.
Put(rows, i, row) == [j \in DOMAIN rows \cup {i} |-> IF j = i THEN row ELSE rows[j]]
Over(written, rows) ==
    [i \in DOMAIN written \cup DOMAIN rows |->
        IF i \in DOMAIN written THEN written[i] ELSE rows[i]]

Idle == [at |-> "idle"]
NothingWritten == [tag |-> <<>>, association |-> <<>>, copy |-> <<>>, reference |-> {}]

Stored == {i \in Ids : association[i] # None}
Naming(t, x) == {i \in Stored : association[i].tag = t /\ association[i].target = x}
Placing(c) == {i \in Stored : association[i].tag \in Locations /\ association[i].target = c}

Row(t, x, quantity, version) ==
    [tag |-> t, target |-> x, quantity |-> quantity, revision |-> version]
Advanced(row) == [row EXCEPT !.revision = @ + 1]

--------
(* Rows, and who waits for whom.                                           *)

TagRow(t) == <<"tag", t>>
AssociationRow(i) == <<"association", i>>
CopyRow(c) == <<"copy", c>>
ReferenceRow(p) == <<"reference", p>>
Key(t, x) == <<"association target", t, x>>

Busy(w) == work[w].at \notin {"idle", "ended"}
Asked(w) == work[w].request

\* The printings whose stable card a request records, in identity order.
ReferencesOf(r) ==
    CASE r.op \in {"insertAssociation", "correctAssociation"} -> {r.target} \cap Printings
      [] r.op = "confirm" -> DOMAIN r.wanted \cap Printings
      [] r.op \in {"correctCopy", "insertCopies"} -> {r.printing}
      [] OTHER -> {}

\* Slip: the references are recorded as the caller named them.
NextReferenceSlip(w) ==
    IF Cardinality(work[w].refer) > 1 /\ Asked(w).tag = CHOOSE t \in Intended : TRUE
    THEN Max(work[w].refer) ELSE Min(work[w].refer)

NextReference(w) == Min(work[w].refer)

\* The tag whose row serializes the writers of what a request changes.
DomainTag(r) ==
    CASE r.op \in {"insertAssociation", "confirm"} -> {r.tag}
      [] r.op = "correctAssociation" -> {association[i].tag : i \in {r.id} \cap Stored}
      [] r.op = "insertCopies" -> {Owned}

\* Where a confirmation goes on, target by target: one order stands for all,
\* as it holds the lock of the tag.
NextTarget(w) == Min(work[w].targets)

\* The rows the next statement of a transaction has to wait for.
Needs(w) ==
    LET r == Asked(w)
    IN  CASE work[w].at = "lock" -> {TagRow(t) : t \in DomainTag(r)}
          [] work[w].at = "refer" /\ work[w].refer # {} -> {ReferenceRow(NextReference(w))}
          [] work[w].at = "key" -> {Key(association[r.id].tag, r.target)}
          [] work[w].at = "copy" -> {CopyRow(r.copy)}
          [] work[w].at = "add" ->
                IF work[w].found = None THEN {Key(r.tag, NextTarget(w))}
                ELSE {AssociationRow(i) : i \in Naming(r.tag, NextTarget(w))}
          [] work[w].at = "write" ->
                CASE r.op = "insertAssociation" -> {Key(r.tag, r.target)}
                  [] r.op \in {"correctAssociation", "removeAssociation"} -> {AssociationRow(r.id)}
                  [] r.op = "correctTag" -> {TagRow(r.tag)}
                  [] r.op = "moveCopyLocation" -> {AssociationRow(i) : i \in Placing(r.copy)}
                  [] OTHER -> {}
          [] OTHER -> {}

Takes(w, rows) == held' = [held EXCEPT ![w] = @ \cup rows]
MayRun(w) == \A v \in Workers \ {w} : Needs(w) \cap held[v] = {}
Becomes(w, transaction) == work' = [work EXCEPT ![w] = transaction]
Goes(w, at) == Becomes(w, [work[w] EXCEPT !.at = at])

\* What a transaction wrote, the version of each row its commit will publish.
Writes(w, at, written) == Becomes(w, [work[w] EXCEPT !.at = at, !.written = written])

--------
(* The statements.                                                         *)

First(r) ==
    CASE r.op \in {"insertAssociation", "correctAssociation", "confirm", "insertCopies"} -> "lock"
      [] r.op \in {"moveCopyLocation", "correctCopy"} -> "copy"
      [] OTHER -> "write"

\* What the service requires before the transaction opens.
Admitted(r) ==
    CASE r.op = "createTag" -> tag[r.tag] = 0
      [] r.op \in {"insertAssociation", "confirm"} -> tag[r.tag] > 0
      [] r.op \in {"correctAssociation", "removeAssociation"} ->
            r.id \in Stored /\ association[r.id].tag \in Intended
      [] r.op = "moveCopyLocation" -> r.place # None => tag[r.place] > 0
      [] r.op = "insertCopies" -> copy[r.copy] = None
      [] OTHER -> TRUE

\* Two callers never compose one identity.
Unclaimed(r) ==
    \A w \in Workers : work[w].at # "idle" /\ Asked(w).op = r.op =>
        /\ r.op = "createTag" => Asked(w).tag # r.tag
        /\ r.op = "insertCopies" => Asked(w).copy # r.copy

Open(w, r) ==
    /\ work[w].at = "idle" /\ Admitted(r) /\ Unclaimed(r)
    /\ Becomes(w, [at |-> First(r), request |-> r, written |-> NothingWritten,
                   refer |-> ReferencesOf(r),
                   targets |-> IF r.op = "confirm" THEN DOMAIN r.wanted ELSE {},
                   found |-> None, outcome |-> None])
    /\ UNCHANGED <<tables, issued, held, reader>>

\* lockTagStatement, lockAssociationTagStatement and the ownership tag's upsert
LockTag(w) ==
    LET r == Asked(w)
        written == IF r.op = "insertCopies" /\ tag[Owned] = 0
                   THEN [work[w].written EXCEPT !.tag = Put(@, Owned, 1)]
                   ELSE work[w].written
    IN  /\ work[w].at = "lock" /\ MayRun(w)
        /\ Takes(w, Needs(w))
        /\ Writes(w, "refer", written)
        /\ UNCHANGED <<tables, issued, reader>>

\* storePrintingReferences: a recorded one is left alone and not locked.
StoreReference(w) ==
    LET p == NextReference(w)
        written == IF p \in reference THEN work[w].written
                   ELSE [work[w].written EXCEPT !.reference = @ \cup {p}]
    IN  /\ work[w].at = "refer" /\ work[w].refer # {} /\ MayRun(w)
        /\ Becomes(w, [work[w] EXCEPT !.refer = @ \ {p}, !.written = written])
        /\ Takes(w, IF p \in reference THEN {} ELSE {ReferenceRow(p)})
        /\ UNCHANGED <<tables, issued, reader>>

ReferencesStored(w) ==
    /\ work[w].at = "refer" /\ work[w].refer = {}
    /\ Goes(w, CASE Asked(w).op = "confirm" -> "read"
                 [] Asked(w).op = "correctCopy" -> "commit"
                 [] OTHER -> "write")
    /\ UNCHANGED <<tables, issued, held, reader>>

Inserts(w, at, t, x, quantity) ==
    /\ issued < MaxIssued
    /\ issued' = issued + 1
    /\ Writes(w, at, [work[w].written EXCEPT
           !.association = Put(@, issued + 1, Row(t, x, quantity, 1))])

Updates(w, at, i, row) ==
    /\ Writes(w, at, [work[w].written EXCEPT !.association = Put(@, i, row)])
    /\ UNCHANGED issued

\* A statement that changed no row: a later statement tells why.
Ends(w, outcome) ==
    /\ Becomes(w, [work[w] EXCEPT !.at = "ended", !.outcome = outcome])
    /\ held' = [held EXCEPT ![w] = {}]
    /\ UNCHANGED issued

InsertAssociation(w) ==
    LET r == Asked(w)
    IN  /\ work[w].at = "write" /\ r.op = "insertAssociation" /\ MayRun(w)
        /\ IF Naming(r.tag, r.target) # {} THEN Ends(w, "conflict")
           ELSE Inserts(w, "commit", r.tag, r.target, r.quantity) /\ Takes(w, Needs(w))
        /\ UNCHANGED <<tables, reader>>

Expected(i, r) == i \in Stored /\ association[i].revision = r.expected

NamedByAnother(r) == ~(Naming(association[r.id].tag, r.target) \subseteq {r.id})

\* The change sees no uncommitted claim of its target; the index makes it wait.
CorrectAssociation(w) ==
    LET r == Asked(w)
    IN  /\ work[w].at = "write" /\ r.op = "correctAssociation" /\ MayRun(w)
        /\ IF Expected(r.id, r) /\ ~NamedByAnother(r)
           THEN Goes(w, "key") /\ Takes(w, Needs(w))
           ELSE Goes(w, "explain") /\ UNCHANGED held
        /\ UNCHANGED <<tables, issued, reader>>

\* A claim that committed meanwhile violates the index: an outage.
ClaimKey(w) ==
    LET r == Asked(w)
    IN  /\ work[w].at = "key" /\ MayRun(w)
        /\ IF NamedByAnother(r) THEN Ends(w, "violation")
           ELSE /\ Updates(w, "commit", r.id,
                     Advanced([association[r.id] EXCEPT !.target = r.target,
                                                        !.quantity = r.quantity]))
                /\ Takes(w, Needs(w))
        /\ UNCHANGED <<tables, reader>>

RemoveAssociation(w) ==
    LET r == Asked(w)
    IN  /\ work[w].at = "write" /\ r.op = "removeAssociation" /\ MayRun(w)
        /\ IF Expected(r.id, r)
           THEN Updates(w, "commit", r.id, None) /\ Takes(w, Needs(w))
           ELSE Goes(w, "explain") /\ UNCHANGED <<held, issued>>
        /\ UNCHANGED <<tables, reader>>

\* Why nothing was changed, read by a statement of its own.
Explain(w) ==
    LET r == Asked(w)
        missing == CASE r.op \in {"correctAssociation", "removeAssociation"} -> r.id \notin Stored
                     [] r.op = "correctTag" -> tag[r.tag] = 0
                     [] OTHER -> copy[r.copy] = None
    IN  /\ work[w].at = "explain"
        /\ Ends(w, IF missing THEN "missing"
                   ELSE IF r.op = "correctAssociation" /\ Expected(r.id, r) THEN "duplicate"
                   ELSE "conflict")
        /\ UNCHANGED <<tables, reader>>

\* applyTagDestination, one target: what the tag asks for is read, ...
ReadRequired(w) ==
    /\ work[w].at = "read"
    /\ LET ids == Naming(Asked(w).tag, NextTarget(w))
       IN  IF work[w].targets = {} THEN Goes(w, "commit")
           ELSE Becomes(w, [work[w] EXCEPT !.at = "add",
                    !.found = IF ids = {} THEN None
                              ELSE association[CHOOSE i \in ids : TRUE].quantity])
    /\ UNCHANGED <<tables, issued, held, reader>>

\* ... and written with what the import adds.  A row removed meanwhile is not
\* updated, and the confirmation fails.
AddRequired(w) ==
    LET r == Asked(w)
        x == NextTarget(w)
        ids == Naming(r.tag, x)
        quantity == (IF work[w].found = None THEN 0 ELSE work[w].found) + r.wanted[x]
        Written(row, i) ==
            Becomes(w, [work[w] EXCEPT !.at = "read", !.targets = @ \ {x},
                         !.written = [work[w].written EXCEPT !.association = Put(@, i, row)]])
    IN  /\ work[w].at = "add" /\ MayRun(w)
        /\ IF quantity > MaxQuantity THEN Ends(w, "invalid-request")
           ELSE IF work[w].found = None
           THEN IF ids # {} THEN Ends(w, "violation")
                ELSE /\ issued < MaxIssued /\ issued' = issued + 1
                     /\ Written(Row(r.tag, x, quantity, 1), issued + 1)
                     /\ Takes(w, Needs(w))
           ELSE IF ids = {} THEN Ends(w, "unavailable")
                ELSE /\ LET i == CHOOSE i \in ids : TRUE
                        IN  Written(Advanced([association[i] EXCEPT !.quantity = quantity]), i)
                     /\ Takes(w, Needs(w)) /\ UNCHANGED issued
        /\ UNCHANGED <<tables, reader>>

\* copyForLocationMoveStatement, correctionStatement
UpdateCopy(w) ==
    LET r == Asked(w)
        corrected == IF r.op = "correctCopy" THEN [copy[r.copy] EXCEPT !.printing = r.printing]
                     ELSE copy[r.copy]
    IN  /\ work[w].at = "copy" /\ MayRun(w)
        /\ IF copy[r.copy] # None /\ copy[r.copy].revision = r.expected
           THEN /\ Writes(w, IF r.op = "correctCopy" THEN "refer" ELSE "write",
                     [work[w].written EXCEPT !.copy = Put(@, r.copy, Advanced(corrected))])
                /\ Takes(w, Needs(w))
           ELSE Goes(w, "explain") /\ UNCHANGED held
        /\ UNCHANGED <<tables, issued, reader>>

\* assignLocationStatement, clearLocationStatement
MoveLocation(w) ==
    LET r == Asked(w)
    IN  /\ work[w].at = "write" /\ r.op = "moveCopyLocation" /\ MayRun(w)
        /\ IF Placing(r.copy) = {}
           THEN IF r.place = None THEN Goes(w, "commit") /\ UNCHANGED issued
                ELSE Inserts(w, "commit", r.place, r.copy, None)
           ELSE LET i == CHOOSE i \in Placing(r.copy) : TRUE
                IN  Updates(w, "commit", i,
                        IF r.place = None THEN None
                        ELSE Advanced([association[i] EXCEPT !.tag = r.place]))
        /\ Takes(w, Needs(w))
        /\ UNCHANGED <<tables, reader>>

InsertCopies(w) ==
    LET r == Asked(w)
    IN  /\ work[w].at = "write" /\ r.op = "insertCopies"
        /\ issued < MaxIssued /\ issued' = issued + 1
        /\ Writes(w, "commit", [work[w].written EXCEPT
               !.copy = Put(@, r.copy, [printing |-> r.printing, revision |-> 1]),
               !.association = Put(@, issued + 1, Row(Owned, r.copy, None, 1))])
        /\ UNCHANGED <<tables, held, reader>>

\* insertTagStatement, correctTagStatement
WriteTag(w) ==
    LET r == Asked(w)
    IN  /\ work[w].at = "write" /\ r.op \in {"createTag", "correctTag"} /\ MayRun(w)
        /\ IF r.op = "createTag" \/ (tag[r.tag] = r.expected /\ r.tag # Owned)
           THEN /\ Writes(w, "commit", [work[w].written EXCEPT !.tag = Put(@, r.tag, tag[r.tag] + 1)])
                /\ Takes(w, Needs(w))
           ELSE Goes(w, "explain") /\ UNCHANGED held
        /\ UNCHANGED <<tables, issued, reader>>

\* Slip: the change commits without publishing a revision.
AdvanceSlip == UNCHANGED revision

\* advanceRevision
Advance == revision' = revision + 1

Commit(w) ==
    LET written == work[w].written
    IN  /\ work[w].at = "commit"
        /\ tag' = Over(written.tag, tag)
        /\ association' = Over(written.association, association)
        /\ copy' = Over(written.copy, copy)
        /\ reference' = reference \cup written.reference
        /\ Advance
        /\ Ends(w, "done")
        /\ UNCHANGED reader

\* A statement fails, or the connection is lost before the commit.
RollBack(w) ==
    /\ Busy(w)
    /\ Ends(w, "unavailable")
    /\ UNCHANGED <<tables, reader>>

Step(w) ==
    \/ LockTag(w) \/ StoreReference(w) \/ ReferencesStored(w)
    \/ InsertAssociation(w) \/ CorrectAssociation(w) \/ ClaimKey(w)
    \/ RemoveAssociation(w) \/ Explain(w)
    \/ ReadRequired(w) \/ AddRequired(w)
    \/ UpdateCopy(w) \/ MoveLocation(w) \/ InsertCopies(w) \/ WriteTag(w)
    \/ Commit(w)

--------
(* Paged reads: listAssociations.                                          *)

ListedOf(t) == {i \in Stored : association[i].tag = t}

Listing(t) ==
    CHOOSE s \in [1 .. Cardinality(ListedOf(t)) -> ListedOf(t)] :
        \A i, j \in DOMAIN s : i < j => s[i] < s[j]

\* Slip: a continuation is accepted whatever revision it quotes.
StaleSlip(token) == FALSE

Stale(token) == token # None /\ token # revision

ListAssociations(r, t) ==
    LET at == reader[r]
        page == SubSeq(Listing(t), at.offset + 1,
                       Min({at.offset + PageSize + 1, Len(Listing(t))}))
        shown == IF Len(page) > PageSize THEN SubSeq(page, 1, PageSize) ELSE page
    IN  /\ at.tag \in {None, t} /\ ~at.ended
        /\ reader' = [reader EXCEPT ![r] =
               IF Stale(at.token) THEN [at EXCEPT !.ended = TRUE]
               ELSE [tag |-> t, offset |-> at.offset + PageSize, token |-> revision,
                     listed |-> at.listed \o shown, ended |-> Len(page) <= PageSize]]
        /\ UNCHANGED <<tables, issued, held, work>>

--------

Holds(account) ==
    /\ tag = account.tag /\ copy = account.copy /\ reference = account.reference
    /\ association = [i \in Ids |->
           IF i \in DOMAIN account.association THEN account.association[i] ELSE None]
    /\ issued = Len(account.association)

Init ==
    /\ \E account \in Accounts : Holds(account)
    /\ revision = 0
    /\ held = [w \in Workers |-> {}]
    /\ work = [w \in Workers |-> Idle]
    /\ reader = [r \in Readers |->
           [tag |-> None, offset |-> 0, token |-> None, listed |-> <<>>, ended |-> FALSE]]

Next ==
    \/ \E w \in Workers :
          \/ \E r \in Requests : Open(w, r)
          \/ Step(w) \/ RollBack(w)
    \/ \E r \in Readers, t \in Intended : ListAssociations(r, t)

Spec == Init /\ [][Next]_vars

--------
(* The records keep the promise of PrivateRecords.                         *)

Intent(t, x) ==
    CASE Naming(t, x) = {} -> None
      [] Cardinality(Naming(t, x)) = 1 ->
            LET row == association[CHOOSE i \in Naming(t, x) : TRUE]
            IN  [quantity |-> row.quantity, revision |-> row.revision]
      [] OTHER -> "twice"

Place(c) ==
    CASE Placing(c) = {} -> None
      [] Cardinality(Placing(c)) = 1 -> association[CHOOSE i \in Placing(c) : TRUE].tag
      [] OTHER -> "two places"

\* A copy is a copy of the account while it is owned, once.
OwnedCopy(c) ==
    IF copy[c] = None \/ Cardinality(Naming(Owned, c)) = 1 THEN copy[c] ELSE "not owned"

Promise == INSTANCE PrivateRecords WITH
    label <- [t \in Intended \cup Locations |-> tag[t]],
    intent <- [t \in Intended |-> [x \in Targets |-> Intent(t, x)]],
    copy <- [c \in Copies |-> OwnedCopy(c)],
    place <- [c \in Copies |-> Place(c)]

\* However their statements interleave, transactions take effect one at a
\* time, each on the records as they are when it commits: no quantity a
\* confirmation added is overwritten, no target is named twice by one tag, no
\* copy is in two places or without its owner, and every change has a private
\* revision of its own.
KeepsPromise == Promise!Spec

\* What waits for what, over every row and index key.
WaitsFor(v, w) == v # w /\ Busy(v) /\ Needs(v) \cap held[w] # {}

\* Writers never wait for one another in a circle, whatever they change: tags
\* and copies are taken before references, references in one order, and the
\* associations after them.  And a writer whose target another writer claimed
\* first waits for it on the tag and then reads it: none fails the index of
\* association targets, which would report an editing conflict as an outage.
WritersYield ==
    /\ \A S \in (SUBSET Workers) \ {{}} : \E v \in S : \A w \in S : ~WaitsFor(v, w)
    /\ \A w \in Workers : work[w].at = "ended" => work[w].outcome # "violation"

\* The pages a reader joined are the list as it is, while nothing changed.
PagesOfOneState ==
    \A r \in Readers :
        LET at == reader[r]
        IN  at.token = revision =>
               /\ IsPrefix(at.listed, Listing(at.tag))
               /\ Len(at.listed) = Min({at.offset, Len(Listing(at.tag))})
=============================================================================
