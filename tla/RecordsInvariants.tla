------------------------- MODULE RecordsInvariants -----------------------------
(***************************************************************************)
(* What is true, after every statement, commit and batch, of one account's *)
(* records, of the transactions that change them, of the readers that page *)
(* through them and of the loads of a prepared collection.                 *)
(***************************************************************************)
EXTENDS MigrationLoad

--------
(* The transactions: what they hold, wrote and read.                       *)

Places == {"idle", "lock", "refer", "write", "key", "explain", "read", "add", "copy",
           "commit", "ended"}

\* The association rows a transaction wrote, which its commit publishes.
Changes(w) == work[w].written.association

\* Rows of some of the keys.
Partial(K, R) == UNION {[D -> R] : D \in SUBSET K}

Writtens ==
    [tag : Partial(Tags, Nat),
     association : Partial(Ids, Rows \cup {None}),
     copy : Partial(Copies, CopyRows),
     reference : SUBSET Nat]

TransactionRecords ==
    [at : Places \ {"idle"}, request : Requests, written : Writtens, refer : SUBSET Nat,
     targets : SUBSET Targets, found : 1 .. MaxQuantity \cup {None},
     outcome : {None, "done", "conflict", "violation", "missing", "duplicate",
                "invalid-request", "unavailable"}]

\* A confirmation goes through what the import wants.
Transactions ==
    {t \in TransactionRecords : t.request.op = "confirm" => t.targets \subseteq DOMAIN t.request.wanted}

Shapes ==
    /\ tag \in [Tags -> Nat] /\ copy \in [Copies -> CopyRows \cup {None}]
    /\ association \in [Ids -> Rows \cup {None}]
    /\ issued \in 0 .. MaxIssued /\ Stored \subseteq 1 .. issued
    /\ held = [w \in Workers |-> held[w]] /\ work = [w \in Workers |-> work[w]]
    /\ \A w \in Workers : work[w] = Idle \/ work[w] \in Transactions

Locking == {"insertAssociation", "correctAssociation", "confirm", "insertCopies"}

\* Which statements a request comes to.
Follows(w) ==
    /\ work[w].at = "lock" => Asked(w).op \in Locking
    /\ work[w].at = "copy" => Asked(w).op \in {"moveCopyLocation", "correctCopy"}
    /\ work[w].at = "refer" => Asked(w).op \in Locking \cup {"correctCopy"}
    /\ work[w].at = "key" => Asked(w).op = "correctAssociation"
    /\ work[w].at \in {"read", "add"} => Asked(w).op = "confirm"
    /\ work[w].at = "add" => work[w].targets # {}
    /\ work[w].at = "write" => Asked(w).op \notin {"confirm", "correctCopy"}

\* A first statement that waits holds nothing yet.
Beginning(w) ==
    \/ work[w].at \in {"idle", "ended", "lock", "copy"}
    \/ /\ work[w].at = "write"
       /\ Asked(w).op \in {"createTag", "correctTag", "removeAssociation"}

Locked(w) == work[w].at \notin {"idle", "ended", "lock"}

\* Who writes into a tag holds its row.
DomainHeld(w) ==
    Locked(w) =>
        /\ Asked(w).op \in {"insertAssociation", "confirm"} => TagRow(Asked(w).tag) \in held[w]
        /\ Asked(w).op = "correctAssociation" /\ Asked(w).id \in Stored =>
              TagRow(association[Asked(w).id].tag) \in held[w]

\* References are taken in the order of their identities.
ReferencesInOrder(w) ==
    work[w].at = "refer" =>
        \A p, q \in Nat : ReferenceRow(p) \in held[w] /\ q \in work[w].refer => p < q

\* An association's row is held with its tag's, or by a transaction that waits
\* for nothing any more.
RowsHeld(w) ==
    /\ \A i \in Ids : AssociationRow(i) \in held[w] =>
          /\ i \in Stored
          /\ \/ work[w].at = "commit"
             \/ association[i].tag \in Intended /\ TagRow(association[i].tag) \in held[w]
    /\ \A t \in Tags, x \in Targets : Key(t, x) \in held[w] => TagRow(t) \in held[w]

\* What a request names was there, and what is removed does not come back.
NamedStays(w) ==
    Busy(w) /\ Asked(w).op \in {"correctAssociation", "removeAssociation"} =>
        LET i == Asked(w).id
        IN  /\ i \in 1 .. issued
            /\ i \in Stored => association[i].tag \in Intended
            /\ i \notin Stored => \A v \in Workers : Busy(v) => i \notin DOMAIN Changes(v)

\* What a transaction wrote it holds; what is asked for stays with its tag.
ChangesHeld(w) ==
    Busy(w) =>
        \A i \in DOMAIN Changes(w) :
            LET row == Changes(w)[i]
            IN  /\ i <= issued
                /\ i \in Stored => AssociationRow(i) \in held[w]
                /\ row # None =>
                      /\ row.tag \in Intended => TagRow(row.tag) \in held[w]
                      /\ i \in Stored /\ association[i].tag \in Intended =>
                            row.tag = association[i].tag

\* What a statement read still holds when the next one writes.
ReadStill(w) ==
    /\ work[w].at = "key" =>
          AssociationRow(Asked(w).id) \in held[w] /\ ~NamedByAnother(Asked(w))
    /\ work[w].at = "add" /\ work[w].found = None => Naming(Asked(w).tag, NextTarget(w)) = {}
    /\ work[w].at = "ended" => work[w].outcome # "violation"

WorkerInv(w) ==
    /\ Follows(w) /\ (Beginning(w) => held[w] = {}) /\ DomainHeld(w) /\ ReferencesInOrder(w)
    /\ RowsHeld(w) /\ NamedStays(w) /\ ChangesHeld(w) /\ ReadStill(w)

\* A row and a written change are one transaction's.
Exclusive ==
    \A v, w \in Workers : v # w =>
        /\ held[v] \cap held[w] = {}
        /\ Busy(v) /\ Busy(w) => DOMAIN Changes(v) \cap DOMAIN Changes(w) = {}

ReferencesBounded ==
    \E n \in Nat : \A w \in Workers : Busy(w) => work[w].refer \subseteq 0 .. n

YieldInv ==
    /\ Shapes /\ Exclusive /\ ReferencesBounded
    /\ \A w \in Workers : WorkerInv(w)

--------
(* The loaders: what they load are plans.                                  *)

LoadersInv ==
    /\ loader = [l \in Loaders |-> loader[l]]
    /\ \A l \in Loaders :
          /\ loader[l].at \in {"recorded", "start", "apply"} => loader[l].plan \in Plans
          /\ loader[l].at = "apply" => loader[l].next \in Nat \ {0}

--------
(* The readers: what they joined of a tag's list.                          *)

\* What a reader joined of a list.
Joined(q, whole) ==
    /\ Len(q.listed) = IF q.offset <= Len(whole) THEN q.offset ELSE Len(whole)
    /\ \A n \in 1 .. Len(q.listed) : q.listed[n] = whole[n]

Unread(q) == q.token = None /\ q.offset = 0 /\ q.listed = <<>> /\ q.tag = None

Reading(q) ==
    /\ q.token \in 0 .. revision /\ q.tag \in Intended /\ q.offset \in Nat
    /\ q.listed \in Seq(Ids)
    /\ q.token = revision => Joined(q, Listing(q.tag))

PagesInv ==
    /\ revision \in Nat /\ reader = [r \in Readers |-> reader[r]]
    /\ \A r \in Readers :
          /\ Unread(reader[r]) \/ Reading(reader[r])
          /\ reader[r] = [tag |-> reader[r].tag, offset |-> reader[r].offset,
                          token |-> reader[r].token, listed |-> reader[r].listed,
                          ended |-> reader[r].ended]

--------
(* The records, at any time: a key names one row, and a copy of the account *)
(* is owned.                                                               *)

\* What some rows name, and where they place a copy.
Names(a, i, t, x) == a[i] # None /\ a[i].tag = t /\ a[i].target = x
PlacesIt(a, i, c) == a[i] # None /\ a[i].tag \in Locations /\ a[i].target = c

\* Two rows of one key, or of one copy's place.
Rivals(row, other) ==
    /\ row.target = other.target
    /\ row.tag = other.tag \/ (row.tag \in Locations /\ other.tag \in Locations)

Sound(a, k) ==
    /\ \A i, j \in Ids : a[i] # None /\ a[j] # None /\ Rivals(a[i], a[j]) => i = j
    /\ \A i \in Ids : a[i] # None /\ a[i].tag \notin Intended => k[a[i].target] # None
    /\ \A c \in Copies : k[c] # None => \E i \in Ids : Names(a, i, Owned, c)

(* What a transaction wrote is the change it was asked for, of the records *)
(* as they are.                                                            *)

Copying(w) == work[w].written.copy
Tagging(w) == work[w].written.tag

TagWritten(w) ==
    LET r == Asked(w)
    IN  /\ r.op \notin {"createTag", "correctTag"} => DOMAIN Tagging(w) \subseteq {Owned}
        /\ r.op \in {"createTag", "correctTag"} =>
              /\ DOMAIN Changes(w) = {} /\ DOMAIN Copying(w) = {}
              /\ r.op = "createTag" => tag[r.tag] = 0
              /\ IF work[w].at = "commit"
                 THEN /\ DOMAIN Tagging(w) = {r.tag} /\ Tagging(w)[r.tag] = tag[r.tag] + 1
                      /\ r.tag # Owned
                      /\ r.op = "correctTag" => tag[r.tag] > 0 /\ TagRow(r.tag) \in held[w]
                 ELSE DOMAIN Tagging(w) = {}

\* One row that a request writes.
WroteRow(w, i, row) == DOMAIN Changes(w) = {i} /\ Changes(w)[i] = row

AssociationWritten(w) ==
    LET r == Asked(w)
    IN  r.op \in {"insertAssociation", "correctAssociation", "removeAssociation"} =>
            /\ DOMAIN Copying(w) = {}
            /\ work[w].at # "commit" => DOMAIN Changes(w) = {}
            /\ work[w].at = "commit" =>
                  /\ r.op = "insertAssociation" =>
                        /\ Naming(r.tag, r.target) = {}
                        /\ \E i \in Ids \ Stored : WroteRow(w, i, Row(r.tag, r.target, r.quantity, 1))
                  /\ r.op = "correctAssociation" =>
                        /\ r.id \in Stored /\ Naming(association[r.id].tag, r.target) \subseteq {r.id}
                        /\ WroteRow(w, r.id, Advanced([association[r.id] EXCEPT
                               !.target = r.target, !.quantity = r.quantity]))
                  /\ r.op = "removeAssociation" => r.id \in Stored /\ WroteRow(w, r.id, None)

\* What a confirmation wrote for one target.
Confirms(w, i) ==
    LET r == Asked(w)
        row == Changes(w)[i]
    IN  /\ row # None /\ row.tag = r.tag
        /\ row.target \in DOMAIN r.wanted \ work[w].targets
        /\ Naming(r.tag, row.target) \subseteq {i}
        /\ i \notin Stored => row.revision = 1
        /\ i \in Stored =>
              /\ association[i].tag = r.tag /\ association[i].target = row.target
              /\ row.revision = association[i].revision + 1
              /\ row.quantity > association[i].quantity

ConfirmWritten(w) ==
    LET r == Asked(w)
    IN  r.op = "confirm" =>
            /\ DOMAIN Copying(w) = {}
            /\ \A i \in DOMAIN Changes(w) : Confirms(w, i)
            /\ \A i, j \in DOMAIN Changes(w) : Changes(w)[i].target = Changes(w)[j].target => i = j
            /\ work[w].at \notin {"read", "add", "commit"} => DOMAIN Changes(w) = {}
            /\ work[w].at = "add" /\ work[w].found # None =>
                  \A i \in Naming(r.tag, NextTarget(w)) : association[i].quantity = work[w].found

\* The copy of a request is there, and written.
CopyWritten(w, row) ==
    LET c == Asked(w).copy
    IN  /\ copy[c] # None /\ CopyRow(c) \in held[w]
        /\ DOMAIN Copying(w) = {c} /\ Copying(w)[c] = row

MoveWritten(w) ==
    LET r == Asked(w)
    IN  r.op = "moveCopyLocation" =>
            /\ IF work[w].at \in {"write", "commit"} THEN CopyWritten(w, Advanced(copy[r.copy]))
               ELSE DOMAIN Copying(w) = {}
            /\ work[w].at # "commit" => DOMAIN Changes(w) = {}
            /\ work[w].at = "commit" =>
                  \/ Placing(r.copy) = {} /\ r.place = None /\ DOMAIN Changes(w) = {}
                  \/ /\ Placing(r.copy) = {} /\ r.place # None
                     /\ \E i \in Ids \ Stored : WroteRow(w, i, Row(r.place, r.copy, None, 1))
                  \/ \E i \in Placing(r.copy) :
                        /\ Placing(r.copy) = {i}
                        /\ WroteRow(w, i, IF r.place = None THEN None
                                            ELSE Advanced([association[i] EXCEPT !.tag = r.place]))

CorrectionWritten(w) ==
    LET r == Asked(w)
    IN  r.op = "correctCopy" =>
            /\ DOMAIN Changes(w) = {}
            /\ IF work[w].at \in {"refer", "commit"}
               THEN CopyWritten(w, Advanced([copy[r.copy] EXCEPT !.printing = r.printing]))
               ELSE DOMAIN Copying(w) = {}

CopiesWritten(w) ==
    LET r == Asked(w)
    IN  r.op = "insertCopies" =>
            /\ copy[r.copy] = None
            /\ IF work[w].at # "commit" THEN DOMAIN Copying(w) = {} /\ DOMAIN Changes(w) = {}
               ELSE /\ DOMAIN Copying(w) = {r.copy}
                    /\ Copying(w)[r.copy] = [printing |-> r.printing, revision |-> 1]
                    /\ \E i \in Ids \ Stored : WroteRow(w, i, Row(Owned, r.copy, None, 1))

Written(w) ==
    /\ TagWritten(w) /\ AssociationWritten(w) /\ ConfirmWritten(w) /\ MoveWritten(w)
    /\ CorrectionWritten(w) /\ CopiesWritten(w)

\* Two requests never compose one identity.
Composed ==
    \A v, w \in Workers : v # w /\ work[v].at # "idle" /\ work[w].at # "idle"
                          /\ Asked(v).op = Asked(w).op =>
        /\ Asked(w).op = "createTag" => Asked(v).tag # Asked(w).tag
        /\ Asked(w).op = "insertCopies" => Asked(v).copy # Asked(w).copy

LoadsVerified ==
    \A l \in Loaders : loader[l].at \in {"recorded", "start", "apply"} => Verified(loader[l].plan)

PromiseInv ==
    /\ Sound(association, copy) /\ Composed /\ LoadsVerified
    /\ \A w \in Workers : Busy(w) => Written(w)

--------
(* What a load recorded and what it found.                                  *)

\* The receipts of the first batches of a plan.
Receipts(p, k) == {[index |-> n, batch |-> BatchesOf[p][n]] : n \in 1 .. k}
Count(s) == Cardinality(receipt[s])

\* None of a batch's records is there; whether its associations are, their
\* tags say.
Absent(b) ==
    CASE b.kind = "tags" -> \A t \in b.records : tag[t] = 0
      [] b.kind = "copies" -> \A c \in DOMAIN b.records : copy[c] = None
      [] b.kind = "associations" -> TRUE
      [] OTHER -> b.records \cap imported = {}

Migrations == [plan : Plans, state : {"loading", "completed"}]

\* A migration is of its plan; the recorded batches are its first ones, and
\* no record of another batch is there yet.
LoadingAgrees(s) ==
    LET p == migration[s].plan
        last == Len(BatchesOf[p])
    IN  /\ migration[s] \in Migrations /\ p.snapshot = s
        /\ Count(s) \in 0 .. last /\ receipt[s] = Receipts(p, Count(s))
        /\ migration[s].state = "completed" => Count(s) = last
        /\ \A n \in 1 .. Count(s) : Present(BatchesOf[p][n])
        /\ \A n \in Count(s) + 1 .. last : Absent(BatchesOf[p][n])

\* The records of an account never go away altogether: what is held of them
\* besides associations.
RecordsHeld ==
    \/ (\E t \in Tags : tag[t] > 0) \/ (\E c \in Copies : copy[c] # None) \/ imported # {}
    \/ \E s \in Snapshots : migration[s] # None

\* Where a load is, and why it ended.
LoaderAgrees(l) ==
    LET s == Snapshot(l)
    IN  /\ loader[l].at \in {"idle", "recorded", "start", "apply", "ended"}
        /\ loader[l].at # "idle" => loader[l].plan \in Plans
        /\ loader[l].at = "apply" =>
              /\ RecordedInput(l) /\ loader[l].next \in 1 .. Count(s) + 1
              /\ loader[l].known \subseteq 1 .. Count(s)
        /\ loader[l].at = "ended" /\ loader[l].outcome = "loaded" =>
              RecordedInput(l) /\ migration[s].state = "completed"
        /\ loader[l].at = "ended" /\ loader[l].outcome = "conflict" =>
              OtherInput(l) \/ (migration[s] = None /\ RecordsHeld)

\* What a request adds to goes on being there, and what it wrote is.
AsksOfRecords(w) ==
    /\ Asked(w).op \in {"insertAssociation", "confirm"} => tag[Asked(w).tag] > 0
    /\ \A t \in DOMAIN Tagging(w) : Tagging(w)[t] > 0

WholeInv ==
    /\ migration = [s \in Snapshots |-> migration[s]] /\ receipt = [s \in Snapshots |-> receipt[s]]
    /\ loader = [l \in Loaders |-> loader[l]]
    /\ \A s \in Snapshots : migration[s] = None => receipt[s] = {}
    /\ \A s \in Snapshots : migration[s] # None => LoadingAgrees(s)
    /\ \A s, t \in Snapshots : migration[s] # None /\ migration[t] # None => s = t
    /\ \A l \in Loaders : LoaderAgrees(l)
    /\ \A w \in Workers : Busy(w) => AsksOfRecords(w)
    /\ Stored # {} => RecordsHeld
=============================================================================
