---------------------------- MODULE MigrationLoad ----------------------------
(***************************************************************************)
(* The loading of a prepared collection into an empty account, batch by    *)
(* batch, with a receipt of each batch (src/usercards/internal/            *)
(* migration.ts, migration-service.ts, migration-plan.ts), beside the      *)
(* requests of Organization.  Every transaction of a load takes the        *)
(* account's row first, so it takes effect whole; it fails when it meets a *)
(* row that an open transaction wrote, because that one will need the      *)
(* account's row too.                                                      *)
(***************************************************************************)
EXTENDS Organization

CONSTANTS
    Loaders,        \* concurrent runs of the loading tool
    Snapshots,      \* what a plan was prepared from, the migration's identity
    Plans,          \* [snapshot, tags, copies, placed, associations, sessions, pending]
    BatchRecords,   \* maxMigrationBatchRecords
    MaxLoads        \* bound on how often one loader is run again

ASSUME LoadAssumption == MaxLoads \in Nat /\ BatchRecords \in Nat \ {0}

\* What a plan's parser admits (migration-plan.ts), record by record.
ASSUME PlanAssumption ==
    \A p \in Plans :
        /\ p.tags \subseteq Tags /\ p.placed \subseteq Locations \X Copies
        /\ DOMAIN p.copies \subseteq Copies
        /\ \A c \in DOMAIN p.copies : p.copies[c] \in Printings
        /\ p.associations \subseteq Rows
        /\ IsFiniteSet(p.tags) /\ IsFiniteSet(DOMAIN p.copies) /\ IsFiniteSet(p.placed)
        /\ IsFiniteSet(p.associations) /\ IsFiniteSet(p.sessions) /\ IsFiniteSet(p.pending)

\* A plan brings tags of the user's own kinds, never the account's; sessions and
\* entries are records of two tables.
ASSUME KindsAssumption ==
    /\ \A p \in Plans :
          /\ p.snapshot \in Snapshots /\ Owned \notin p.tags
          /\ p.sessions \cap p.pending = {}
    /\ None \notin [plan : Plans, state : {"loading", "completed"}]

\* The identities that a service composes for a request are in no plan.
ASSUME FreshAssumption ==
    \A p \in Plans, r \in Requests :
        /\ r.op = "createTag" => r.tag \notin p.tags
        /\ r.op = "insertCopies" => r.copy \notin DOMAIN p.copies

VARIABLES
    migration,      \* [Snapshots -> [plan, state] or None]
    receipt,        \* [Snapshots -> the batches recorded, in a set of [index, batch]]
    imported,       \* the import sessions and the pending entries
    loader          \* [Loaders -> where its load is]

loading == <<migration, receipt, imported, loader>>
loadVars == <<vars, loading>>

(* A prepared plan and its batches.                                        *)

\* verifyPlanAccount: what a plan's records refer to, it carries.  A copy that a
\* deck or another tag names is one of `associations` (see Rows of Organization),
\* where the code stores it with the copy it names (migration-plan.ts:392-405).
Verified(p) ==
    /\ \A r \in p.associations : r.tag \in p.tags \cap Intended
    /\ \A at \in p.placed : at[1] \in p.tags \cap Locations /\ at[2] \in DOMAIN p.copies
    /\ \A e \in p.pending : e.session \in p.sessions

Chunks(records) ==
    LET s == SetToSeq(records)
    IN  [n \in 1 .. (Len(s) + BatchRecords - 1) \div BatchRecords |->
            {s[i] : i \in (n - 1) * BatchRecords + 1 .. Min({n * BatchRecords, Len(s)})}]

Batch(kind, groups) == [n \in DOMAIN groups |-> [kind |-> kind, records |-> groups[n]]]

\* Tags, the copies with the places they are in, further associations, import
\* sessions and pending entries, in this order.
MigrationBatches(p) ==
    Batch("tags", Chunks(p.tags))
    \o [n \in DOMAIN Chunks(DOMAIN p.copies) |->
           LET group == Chunks(DOMAIN p.copies)[n]
           IN  [kind |-> "copies", records |-> [c \in group |-> p.copies[c]],
                memberships |-> {at \in p.placed : at[2] \in group}]]
    \o Batch("associations", Chunks(p.associations))
    \o Batch("sessions", Chunks(p.sessions))
    \o Batch("entries", Chunks(p.pending))

BatchesOf == [p \in Plans |-> MigrationBatches(p)]

--------

Resting == [at |-> "idle", loads |-> 0]

Recorded(s) == {r.index : r \in receipt[s]}
Snapshot(l) == loader[l].plan.snapshot
Batches(l) == BatchesOf[loader[l].plan]
Ended(l, outcome) ==
    loader' = [loader EXCEPT ![l] = [at |-> "ended", loads |-> loader[l].loads,
                                     plan |-> loader[l].plan, outcome |-> outcome]]
Proceeds(l, at, known, next) ==
    loader' = [loader EXCEPT ![l] = [at |-> at, loads |-> loader[l].loads,
                                     plan |-> loader[l].plan, known |-> known, next |-> next]]

RecordedInput(l) == migration[Snapshot(l)] # None /\ migration[Snapshot(l)].plan = loader[l].plan
OtherInput(l) == migration[Snapshot(l)] # None /\ migration[Snapshot(l)].plan # loader[l].plan

\* requireEveryBatchRecorded
Whole(l) == Cardinality(receipt[Snapshot(l)]) = Len(Batches(l))

Load(l, p) ==
    /\ loader[l].at \in {"idle", "ended"} /\ loader[l].loads < MaxLoads /\ Verified(p)
    /\ loader' = [loader EXCEPT ![l] = [at |-> "recorded", loads |-> loader[l].loads + 1, plan |-> p]]
    /\ UNCHANGED <<vars, migration, receipt, imported>>

\* A completed load is recognized before the target Catalog is consulted.
ReadRecorded(l) ==
    /\ loader[l].at = "recorded"
    /\ IF OtherInput(l) THEN Ended(l, "conflict")
       ELSE IF RecordedInput(l) /\ migration[Snapshot(l)].state = "completed"
       THEN Ended(l, IF Whole(l) THEN "loaded" ELSE "unavailable")
       ELSE Proceeds(l, "start", {}, 1)
    /\ UNCHANGED <<vars, migration, receipt, imported>>

AccountHoldsRecords ==
    \/ \E t \in Tags : tag[t] > 0
    \/ Stored # {} \/ (\E c \in Copies : copy[c] # None) \/ imported # {}
    \/ \E s \in Snapshots : migration[s] # None

Start(l) ==
    LET s == Snapshot(l)
    IN  /\ loader[l].at = "start"
        /\ IF migration[s] = None /\ ~AccountHoldsRecords
           THEN /\ migration' = [migration EXCEPT ![s] = [plan |-> loader[l].plan, state |-> "loading"]]
                /\ Proceeds(l, "apply", {}, 1)
           ELSE /\ UNCHANGED migration
                /\ IF ~RecordedInput(l) THEN Ended(l, "conflict")
                   ELSE IF migration[s].state = "loading" THEN Proceeds(l, "apply", Recorded(s), 1)
                   ELSE Ended(l, IF Whole(l) THEN "loaded" ELSE "unavailable")
        /\ UNCHANGED <<vars, receipt, imported>>

\* The rows and keys a batch inserts, and the tags they refer to.
RowsOf(b) ==
    CASE b.kind = "tags" -> {TagRow(t) : t \in b.records}
      [] b.kind = "copies" -> 
            {TagRow(Owned)} \cup UNION {{TagRow(m[1]), Key(m[1], m[2])} : m \in b.memberships}
      [] b.kind = "associations" -> UNION {{TagRow(r.tag), Key(r.tag, r.target)} : r \in b.records}
      [] OTHER -> {}

\* A row that is there, or a second one under the same key or of the same
\* copy's place, fails the batch.
Insertable(b) ==
    /\ \A w \in Workers : RowsOf(b) \cap held[w] = {}
    /\ b.kind = "tags" => \A t \in b.records : tag[t] = 0
    /\ b.kind = "copies" =>
          /\ \A c \in DOMAIN b.records : copy[c] = None
          /\ \A m, n \in b.memberships : m[2] = n[2] => m = n
    /\ b.kind = "associations" =>
          /\ \A r \in b.records : Naming(r.tag, r.target) = {}
          /\ \A r, s \in b.records : r.tag = s.tag /\ r.target = s.target => r = s

Associate(rows) ==
    /\ issued + Len(rows) <= MaxIssued
    /\ issued' = issued + Len(rows)
    /\ association' = [i \in Ids |-> IF i \in issued + 1 .. issued + Len(rows)
                                     THEN rows[i - issued] ELSE association[i]]

\* writeBatch: the copies are stored with the tag that owns them and with
\* where they are.
WriteBatch(b) ==
    \/ /\ b.kind = "tags"
       /\ tag' = Over([t \in b.records |-> 1], tag)
       /\ Advance
       /\ UNCHANGED <<association, copy, issued, imported>>
    \/ /\ b.kind = "copies"
       /\ tag' = [tag EXCEPT ![Owned] = IF tag[Owned] = 0 THEN 1 ELSE tag[Owned]]
       /\ copy' = Over([c \in DOMAIN b.records |-> [printing |-> b.records[c], revision |-> 1]], copy)
       /\ Associate(SetToSeq({Row(Owned, c, None, 1) : c \in DOMAIN b.records}
                             \cup {Row(m[1], m[2], None, 1) : m \in b.memberships}))
       /\ Advance
       /\ UNCHANGED imported
    \/ /\ b.kind = "associations"
       /\ Associate(SetToSeq(b.records))
       /\ Advance
       /\ UNCHANGED <<tag, copy, imported>>
    \/ /\ b.kind \in {"sessions", "entries"}
       /\ imported' = imported \cup b.records
       /\ UNCHANGED <<tag, association, copy, issued, revision>>

\* Slip: a batch of a migration that was completed meanwhile is refused first.
ReplayedSlip(l) ==
    loader[l].next \in Recorded(Snapshot(l)) /\ migration[Snapshot(l)].state = "loading"

\* The batch was recorded by another run since the receipts were read.
Replayed(l) == loader[l].next \in Recorded(Snapshot(l))

Following(l) == Proceeds(l, "apply", loader[l].known, loader[l].next + 1)

Skip(l) ==
    /\ loader[l].at = "apply" /\ loader[l].next \in loader[l].known
    /\ Following(l)
    /\ UNCHANGED <<vars, migration, receipt, imported>>

\* applyBatch
ApplyBatch(l) ==
    LET s == Snapshot(l)
        b == Batches(l)[loader[l].next]
    IN  /\ loader[l].at = "apply" /\ loader[l].next <= Len(Batches(l))
        /\ loader[l].next \notin loader[l].known
        /\ \/ /\ Replayed(l)
              /\ Following(l)
              /\ UNCHANGED <<vars, migration, receipt, imported>>
           \/ /\ ~Replayed(l) /\ migration[s].state # "loading"
              /\ Ended(l, "conflict")
              /\ UNCHANGED <<vars, migration, receipt, imported>>
           \/ /\ ~Replayed(l) /\ migration[s].state = "loading" /\ Insertable(b)
              /\ WriteBatch(b)
              /\ receipt' = [receipt EXCEPT ![s] = @ \cup {[index |-> loader[l].next, batch |-> b]}]
              /\ Following(l)
              /\ UNCHANGED <<migration, reference, held, work, reader>>

\* complete, and the report of the whole load
Complete(l) ==
    LET s == Snapshot(l)
    IN  /\ loader[l].at = "apply" /\ loader[l].next > Len(Batches(l))
        /\ migration' = [migration EXCEPT ![s].state = "completed"]
        /\ Ended(l, IF Whole(l) THEN "loaded" ELSE "unavailable")
        /\ UNCHANGED <<vars, receipt, imported>>

\* The Catalog does not publish the plan's records, a transaction fails or its
\* answer is lost, or the tool stops.
Interrupt(l) ==
    /\ loader[l].at \in {"recorded", "start", "apply"}
    /\ Ended(l, "unavailable")
    /\ UNCHANGED <<vars, migration, receipt, imported>>

Loading(l) ==
    \/ \E p \in Plans : Load(l, p)
    \/ ReadRecorded(l) \/ Start(l) \/ Skip(l) \/ ApplyBatch(l) \/ Complete(l) \/ Interrupt(l)

LoadInit ==
    /\ Init
    /\ migration = [s \in Snapshots |-> None]
    /\ receipt = [s \in Snapshots |-> {}]
    /\ imported = {}
    /\ loader = [l \in Loaders |-> Resting]

LoadNext ==
    \/ Next /\ UNCHANGED loading
    \/ \E l \in Loaders : Loading(l)

LoadSpec == LoadInit /\ [][LoadNext]_loadVars

--------

Present(b) ==
    CASE b.kind = "tags" -> \A t \in b.records : tag[t] > 0
      [] b.kind = "copies" -> \A c \in DOMAIN b.records : copy[c] # None
      [] b.kind = "associations" -> TRUE
      [] OTHER -> b.records \subseteq imported

\* However loads are interrupted, repeated and run beside one another and
\* beside the account's own requests, an account holds one migration, a batch
\* is written exactly when it is recorded, the recorded batches are the first
\* ones of its plan, and a migration is completed, and reported as loaded,
\* only with every batch of it.
LoadedWhole ==
    /\ \A s, t \in Snapshots : migration[s] # None /\ migration[t] # None => s = t
    /\ \A s \in Snapshots : migration[s] # None =>
          LET batches == BatchesOf[migration[s].plan]
          IN  /\ Recorded(s) = 1 .. Cardinality(receipt[s])
              /\ \A n \in DOMAIN batches :
                    IF n \in Recorded(s) THEN Present(batches[n])
                    ELSE batches[n].kind # "associations" => ~Present(batches[n])
              /\ migration[s].state = "completed" => Recorded(s) = DOMAIN batches
    /\ \A l \in Loaders : loader[l].at = "ended" /\ loader[l].outcome = "loaded" =>
          RecordedInput(l) /\ migration[Snapshot(l)].state = "completed"

\* A load of the plan an account recorded is resumed or answered, never
\* refused, also when another run completes it meanwhile.
RepeatedPlanResumes ==
    \A l \in Loaders : loader[l].at = "ended" /\ loader[l].outcome = "conflict" => ~RecordedInput(l)

\* A plan is loaded once, whole, and however often it is repeated.
LoadedOnce == LoadedWhole /\ RepeatedPlanResumes
=============================================================================
