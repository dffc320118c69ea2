------------------------- MODULE PrivateRecords_proofs -------------------------
(***************************************************************************)
(* What the transactions of one account promise, for any number of callers *)
(* and loaders, any tags and any records: writers never wait for one       *)
(* another in a circle, a list read page by page is of one state, and the  *)
(* records keep the promise of PrivateRecords, and a collection is loaded  *)
(* into them once.                                                         *)
(***************************************************************************)
EXTENDS RecordsInvariants, FiniteSetTheorems, SequenceTheorems, WellFoundedInduction, TLAPS

--------
(* Numbers, rows and records.                                              *)

LEMMA LeastOf ==
    ASSUME NEW S \in SUBSET Nat, S # {}
    PROVE  Min(S) \in S /\ \A y \in S : Min(S) <= y
<1> DEFINE Less == {ss \in Nat \X Nat : ss[1] < ss[2]}
<1>1. IsWellFoundedOn(Less, Nat)
  BY NatLessThanWellFounded DEF OpToRel
<1> HIDE DEF Less
<1>2. PICK n \in S : \A m \in S : ~(<<m, n>> \in Less)
  BY <1>1, WFMin
<1>3. ASSUME NEW m \in S PROVE n <= m
  <2>1. m \in Nat /\ n \in Nat /\ ~(m < n)
    BY <1>2 DEF Less
  <2> QED
    BY <2>1
<1> QED
  BY <1>2, <1>3 DEF Min

LEMMA RowNames ==
    /\ \A t, u : TagRow(t) = TagRow(u) => t = u
    /\ \A i, j : AssociationRow(i) = AssociationRow(j) => i = j
    /\ \A p, q : ReferenceRow(p) = ReferenceRow(q) => p = q
    /\ \A t, x, u, y : Key(t, x) = Key(u, y) => t = u /\ x = y
    /\ \A t, i : TagRow(t) # AssociationRow(i)
    /\ \A t, c : TagRow(t) # CopyRow(c)
    /\ \A t, p : TagRow(t) # ReferenceRow(p)
    /\ \A t, u, x : TagRow(t) # Key(u, x)
    /\ \A i, c : AssociationRow(i) # CopyRow(c)
    /\ \A i, p : AssociationRow(i) # ReferenceRow(p)
    /\ \A i, u, x : AssociationRow(i) # Key(u, x)
    /\ \A c, p : CopyRow(c) # ReferenceRow(p)
    /\ \A c, u, x : CopyRow(c) # Key(u, x)
    /\ \A p, u, x : ReferenceRow(p) # Key(u, x)
BY DEF TagRow, AssociationRow, ReferenceRow, CopyRow, Key

\* One row put into what a transaction wrote.
LEMMA PutRow ==
    ASSUME NEW K, NEW R, NEW D \in SUBSET K, NEW f \in [D -> R], NEW k \in K, NEW row \in R
    PROVE  /\ Put(f, k, row) \in Partial(K, R)
           /\ DOMAIN Put(f, k, row) = D \cup {k}
           /\ Put(f, k, row)[k] = row
           /\ \A j \in D : j # k => Put(f, k, row)[j] = f[j]
<1>1. Put(f, k, row) \in [D \cup {k} -> R]
  BY DEF Put
<1>2. D \cup {k} \in SUBSET K
  OBVIOUS
<1>3. [D \cup {k} -> R] \in {[E -> R] : E \in SUBSET K}
  BY <1>2
<1>4. Put(f, k, row) \in Partial(K, R)
  BY <1>1, <1>3 DEF Partial
<1> QED
  BY <1>4 DEF Put

LEMMA AtFields ==
    ASSUME NEW t \in Transactions, NEW at \in Places \ {"idle"}
    PROVE  LET u == [t EXCEPT !.at = at]
           IN  /\ u \in Transactions /\ u.at = at /\ u.request = t.request
               /\ u.written = t.written /\ u.refer = t.refer /\ u.targets = t.targets
               /\ u.found = t.found /\ u.outcome = t.outcome
BY DEF Transactions, TransactionRecords

Writing(t, at, written) == [t EXCEPT !.at = at, !.written = written]

LEMMA WroteFields ==
    ASSUME NEW t \in Transactions, NEW at \in Places \ {"idle"}, NEW written \in Writtens
    PROVE  LET u == Writing(t, at, written)
           IN  /\ u \in Transactions /\ u.at = at /\ u.request = t.request
               /\ u.written = written /\ u.refer = t.refer /\ u.targets = t.targets
               /\ u.found = t.found /\ u.outcome = t.outcome
BY DEF Transactions, TransactionRecords, Writing

Referring(t, refer, written) == [t EXCEPT !.refer = refer, !.written = written]

LEMMA ReferredFields ==
    ASSUME NEW t \in Transactions, NEW refer \in SUBSET Nat, NEW written \in Writtens
    PROVE  LET u == Referring(t, refer, written)
           IN  /\ u \in Transactions /\ u.at = t.at /\ u.request = t.request
               /\ u.written = written /\ u.refer = refer /\ u.targets = t.targets
               /\ u.found = t.found /\ u.outcome = t.outcome
BY DEF Transactions, TransactionRecords, Referring

Ending(t, outcome) == [t EXCEPT !.at = "ended", !.outcome = outcome]

LEMMA EndedFields ==
    ASSUME NEW t \in Transactions,
           NEW outcome \in {None, "done", "conflict", "violation", "missing", "duplicate",
                            "invalid-request", "unavailable"}
    PROVE  LET u == Ending(t, outcome)
           IN  /\ u \in Transactions /\ u.at = "ended" /\ u.request = t.request
               /\ u.outcome = outcome
BY DEF Transactions, TransactionRecords, Ending, Places

Finding(t, found) == [t EXCEPT !.at = "add", !.found = found]

LEMMA FoundFields ==
    ASSUME NEW t \in Transactions, NEW found \in 1 .. MaxQuantity \cup {None}
    PROVE  LET u == Finding(t, found)
           IN  /\ u \in Transactions /\ u.at = "add" /\ u.request = t.request
               /\ u.written = t.written /\ u.refer = t.refer /\ u.targets = t.targets
               /\ u.found = found
BY DEF Transactions, TransactionRecords, Finding, Places

Adding(t, targets, written) == [t EXCEPT !.at = "read", !.targets = targets, !.written = written]

LEMMA AddedFields ==
    ASSUME NEW t \in Transactions, NEW targets \in SUBSET t.targets, NEW written \in Writtens
    PROVE  LET u == Adding(t, targets, written)
           IN  /\ u \in Transactions /\ u.at = "read" /\ u.request = t.request
               /\ u.written = written /\ u.refer = t.refer /\ u.targets = targets
               /\ u.found = t.found
BY DEF Transactions, TransactionRecords, Adding, Places

\* What a transaction wrote are rows of associations that were issued.
LEMMA TransactionChanges ==
    ASSUME YieldInv, NEW w \in Workers, Busy(w)
    PROVE  /\ work[w] \in Transactions /\ work[w].written \in Writtens
           /\ DOMAIN Changes(w) \in SUBSET Ids
           /\ Changes(w) \in [DOMAIN Changes(w) -> Rows \cup {None}]
           /\ \A i \in DOMAIN Changes(w) : i \in Nat
<1>1. work[w] \in Transactions
  BY DEF YieldInv, Shapes, Busy, Idle
<1>2. work[w].written \in Writtens
  BY <1>1 DEF Transactions, TransactionRecords
<1>3. Changes(w) \in Partial(Ids, Rows \cup {None})
  BY <1>2 DEF Writtens, Changes
<1> QED
  BY <1>1, <1>2, <1>3, AccountAssumption DEF Ids, Partial

--------
(* A statement leaves the committed records alone: the other transactions  *)
(* find everything as it was.                                              *)

\* What a transaction may have written after a statement.
Wrote(w, t, h) ==
    t.at # "ended" =>
        \A i \in DOMAIN t.written.association :
            \/ Busy(w) /\ i \in DOMAIN Changes(w)
            \/ i \in Stored /\ AssociationRow(i) \in h
            \/ i \in issued + 1 .. issued'

LEMMA StatementKeeps ==
    ASSUME YieldInv, NEW w \in Workers, NEW t \in Transactions, NEW h,
           UNCHANGED <<tag, association, copy>>, issued' \in issued .. MaxIssued,
           work' = [work EXCEPT ![w] = t], held' = [held EXCEPT ![w] = h],
           \A v \in Workers \ {w} : h \cap held[v] = {},
           Wrote(w, t, h),
           \E n \in Nat : t.refer \subseteq 0 .. n,
           WorkerInv(w)'
    PROVE  YieldInv'
<1>1. /\ work'[w] = t /\ held'[w] = h
      /\ \A v \in Workers \ {w} : work'[v] = work[v] /\ held'[v] = held[v]
      /\ work' = [v \in Workers |-> work'[v]] /\ held' = [v \in Workers |-> held'[v]]
  BY DEF YieldInv, Shapes
<1>2. /\ Stored' = Stored /\ issued \in Nat /\ issued' \in Nat /\ issued <= issued'
      /\ Stored \subseteq 1 .. issued
  BY DEF Stored, YieldInv, Shapes
<1>3. \A v \in Workers \ {w} : WorkerInv(v)
  BY DEF YieldInv
<1>4. Shapes'
  BY <1>1, <1>2 DEF YieldInv, Shapes
<1>5. ASSUME NEW v \in Workers \ {w}, NEW i \in DOMAIN t.written.association,
             Busy(v), t.at # "ended", i \in DOMAIN Changes(v)
      PROVE  FALSE
  <2>1. ChangesHeld(v) /\ \A u \in Workers : u # w => held[u] \cap h = {}
    BY <1>3 DEF WorkerInv
  <2>2. i <= issued /\ (i \in Stored => AssociationRow(i) \in held[v])
    BY <2>1, <1>5 DEF ChangesHeld
  <2>3. ~(Busy(w) /\ i \in DOMAIN Changes(w))
    BY <1>5 DEF YieldInv, Exclusive
  <2>4. ~(i \in Stored /\ AssociationRow(i) \in h)
    BY <2>1, <2>2
  <2>5. i \in issued + 1 .. issued'
    BY <1>5, <2>3, <2>4 DEF Wrote
  <2> QED
    BY <1>2, <2>2, <2>5
<1>6. Exclusive'
  <2>1. ASSUME NEW u \in Workers, NEW v \in Workers, u # v
        PROVE  /\ held'[u] \cap held'[v] = {}
               /\ (Busy(u) /\ Busy(v))' => (DOMAIN Changes(u) \cap DOMAIN Changes(v))' = {}
    <3>1. CASE u # w /\ v # w
      BY <1>1, <2>1, <3>1 DEF YieldInv, Exclusive, Busy, Changes
    <3>2. CASE u = w
      BY <1>1, <1>5, <2>1, <3>2 DEF Busy, Changes
    <3>3. CASE v = w
      BY <1>1, <1>5, <2>1, <3>3 DEF Busy, Changes
    <3> QED
      BY <3>1, <3>2, <3>3
  <2> QED
    BY <2>1 DEF Exclusive
<1>7. ReferencesBounded'
  <2>1. PICK m \in Nat : \A v \in Workers : Busy(v) => work[v].refer \subseteq 0 .. m
    BY DEF YieldInv, ReferencesBounded
  <2>2. PICK n \in Nat : t.refer \subseteq 0 .. n
    OBVIOUS
  <2>3. PICK k \in Nat : m <= k /\ n <= k
    <3>1. CASE m <= n
      BY <3>1
    <3>2. CASE ~(m <= n)
      BY <3>2
    <3> QED
      BY <3>1, <3>2
  <2>4. 0 .. m \subseteq 0 .. k /\ 0 .. n \subseteq 0 .. k
    BY <2>3
  <2>5. \A v \in Workers : Busy(v)' => work'[v].refer \subseteq 0 .. k
    BY <1>1, <2>1, <2>2, <2>4 DEF Busy
  <2> QED
    BY <2>5 DEF ReferencesBounded
<1>8. ASSUME NEW v \in Workers \ {w} PROVE WorkerInv(v)'
  <2>1. work'[v] = work[v] /\ held'[v] = held[v]
    BY <1>1
  <2>2. Follows(v)' /\ (Beginning(v) => held[v] = {})' /\ DomainHeld(v)' /\ ReferencesInOrder(v)'
    BY <1>2, <1>3, <2>1
       DEF WorkerInv, Follows, Beginning, DomainHeld, Locked, ReferencesInOrder, Asked
  <2>3. RowsHeld(v)'
    BY <1>2, <1>3, <2>1 DEF WorkerInv, RowsHeld
  <2>4. NamedStays(v)'
    <3> DEFINE i == Asked(v).id
    <3>1. ASSUME Busy(v), Asked(v).op \in {"correctAssociation", "removeAssociation"}
          PROVE  /\ i \in 1 .. issued' /\ (i \in Stored => association[i].tag \in Intended)
                 /\ i \notin Stored => \A u \in Workers : Busy(u)' => i \notin (DOMAIN Changes(u))'
      <4>1. NamedStays(v)
        BY <1>3 DEF WorkerInv
      <4>2. /\ i \in 1 .. issued /\ (i \in Stored => association[i].tag \in Intended)
            /\ i \notin Stored => \A u \in Workers : Busy(u) => i \notin DOMAIN Changes(u)
        BY <3>1, <4>1 DEF NamedStays
      <4>3. i \in 1 .. issued'
        BY <1>2, <4>2
      <4>4. ASSUME i \notin Stored, NEW u \in Workers, Busy(u)' PROVE i \notin (DOMAIN Changes(u))'
        <5>1. CASE u # w
          BY <1>1, <4>2, <4>4, <5>1 DEF Busy, Changes
        <5>2. CASE u = w
          <6>1. t.at # "ended"
            BY <1>1, <4>4, <5>2 DEF Busy
          <6>2. i \notin issued + 1 .. issued'
            BY <1>2, <4>2
          <6>3. i \notin DOMAIN t.written.association
            BY <4>2, <4>4, <6>1, <6>2 DEF Wrote
          <6> QED
            BY <1>1, <5>2, <6>3 DEF Changes
        <5> QED
          BY <5>1, <5>2
      <4> QED
        BY <4>2, <4>3, <4>4
    <3> QED
      BY <1>2, <2>1, <3>1 DEF NamedStays, Busy, Asked
  <2>5. ChangesHeld(v)'
    <3>1. ChangesHeld(v)
      BY <1>3 DEF WorkerInv
    <3>2. \A i \in DOMAIN Changes(v) : Busy(v) => i <= issued'
      <4>1. ASSUME NEW i \in DOMAIN Changes(v), Busy(v) PROVE i <= issued'
        <5>1. i <= issued
          BY <3>1, <4>1 DEF ChangesHeld
        <5>2. i \in Nat
          BY <4>1, TransactionChanges
        <5> QED
          BY <1>2, <5>1, <5>2
      <4> QED
        BY <4>1
    <3> QED
      BY <1>2, <2>1, <3>1, <3>2 DEF ChangesHeld, Changes, Busy
  <2>6. ReadStill(v)'
    BY <1>2, <1>3, <2>1
       DEF WorkerInv, ReadStill, Asked, NamedByAnother, Naming, NextTarget
  <2> QED
    BY <2>2, <2>3, <2>4, <2>5, <2>6 DEF WorkerInv
<1> QED
  BY <1>4, <1>6, <1>7, <1>8 DEF YieldInv

LEMMA BusyFacts ==
    ASSUME YieldInv, NEW w \in Workers, Busy(w)
    PROVE  /\ work[w] \in Transactions /\ Asked(w) \in Requests /\ work[w].at \in Places
           /\ work[w].at # "idle" /\ work[w].at # "ended"
           /\ WorkerInv(w)
           /\ \A v \in Workers \ {w} : held[w] \cap held[v] = {}
           /\ \E n \in Nat : work[w].refer \subseteq 0 .. n
           /\ work[w].refer \subseteq Nat /\ work[w].targets \subseteq Targets
           /\ association \in [Ids -> Rows \cup {None}] /\ issued \in 0 .. MaxIssued
           /\ Stored \subseteq 1 .. issued /\ issued \in Nat /\ MaxIssued \in Nat
<1>1. work[w] \in Transactions /\ work[w].at # "idle" /\ work[w].at # "ended"
  BY DEF YieldInv, Shapes, Busy, Idle
<1>2. \E n \in Nat : work[w].refer \subseteq 0 .. n
  BY DEF YieldInv, ReferencesBounded
<1>3. \A v \in Workers \ {w} : held[w] \cap held[v] = {}
  BY DEF YieldInv, Exclusive
<1>4. /\ Asked(w) \in Requests /\ work[w].at \in Places
      /\ work[w].refer \subseteq Nat /\ work[w].targets \subseteq Targets
  BY <1>1 DEF Transactions, TransactionRecords, Asked
<1> QED
  BY <1>1, <1>2, <1>3, <1>4, AccountAssumption DEF YieldInv, Shapes

LEMMA EndKeeps ==
    ASSUME YieldInv, NEW w \in Workers, Busy(w), UNCHANGED <<tag, association, copy>>,
           NEW outcome \in {"done", "conflict", "missing", "duplicate",
                            "invalid-request", "unavailable"},
           Ends(w, outcome)
    PROVE  YieldInv'
<1> DEFINE t == [work[w] EXCEPT !.at = "ended", !.outcome = outcome]
<1>1. /\ work' = [work EXCEPT ![w] = t] /\ held' = [held EXCEPT ![w] = {}] /\ issued' = issued
  BY DEF Ends, Becomes
<1>2. /\ t \in Transactions /\ t.at = "ended" /\ t.outcome = outcome
  <2>1. work[w] \in Transactions
    BY BusyFacts
  <2>2. outcome \in {None, "done", "conflict", "violation", "missing", "duplicate",
                     "invalid-request", "unavailable"}
    OBVIOUS
  <2> QED
    BY <2>1, <2>2, EndedFields DEF Ending
<1>3. t.refer = work[w].refer
  BY BusyFacts, <1>2 DEF Transactions, TransactionRecords
<1>4. work'[w] = t /\ held'[w] = {}
  BY <1>1 DEF YieldInv, Shapes
<1> HIDE DEF t
<1>5. WorkerInv(w)'
  BY <1>2, <1>4
     DEF WorkerInv, Follows, Beginning, DomainHeld, Locked, ReferencesInOrder, RowsHeld,
         NamedStays, ChangesHeld, ReadStill, Busy
<1>6. issued' \in issued .. MaxIssued
  BY <1>1, BusyFacts
<1>7. Wrote(w, t, {})
  BY <1>2 DEF Wrote
<1> QED
  BY <1>1, <1>2, <1>3, <1>5, <1>6, <1>7, BusyFacts, StatementKeeps

--------
(* A statement of a transaction that goes on keeps what it holds and adds  *)
(* what it takes; what it writes it may.                                   *)

\* A row that the next commit may publish.
MayWrite(i, row, h) ==
    /\ \/ i \in Stored /\ AssociationRow(i) \in h
       \/ i \in issued + 1 .. issued'
    /\ row # None =>
          /\ row.tag \in Intended => TagRow(row.tag) \in h
          /\ i \in Stored /\ association[i].tag \in Intended => row.tag = association[i].tag

Extends(w, t, h) ==
    /\ held[w] \subseteq h
    /\ \A i \in DOMAIN t.written.association :
          \/ i \in DOMAIN Changes(w) /\ t.written.association[i] = Changes(w)[i]
          \/ MayWrite(i, t.written.association[i], h)
    /\ \A i \in Ids : AssociationRow(i) \in h =>
          \/ AssociationRow(i) \in held[w]
          \/ /\ i \in Stored
             /\ \/ t.at = "commit"
                \/ association[i].tag \in Intended /\ TagRow(association[i].tag) \in h
    /\ \A g \in Tags, x \in Targets : Key(g, x) \in h => Key(g, x) \in held[w] \/ TagRow(g) \in h

LEMMA GoesOn ==
    ASSUME YieldInv, NEW w \in Workers, Busy(w), work[w].at # "commit",
           NEW t \in Transactions, NEW h,
           UNCHANGED <<tag, association, copy>>, issued' \in issued .. MaxIssued,
           work' = [work EXCEPT ![w] = t], held' = [held EXCEPT ![w] = h],
           t.at \notin {"idle", "ended"}, t.request = Asked(w), t.refer \subseteq work[w].refer,
           \A v \in Workers \ {w} : h \cap held[v] = {},
           Extends(w, t, h),
           (Follows(w) /\ (Beginning(w) => held[w] = {}) /\ DomainHeld(w)
            /\ ReferencesInOrder(w) /\ ReadStill(w))'
    PROVE  YieldInv'
<1>1. work'[w] = t /\ held'[w] = h
  BY DEF YieldInv, Shapes
<1>2. Stored' = Stored /\ issued \in Nat /\ issued' \in Nat /\ issued <= issued'
  BY BusyFacts DEF Stored
<1>3. Wrote(w, t, h)
  BY DEF Wrote, Extends, MayWrite
<1>4. RowsHeld(w)'
  <2>1. RowsHeld(w)
    BY BusyFacts DEF WorkerInv
  <2>2. ASSUME NEW i \in Ids, AssociationRow(i) \in h
        PROVE  /\ i \in Stored
               /\ \/ t.at = "commit"
                  \/ association[i].tag \in Intended /\ TagRow(association[i].tag) \in h
    BY <2>1, <2>2 DEF RowsHeld, Extends
  <2>3. ASSUME NEW g \in Tags, NEW x \in Targets, Key(g, x) \in h PROVE TagRow(g) \in h
    BY <2>1, <2>3 DEF RowsHeld, Extends
  <2> QED
    BY <1>1, <1>2, <2>2, <2>3 DEF RowsHeld
<1>5. ChangesHeld(w)'
  <2>1. ChangesHeld(w)
    BY BusyFacts DEF WorkerInv
  <2>2. ASSUME NEW i \in DOMAIN t.written.association
        PROVE  LET row == t.written.association[i]
               IN  /\ i <= issued'
                   /\ i \in Stored => AssociationRow(i) \in h
                   /\ row # None =>
                         /\ row.tag \in Intended => TagRow(row.tag) \in h
                         /\ i \in Stored /\ association[i].tag \in Intended =>
                               row.tag = association[i].tag
    <3> DEFINE row == t.written.association[i]
    <3>1. CASE i \in DOMAIN Changes(w) /\ row = Changes(w)[i]
      <4>1. /\ i <= issued /\ (i \in Stored => AssociationRow(i) \in held[w])
            /\ row # None =>
                  /\ row.tag \in Intended => TagRow(row.tag) \in held[w]
                  /\ i \in Stored /\ association[i].tag \in Intended =>
                        row.tag = association[i].tag
        BY <2>1, <3>1 DEF ChangesHeld
      <4>2. i <= issued'
        BY <1>2, <3>1, <4>1, TransactionChanges
      <4> QED
        BY <4>1, <4>2 DEF Extends
    <3>2. CASE MayWrite(i, row, h)
      <4>1. i <= issued'
        BY <1>2, <3>2, BusyFacts DEF MayWrite
      <4>2. i \in issued + 1 .. issued' => i \notin Stored
        BY <1>2, BusyFacts
      <4> QED
        BY <3>2, <4>1, <4>2 DEF MayWrite
    <3> QED
      BY <3>1, <3>2 DEF Extends
  <2> QED
    BY <1>1, <1>2, <2>2 DEF ChangesHeld, Changes
<1>6. NamedStays(w)'
  <2> DEFINE i == Asked(w).id
  <2>1. ASSUME Asked(w).op \in {"correctAssociation", "removeAssociation"}
        PROVE  /\ i \in 1 .. issued' /\ (i \in Stored => association[i].tag \in Intended)
               /\ i \notin Stored =>
                     \A v \in Workers : Busy(v)' => i \notin (DOMAIN Changes(v))'
    <3>1. /\ i \in 1 .. issued /\ (i \in Stored => association[i].tag \in Intended)
          /\ i \notin Stored => \A v \in Workers : Busy(v) => i \notin DOMAIN Changes(v)
      BY <2>1, BusyFacts DEF WorkerInv, NamedStays
    <3>2. ASSUME i \notin Stored, NEW v \in Workers, Busy(v)' PROVE i \notin (DOMAIN Changes(v))'
      <4>1. CASE v # w
        BY <3>1, <3>2, <4>1 DEF Busy, Changes, YieldInv, Shapes
      <4>2. CASE v = w
        <5>1. i \notin issued + 1 .. issued'
          BY <1>2, <3>1
        <5>2. i \notin DOMAIN t.written.association
          BY <3>1, <3>2, <5>1 DEF Wrote, Extends, MayWrite
        <5> QED
          BY <1>1, <4>2, <5>2 DEF Changes
      <4> QED
        BY <4>1, <4>2
    <3>3. i \in 1 .. issued'
      BY <1>2, <3>1
    <3> QED
      BY <3>1, <3>2, <3>3
  <2>2. Asked(w)' = Asked(w)
    BY <1>1 DEF Asked
  <2> QED
    BY <1>2, <2>1, <2>2 DEF NamedStays
<1>7. WorkerInv(w)'
  BY <1>4, <1>5, <1>6 DEF WorkerInv
<1>8. \E n \in Nat : t.refer \subseteq 0 .. n
  BY BusyFacts
<1> QED
  BY <1>3, <1>7, <1>8, StatementKeeps

--------
(* The statements, one by one.                                             *)

\* Going on without writing or taking anything.
LEMMA AtKeeps ==
    ASSUME YieldInv, NEW w \in Workers, Busy(w), work[w].at # "commit",
           NEW at \in Places \ {"idle", "ended"}, Goes(w, at),
           UNCHANGED <<tag, association, copy, issued, held>>,
           (Follows(w) /\ (Beginning(w) => held[w] = {}) /\ DomainHeld(w)
            /\ ReferencesInOrder(w) /\ ReadStill(w))'
    PROVE  YieldInv'
<1> DEFINE t == [work[w] EXCEPT !.at = at]
<1>1. work' = [work EXCEPT ![w] = t]
  BY DEF Goes, Becomes
<1>2. /\ t \in Transactions /\ t.at = at /\ t.request = work[w].request
      /\ t.written = work[w].written /\ t.refer = work[w].refer
  BY BusyFacts, AtFields
<1> HIDE DEF t
<1>3. held' = [held EXCEPT ![w] = held[w]]
  BY DEF YieldInv, Shapes
<1>4. issued' \in issued .. MaxIssued
  BY BusyFacts
<1>5. Extends(w, t, held[w])
  BY <1>2 DEF Extends, Changes
<1> QED
  BY <1>1, <1>2, <1>3, <1>4, <1>5, BusyFacts, GoesOn DEF Asked

LEMMA RecordsKept ==
    ASSUME YieldInv, UNCHANGED <<association, issued, held, work>>,
           tag' \in [Tags -> Nat], copy' \in [Copies -> CopyRows \cup {None}]
    PROVE  YieldInv'
<1>1. Stored' = Stored
  BY DEF Stored
<1>2. \A t, x : Naming(t, x)' = Naming(t, x)
  BY <1>1 DEF Naming
<1>3. Shapes' /\ Exclusive' /\ ReferencesBounded'
  BY <1>1 DEF YieldInv, Shapes, Exclusive, ReferencesBounded, Busy, Changes
<1>4. ASSUME NEW w \in Workers PROVE WorkerInv(w)'
  <2>1. WorkerInv(w)
    BY DEF YieldInv
  <2>2. Follows(w)' /\ (Beginning(w) => held[w] = {})' /\ ReferencesInOrder(w)'
    BY <2>1 DEF WorkerInv, Follows, Beginning, ReferencesInOrder, Asked
  <2>3. DomainHeld(w)'
    BY <1>1, <2>1 DEF WorkerInv, DomainHeld, Locked, Asked
  <2>4. RowsHeld(w)'
    BY <1>1, <2>1 DEF WorkerInv, RowsHeld
  <2>5. NamedStays(w)'
    BY <1>1, <2>1 DEF WorkerInv, NamedStays, Asked, Busy, Changes
  <2>6. ChangesHeld(w)'
    BY <1>1, <2>1 DEF WorkerInv, ChangesHeld, Busy, Changes
  <2>7. ReadStill(w)'
    BY <1>1, <2>1 DEF WorkerInv, ReadStill, Asked, NamedByAnother, Naming, NextTarget
  <2> QED
    BY <2>2, <2>3, <2>4, <2>5, <2>6, <2>7 DEF WorkerInv
<1> QED
  BY <1>3, <1>4 DEF YieldInv

LEMMA Kept ==
    ASSUME UNCHANGED <<tag, association, copy, issued, held, work>>, YieldInv
    PROVE  YieldInv'
BY RecordsKept DEF YieldInv, Shapes

LEMMA NothingTyped == NothingWritten \in Writtens /\ DOMAIN NothingWritten.association = {}
<1>1. /\ <<>> \in [{} -> Nat] /\ <<>> \in [{} -> Rows \cup {None}] /\ <<>> \in [{} -> CopyRows]
      /\ DOMAIN <<>> = {}
  OBVIOUS
<1>2. /\ <<>> \in Partial(Tags, Nat)
      /\ <<>> \in Partial(Ids, Rows \cup {None})
      /\ <<>> \in Partial(Copies, CopyRows)
  BY <1>1 DEF Partial
<1> QED
  BY <1>1, <1>2 DEF NothingWritten, Writtens

\* A finite set of numbers has a bound.
LEMMA FiniteBounded ==
    ASSUME NEW S \in SUBSET Nat, IsFiniteSet(S)
    PROVE  \E n \in Nat : S \subseteq 0 .. n
<1> DEFINE Bad(k) == \E X \in SUBSET Nat : IsFiniteSet(X) /\ Cardinality(X) = k
                                           /\ ~(\E n \in Nat : X \subseteq 0 .. n)
           Bads == {k \in Nat : Bad(k)}
<1>1. SUFFICES ASSUME ~(\E n \in Nat : S \subseteq 0 .. n) PROVE FALSE
  OBVIOUS
<1>2. Cardinality(S) \in Bads
  BY <1>1, FS_CardinalityType
<1>3. PICK k \in Bads : \A m \in Bads : k <= m
  <2>1. Bads \in SUBSET Nat /\ Bads # {}
    BY <1>2
  <2> HIDE DEF Bads
  <2> QED
    BY <2>1, LeastOf
<1>4. PICK X \in SUBSET Nat : IsFiniteSet(X) /\ Cardinality(X) = k
                             /\ ~(\E n \in Nat : X \subseteq 0 .. n)
  OBVIOUS
<1>5. PICK x \in X : TRUE
  <2>1. {} \subseteq 0 .. 0
    OBVIOUS
  <2> QED
    BY <1>4, <2>1
<1>6. IsFiniteSet(X \ {x}) /\ Cardinality(X \ {x}) = k - 1 /\ X \ {x} \in SUBSET Nat
  BY <1>4, <1>5, FS_RemoveElement
<1>7. k - 1 \in Nat
  BY <1>6, FS_CardinalityType
<1>8. PICK n \in Nat : X \ {x} \subseteq 0 .. n
  <2>1. CASE k - 1 \in Bads
    BY <1>3, <1>7, <2>1
  <2>2. CASE k - 1 \notin Bads
    BY <1>6, <1>7, <2>2
  <2> QED
    BY <2>1, <2>2
<1>9. x \in Nat
  BY <1>5
<1>10. X \subseteq 0 .. n + x
  BY <1>8, <1>9
<1>11. n + x \in Nat
  BY <1>8, <1>9
<1> QED
  BY <1>4, <1>10, <1>11

LEMMA RequestFacts ==
    ASSUME NEW r \in Requests
    PROVE  /\ r.op \in {"createTag", "correctTag", "insertAssociation", "correctAssociation",
                        "removeAssociation", "confirm", "moveCopyLocation", "correctCopy",
                        "insertCopies"}
           /\ ReferencesOf(r) \subseteq Nat /\ IsFiniteSet(ReferencesOf(r))
<1>1. r.op \in {"createTag", "correctTag", "insertAssociation", "correctAssociation",
                "removeAssociation", "confirm", "moveCopyLocation", "correctCopy", "insertCopies"}
  BY RequestAssumption
<1>2. CASE r.op \in {"insertAssociation", "correctAssociation"}
  <2>1. ReferencesOf(r) \subseteq {r.target} /\ r.target \in Nat
    BY <1>2, RequestAssumption, AccountAssumption DEF ReferencesOf
  <2> QED
    BY <1>1, <2>1, FS_Singleton, FS_Subset
<1>3. CASE r.op = "confirm"
  <2>1. ReferencesOf(r) \subseteq DOMAIN r.wanted /\ DOMAIN r.wanted \subseteq Nat
    BY <1>3, RequestAssumption, AccountAssumption DEF ReferencesOf
  <2> QED
    BY <1>1, <1>3, <2>1, RequestAssumption, FS_Subset
<1>4. CASE r.op \in {"correctCopy", "insertCopies"}
  <2>1. ReferencesOf(r) = {r.printing} /\ r.printing \in Nat
    BY <1>4, RequestAssumption, AccountAssumption DEF ReferencesOf
  <2> QED
    BY <1>1, <2>1, FS_Singleton
<1>5. CASE r.op \in {"createTag", "correctTag", "removeAssociation", "moveCopyLocation"}
  <2>1. ReferencesOf(r) = {}
    BY <1>5 DEF ReferencesOf
  <2> QED
    BY <1>1, <2>1, FS_EmptySet
<1> QED
  BY <1>1, <1>2, <1>3, <1>4, <1>5

LEMMA OpenKeeps ==
    ASSUME YieldInv, NEW w \in Workers, NEW r \in Requests, Open(w, r)
    PROVE  YieldInv'
<1> DEFINE t == [at |-> First(r), request |-> r, written |-> NothingWritten,
                 refer |-> ReferencesOf(r),
                 targets |-> IF r.op = "confirm" THEN DOMAIN r.wanted ELSE {},
                 found |-> None, outcome |-> None]
<1>1. /\ work[w].at = "idle" /\ Admitted(r) /\ work' = [work EXCEPT ![w] = t]
      /\ UNCHANGED <<tag, association, copy, issued, held>>
  BY DEF Open, Becomes, tables
<1>2. /\ First(r) \in {"lock", "copy", "write"}
      /\ First(r) = "lock" <=> r.op \in Locking
      /\ First(r) = "copy" <=> r.op \in {"moveCopyLocation", "correctCopy"}
  BY RequestAssumption DEF First, Locking
<1>3. t \in Transactions
  <2>1. /\ First(r) \in Places \ {"idle"} /\ ReferencesOf(r) \in SUBSET Nat
        /\ NothingWritten \in Writtens
    BY <1>2, RequestFacts, NothingTyped DEF Places
  <2>2. (IF r.op = "confirm" THEN DOMAIN r.wanted ELSE {}) \in SUBSET Targets
    BY RequestAssumption
  <2>3. t.request.op = "confirm" => t.targets \subseteq DOMAIN t.request.wanted
    OBVIOUS
  <2> QED
    BY <2>1, <2>2, <2>3 DEF Transactions, TransactionRecords
<1>4. /\ t.at = First(r) /\ t.request = r /\ t.refer = ReferencesOf(r)
      /\ DOMAIN t.written.association = {}
  BY NothingTyped
<1> HIDE DEF t
<1>5. WorkerInv(w) /\ Shapes
  BY DEF YieldInv
<1>6. held[w] = {}
  BY <1>1, <1>5 DEF WorkerInv, Beginning
<1>7. /\ work'[w] = t /\ held'[w] = {} /\ held' = [held EXCEPT ![w] = {}]
      /\ Stored' = Stored /\ issued \in Nat /\ issued' = issued /\ MaxIssued \in Nat
      /\ issued \in 0 .. MaxIssued /\ Stored \subseteq 1 .. issued
  <2>1. work'[w] = t /\ held'[w] = {} /\ Stored' = Stored /\ issued' = issued
    BY <1>1, <1>5, <1>6 DEF Shapes, Stored
  <2>2. held' = [held EXCEPT ![w] = {}]
    <3>1. held = [v \in Workers |-> held[v]]
      BY <1>5 DEF Shapes
    <3> QED
      BY <1>1, <1>6, <3>1
  <2> QED
    BY <1>5, <2>1, <2>2, AccountAssumption DEF Shapes
<1>8. WorkerInv(w)'
  <2>1. Follows(w)'
    BY <1>2, <1>4, <1>7 DEF Follows, Asked, Locking
  <2>2. DomainHeld(w)'
    BY <1>2, <1>4, <1>7 DEF DomainHeld, Locked, Asked, Locking
  <2>3. ReferencesInOrder(w)' /\ RowsHeld(w)' /\ (Beginning(w) => held[w] = {})'
    BY <1>7 DEF ReferencesInOrder, RowsHeld
  <2>4. ChangesHeld(w)' /\ ReadStill(w)'
    BY <1>2, <1>4, <1>7 DEF ChangesHeld, ReadStill, Changes
  <2>5. r.op \in {"correctAssociation", "removeAssociation"} =>
           r.id \in Stored /\ association[r.id].tag \in Intended
    BY <1>1 DEF Admitted
  <2>6. ASSUME r.op \in {"correctAssociation", "removeAssociation"}
        PROVE  r.id \in 1 .. issued' /\ r.id \in Stored' /\ association'[r.id].tag \in Intended
    BY <1>1, <1>7, <2>5, <2>6
  <2>7. Asked(w)' = r
    BY <1>4, <1>7 DEF Asked
  <2>8. NamedStays(w)'
    BY <2>6, <2>7 DEF NamedStays
  <2> QED
    BY <2>1, <2>2, <2>3, <2>4, <2>8 DEF WorkerInv
<1>9. Wrote(w, t, {})
  BY <1>4 DEF Wrote
<1>10. \E n \in Nat : t.refer \subseteq 0 .. n
  BY <1>4, RequestFacts, FiniteBounded
<1>11. \A v \in Workers \ {w} : {} \cap held[v] = {}
  OBVIOUS
<1>12. issued' \in issued .. MaxIssued /\ UNCHANGED <<tag, association, copy>>
  BY <1>1, <1>7
<1> QED
  BY <1>1, <1>3, <1>7, <1>8, <1>9, <1>10, <1>11, <1>12, StatementKeeps

\* The rows a statement takes are nobody else's.
LEMMA TakesFree ==
    ASSUME YieldInv, NEW w \in Workers, Busy(w), MayRun(w), NEW rows, rows \subseteq Needs(w)
    PROVE  \A v \in Workers \ {w} : (held[w] \cup rows) \cap held[v] = {}
BY BusyFacts DEF MayRun

LEMMA LockTagKeeps ==
    ASSUME YieldInv, NEW w \in Workers, LockTag(w) PROVE YieldInv'
<1> DEFINE r == Asked(w)
           written == IF r.op = "insertCopies" /\ tag[Owned] = 0
                      THEN [work[w].written EXCEPT !.tag = Put(work[w].written.tag, Owned, 1)]
                      ELSE work[w].written
           t == [work[w] EXCEPT !.at = "refer", !.written = written]
           h == held[w] \cup Needs(w)
<1>1. /\ work[w].at = "lock" /\ MayRun(w) /\ work' = [work EXCEPT ![w] = t]
      /\ held' = [held EXCEPT ![w] = h] /\ UNCHANGED <<tag, association, copy, issued>>
  BY DEF LockTag, Takes, Writes, Becomes, tables
<1>2. Busy(w)
  BY <1>1 DEF Busy
<1>3. /\ work[w] \in Transactions /\ r \in Requests /\ WorkerInv(w)
      /\ r.op \in Locking /\ held[w] = {}
  BY <1>1, <1>2, BusyFacts DEF WorkerInv, Follows, Beginning
<1>4. written \in Writtens /\ written.association = Changes(w)
  <2>1. work[w].written \in Writtens
    BY <1>2, TransactionChanges
  <2>2. ASSUME NEW f \in Partial(Tags, Nat)
        PROVE  /\ [work[w].written EXCEPT !.tag = f] \in Writtens
               /\ [work[w].written EXCEPT !.tag = f].association = work[w].written.association
    BY <2>1 DEF Writtens
  <2>3. Put(work[w].written.tag, Owned, 1) \in Partial(Tags, Nat)
    <3>1. PICK D \in SUBSET Tags : work[w].written.tag \in [D -> Nat]
      BY <2>1 DEF Writtens, Partial
    <3>2. Owned \in Tags
      BY DEF Tags
    <3> QED
      BY <3>1, <3>2, PutRow
  <2> QED
    BY <2>1, <2>2, <2>3 DEF Changes
<1>5. /\ t \in Transactions /\ t.at = "refer" /\ t.request = r /\ t.written = written
      /\ t.refer = work[w].refer
  <2>1. "refer" \in Places \ {"idle"}
    BY DEF Places
  <2>2. work[w] \in Transactions /\ written \in Writtens
    BY <1>3, <1>4
  <2> HIDE DEF written
  <2>3. /\ t \in Transactions /\ t.at = "refer" /\ t.request = work[w].request
        /\ t.written = written /\ t.refer = work[w].refer
    <3>1. t = Writing(work[w], "refer", written)
      BY DEF Writing
    <3> HIDE DEF t
    <3> QED
      BY <2>1, <2>2, <3>1, WroteFields
  <2> QED
    BY <2>3 DEF Asked
<1>6. Needs(w) = {TagRow(g) : g \in DomainTag(r)}
  BY <1>1 DEF Needs
<1>7. /\ r.op \in {"insertAssociation", "confirm"} => TagRow(r.tag) \in Needs(w)
      /\ r.op = "correctAssociation" /\ r.id \in Stored =>
            TagRow(association[r.id].tag) \in Needs(w)
  BY <1>6 DEF DomainTag
<1> HIDE DEF t, written
<1>8. \A v \in Workers \ {w} : h \cap held[v] = {}
  BY <1>1, <1>2, TakesFree
<1>9. /\ \A p : ReferenceRow(p) \notin h
      /\ \A i : AssociationRow(i) \notin h
      /\ \A g, x : Key(g, x) \notin h
  BY <1>3, <1>6, RowNames
<1>10. Extends(w, t, h)
  BY <1>4, <1>5, <1>9 DEF Extends
<1> HIDE DEF h
<1>11. work'[w] = t /\ held'[w] = h /\ Stored' = Stored
  BY <1>1 DEF YieldInv, Shapes, Stored
<1>12. (Follows(w) /\ (Beginning(w) => held[w] = {}) /\ ReferencesInOrder(w) /\ ReadStill(w))'
  BY <1>3, <1>5, <1>9, <1>11 DEF Follows, Beginning, ReferencesInOrder, ReadStill, Asked
<1>13. DomainHeld(w)'
  BY <1>1, <1>5, <1>7, <1>11 DEF DomainHeld, Asked, h
<1>14. issued' \in issued .. MaxIssued
  BY <1>1, <1>2, BusyFacts
<1> QED
  BY <1>1, <1>2, <1>5, <1>8, <1>10, <1>12, <1>13, <1>14, GoesOn

\* One kind of row that a transaction wrote, the others as they were.
LEMMA WrittenFields ==
    ASSUME NEW wr \in Writtens
    PROVE  /\ \A f \in Partial(Tags, Nat) :
                 /\ [wr EXCEPT !.tag = f] \in Writtens
                 /\ [wr EXCEPT !.tag = f].association = wr.association
           /\ \A f \in Partial(Ids, Rows \cup {None}) :
                 /\ [wr EXCEPT !.association = f] \in Writtens
                 /\ [wr EXCEPT !.association = f].association = f
           /\ \A f \in Partial(Copies, CopyRows) :
                 /\ [wr EXCEPT !.copy = f] \in Writtens
                 /\ [wr EXCEPT !.copy = f].association = wr.association
           /\ \A R \in SUBSET Nat :
                 /\ [wr EXCEPT !.reference = R] \in Writtens
                 /\ [wr EXCEPT !.reference = R].association = wr.association
BY DEF Writtens

\* The smallest reference still to record is taken.
LEMMA StoreReferenceKeeps ==
    ASSUME YieldInv, NEW w \in Workers, StoreReference(w) PROVE YieldInv'
<1> DEFINE p == NextReference(w)
           written == IF p \in reference THEN work[w].written
                      ELSE [work[w].written EXCEPT !.reference = work[w].written.reference \cup {p}]
           t == [work[w] EXCEPT !.refer = work[w].refer \ {p}, !.written = written]
           h == held[w] \cup (IF p \in reference THEN {} ELSE {ReferenceRow(p)})
<1>1. /\ work[w].at = "refer" /\ work[w].refer # {} /\ MayRun(w)
      /\ work' = [work EXCEPT ![w] = t] /\ held' = [held EXCEPT ![w] = h]
      /\ UNCHANGED <<tag, association, copy, issued>>
  BY DEF StoreReference, Takes, Becomes, tables
<1>2. Busy(w)
  BY <1>1 DEF Busy
<1>3. /\ work[w] \in Transactions /\ WorkerInv(w) /\ Asked(w).op \in Locking \cup {"correctCopy"}
      /\ work[w].refer \in SUBSET Nat
  BY <1>1, <1>2, BusyFacts DEF WorkerInv, Follows
<1>4. p \in work[w].refer /\ \A q \in work[w].refer : p <= q
  BY <1>1, <1>3, LeastOf DEF NextReference
<1>5. written \in Writtens /\ written.association = Changes(w)
  <2>1. work[w].written \in Writtens /\ work[w].written.reference \in SUBSET Nat
    BY <1>2, TransactionChanges DEF Writtens
  <2>2. work[w].written.reference \cup {p} \in SUBSET Nat
    BY <1>3, <1>4, <2>1
  <2> HIDE DEF p
  <2> QED
    BY <2>1, <2>2, WrittenFields DEF Changes
<1>6. Needs(w) = {ReferenceRow(p)}
  BY <1>1 DEF Needs
<1>7. \A v \in Workers \ {w} : h \cap held[v] = {}
  BY <1>1, <1>2, <1>6, TakesFree
<1>8. \A i : ReferenceRow(i) \in h => ReferenceRow(i) \in held[w] \/ i = p
  BY RowNames
<1>9. /\ \A i : AssociationRow(i) \in h => AssociationRow(i) \in held[w]
      /\ \A g, x : Key(g, x) \in h => Key(g, x) \in held[w]
      /\ held[w] \subseteq h
  BY RowNames
<1> HIDE DEF written
<1>10. /\ t \in Transactions /\ t.at = "refer" /\ t.request = Asked(w) /\ t.written = written
       /\ t.refer = work[w].refer \ {p}
  <2>1. work[w].refer \ {p} \in SUBSET Nat
    BY <1>3
  <2>2. t = Referring(work[w], work[w].refer \ {p}, written)
    BY DEF Referring
  <2> HIDE DEF t
  <2>3. /\ t \in Transactions /\ t.at = work[w].at /\ t.request = work[w].request
        /\ t.written = written /\ t.refer = work[w].refer \ {p}
    BY <1>3, <1>5, <2>1, <2>2, ReferredFields
  <2> QED
    BY <1>1, <2>3 DEF Asked
<1> HIDE DEF t, h, p
<1>11. work'[w] = t /\ held'[w] = h /\ Stored' = Stored
  BY <1>1 DEF YieldInv, Shapes, Stored
<1>12. (Follows(w) /\ (Beginning(w) => held[w] = {}) /\ ReadStill(w))'
  BY <1>3, <1>10, <1>11 DEF Follows, Beginning, ReadStill, Asked
<1>13. DomainHeld(w)'
  BY <1>1, <1>3, <1>9, <1>10, <1>11 DEF WorkerInv, DomainHeld, Locked, Asked
<1>14. ReferencesInOrder(w)'
  <2>1. ASSUME NEW a \in Nat, NEW q \in Nat, ReferenceRow(a) \in h, q \in t.refer
        PROVE  a < q
    <3>1. CASE ReferenceRow(a) \in held[w]
      BY <1>1, <1>3, <1>10, <2>1, <3>1 DEF WorkerInv, ReferencesInOrder
    <3>2. CASE a = p
      BY <1>4, <1>10, <2>1, <3>2
    <3> QED
      BY <1>8, <2>1, <3>1, <3>2
  <2> QED
    BY <1>11, <2>1 DEF ReferencesInOrder
<1>15. Extends(w, t, h)
  BY <1>5, <1>9, <1>10 DEF Extends
<1>16. issued' \in issued .. MaxIssued
  BY <1>1, <1>2, BusyFacts
<1> QED
  BY <1>1, <1>2, <1>7, <1>10, <1>12, <1>13, <1>14, <1>15, <1>16, GoesOn

LEMMA ReferencesStoredKeeps ==
    ASSUME YieldInv, NEW w \in Workers, ReferencesStored(w) PROVE YieldInv'
<1> DEFINE at == CASE Asked(w).op = "confirm" -> "read"
                   [] Asked(w).op = "correctCopy" -> "commit"
                   [] OTHER -> "write"
<1>1. /\ work[w].at = "refer" /\ Goes(w, at) /\ UNCHANGED <<tag, association, copy, issued, held>>
  BY DEF ReferencesStored, tables
<1>2. Busy(w)
  BY <1>1 DEF Busy
<1>3. /\ work[w] \in Transactions /\ WorkerInv(w) /\ Asked(w).op \in Locking \cup {"correctCopy"}
  BY <1>1, <1>2, BusyFacts DEF WorkerInv, Follows
<1>4. /\ at \in {"read", "commit", "write"} /\ at \in Places \ {"idle", "ended"}
      /\ at = "read" => Asked(w).op = "confirm"
      /\ at = "write" => Asked(w).op \notin {"confirm", "correctCopy"}
  BY DEF Places
<1>5. work'[w].at = at /\ work'[w].request = Asked(w)
  <2>1. work'[w] = [work[w] EXCEPT !.at = at]
    BY <1>1 DEF Goes, Becomes, YieldInv, Shapes
  <2> HIDE DEF at
  <2> QED
    BY <1>3, <1>4, <2>1, AtFields DEF Asked
<1>6. held' = held /\ Stored' = Stored
  BY <1>1 DEF Stored
<1> HIDE DEF at
<1>7. (Follows(w) /\ (Beginning(w) => held[w] = {}) /\ ReferencesInOrder(w) /\ ReadStill(w))'
  BY <1>3, <1>4, <1>5, <1>6 DEF Follows, Beginning, ReadStill, ReferencesInOrder, Asked, Locking
<1>8. DomainHeld(w)'
  BY <1>1, <1>3, <1>4, <1>5, <1>6 DEF WorkerInv, DomainHeld, Locked, Asked
<1> QED
  BY <1>1, <1>2, <1>4, <1>7, <1>8, AtKeeps

\* One association row written, besides what the transaction wrote before.
LEMMA RowWritten ==
    ASSUME YieldInv, NEW w \in Workers, Busy(w), NEW h, held[w] \subseteq h,
           NEW i \in Ids, NEW row \in Rows \cup {None}, MayWrite(i, row, h),
           NEW f, f = Put(work[w].written.association, i, row)
    PROVE  /\ [work[w].written EXCEPT !.association = f] \in Writtens
           /\ [work[w].written EXCEPT !.association = f].association = f
           /\ \A j \in DOMAIN f :
                 (j \in DOMAIN Changes(w) /\ f[j] = Changes(w)[j]) \/ MayWrite(j, f[j], h)
<1>1. /\ work[w].written \in Writtens /\ DOMAIN Changes(w) \in SUBSET Ids
      /\ Changes(w) \in [DOMAIN Changes(w) -> Rows \cup {None}]
  BY TransactionChanges
<1>2. f = Put(Changes(w), i, row)
  BY DEF Changes
<1>3. /\ f \in Partial(Ids, Rows \cup {None})
      /\ DOMAIN f = DOMAIN Changes(w) \cup {i} /\ f[i] = row
      /\ \A j \in DOMAIN Changes(w) : j # i => f[j] = Changes(w)[j]
  <2> DEFINE rows == Rows \cup {None}
             g == Changes(w)
  <2>1. PICK D \in SUBSET Ids : g \in [D -> rows]
    BY <1>1
  <2>2. DOMAIN g = D /\ f = Put(g, i, row) /\ row \in rows
    BY <1>2, <2>1
  <2> HIDE DEF rows, g
  <2>3. f \in Partial(Ids, rows)
    <3>1. f \in [D \cup {i} -> rows]
      BY <2>1, <2>2 DEF Put
    <3>2. D \cup {i} \in SUBSET Ids
      BY <2>1
    <3> QED
      BY <3>1, <3>2 DEF Partial
  <2>4. DOMAIN f = D \cup {i} /\ f[i] = row /\ \A j \in D : j # i => f[j] = g[j]
    BY <2>1, <2>2 DEF Put
  <2> QED
    BY <2>2, <2>3, <2>4 DEF rows, g
<1>4. /\ [work[w].written EXCEPT !.association = f] \in Writtens
      /\ [work[w].written EXCEPT !.association = f].association = f
  BY <1>1, <1>3, WrittenFields
<1> QED
  BY <1>3, <1>4

\* The last statement of a transaction.
LEMMA CommitsNext ==
    ASSUME YieldInv, NEW w \in Workers, Busy(w), work[w].at \notin {"lock", "commit"},
           NEW written \in Writtens, NEW h,
           UNCHANGED <<tag, association, copy>>, issued' \in issued .. MaxIssued,
           work' = [work EXCEPT ![w] = Writing(work[w], "commit", written)],
           held' = [held EXCEPT ![w] = h],
           \A v \in Workers \ {w} : h \cap held[v] = {}, held[w] \subseteq h,
           \A i \in DOMAIN written.association :
              \/ i \in DOMAIN Changes(w) /\ written.association[i] = Changes(w)[i]
              \/ MayWrite(i, written.association[i], h),
           \A i \in Ids : AssociationRow(i) \in h => AssociationRow(i) \in held[w] \/ i \in Stored,
           \A g \in Tags, x \in Targets :
              Key(g, x) \in h => Key(g, x) \in held[w] \/ TagRow(g) \in h
    PROVE  YieldInv'
<1> DEFINE t == Writing(work[w], "commit", written)
<1>1. work[w] \in Transactions /\ WorkerInv(w) /\ Locked(w) /\ "commit" \in Places \ {"idle"}
  BY BusyFacts DEF Busy, Locked, Places
<1>2. /\ t \in Transactions /\ t.at = "commit" /\ t.request = Asked(w) /\ t.written = written
      /\ t.refer = work[w].refer
  <2>1. /\ t \in Transactions /\ t.at = "commit" /\ t.request = work[w].request
        /\ t.written = written /\ t.refer = work[w].refer
    BY <1>1, WroteFields
  <2> QED
    BY <2>1 DEF Asked
<1>3. work' = [work EXCEPT ![w] = t]
  OBVIOUS
<1> HIDE DEF t
<1>4. work'[w] = t /\ held'[w] = h /\ Stored' = Stored
  BY <1>3 DEF YieldInv, Shapes, Stored
<1>5. (Follows(w) /\ (Beginning(w) => held[w] = {}) /\ ReferencesInOrder(w) /\ ReadStill(w))'
  BY <1>2, <1>4 DEF Follows, Beginning, ReferencesInOrder, ReadStill
<1>6. DomainHeld(w)'
  BY <1>1, <1>2, <1>4 DEF WorkerInv, DomainHeld, Asked
<1>7. Extends(w, t, h)
  BY <1>2 DEF Extends
<1> QED
  BY <1>2, <1>3, <1>5, <1>6, <1>7, GoesOn

LEMMA InsertAssociationKeeps ==
    ASSUME YieldInv, NEW w \in Workers, InsertAssociation(w) PROVE YieldInv'
<1> DEFINE r == Asked(w)
           row == Row(r.tag, r.target, r.quantity, 1)
           f == Put(work[w].written.association, issued + 1, row)
           written == [work[w].written EXCEPT !.association = f]
           h == held[w] \cup Needs(w)
<1>1. work[w].at = "write" /\ r.op = "insertAssociation" /\ MayRun(w) /\ UNCHANGED <<tag, association, copy>>
  BY DEF InsertAssociation, tables
<1>2. Busy(w)
  BY <1>1 DEF Busy
<1>3. work[w] \in Transactions /\ WorkerInv(w) /\ r \in Requests
  BY <1>1, <1>2, BusyFacts
<1>4. CASE Ends(w, "conflict")
  BY <1>1, <1>2, <1>4, EndKeeps
<1>5. CASE Inserts(w, "commit", r.tag, r.target, r.quantity) /\ Takes(w, Needs(w))
  <2>1. /\ issued < MaxIssued /\ issued' = issued + 1
        /\ work' = [work EXCEPT ![w] = Writing(work[w], "commit", written)]
        /\ held' = [held EXCEPT ![w] = h]
    BY <1>5 DEF Inserts, Writes, Becomes, Takes, Writing
  <2>2. row \in Rows /\ row.tag = r.tag
    BY <1>1, <1>3, RequestAssumption DEF Row, Rows
  <2>3. TagRow(r.tag) \in held[w]
    BY <1>1, <1>3 DEF WorkerInv, DomainHeld, Locked
  <2>4. Needs(w) = {Key(r.tag, r.target)}
    BY <1>1 DEF Needs
  <2>5. \A v \in Workers \ {w} : h \cap held[v] = {}
    BY <1>1, <1>2, TakesFree
  <2>6. /\ \A i : AssociationRow(i) \in h => AssociationRow(i) \in held[w]
        /\ \A g, x : Key(g, x) \in h => Key(g, x) \in held[w] \/ TagRow(g) \in h
        /\ held[w] \subseteq h
    BY <2>3, <2>4, RowNames
  <2>7. issued + 1 \in Ids /\ issued + 1 \in issued + 1 .. issued' /\ issued' \in issued .. MaxIssued
        /\ issued + 1 \notin Stored
    BY <1>2, <2>1, BusyFacts DEF Ids
  <2> HIDE DEF row, r
  <2>8. MayWrite(issued + 1, row, h)
    BY <2>2, <2>3, <2>6, <2>7 DEF MayWrite
  <2> HIDE DEF h, f
  <2>9. /\ written \in Writtens /\ written.association = f
        /\ \A j \in DOMAIN f :
              (j \in DOMAIN Changes(w) /\ f[j] = Changes(w)[j]) \/ MayWrite(j, f[j], h)
    <3>1. f = Put(work[w].written.association, issued + 1, row)
      BY DEF f
    <3> QED
      BY <1>2, <2>2, <2>6, <2>7, <2>8, <3>1, RowWritten
  <2> HIDE DEF written
  <2> QED
    BY <1>1, <1>2, <2>1, <2>5, <2>6, <2>7, <2>9, CommitsNext
<1> QED
  BY <1>4, <1>5 DEF InsertAssociation

\* An intended row names a target and a quantity; changing it leaves a row.
LEMMA IntendedRow ==
    ASSUME NEW row \in Rows, row.tag \in Intended, NEW x \in Targets, NEW q \in 1 .. MaxQuantity
    PROVE  /\ row.quantity \in 1 .. MaxQuantity
           /\ Advanced([row EXCEPT !.quantity = q]) \in Rows
           /\ Advanced([row EXCEPT !.quantity = q]).tag = row.tag
           /\ Advanced([row EXCEPT !.target = x, !.quantity = q]) \in Rows
           /\ Advanced([row EXCEPT !.target = x, !.quantity = q]).tag = row.tag
<1>1. row \in [tag : Intended, target : Targets, quantity : 1 .. MaxQuantity, revision : Nat \ {0}]
  BY TagAssumption DEF Rows
<1>2. row.revision + 1 \in Nat \ {0}
  BY <1>1
<1> QED
  BY <1>1, <1>2 DEF Rows, Advanced

\* A statement that changed no row, and holds what it held.
LEMMA ExplainsNext ==
    ASSUME YieldInv, NEW w \in Workers, Busy(w), work[w].at \notin {"lock", "commit"},
           Goes(w, "explain"), UNCHANGED <<tag, association, copy, issued, held>>
    PROVE  YieldInv'
<1>1. work[w] \in Transactions /\ WorkerInv(w)
  BY BusyFacts
<1>2. /\ work'[w].at = "explain" /\ work'[w].request = Asked(w)
      /\ held' = held /\ Stored' = Stored
  <2>1. work'[w] = [work[w] EXCEPT !.at = "explain"]
    BY DEF Goes, Becomes, YieldInv, Shapes
  <2>2. "explain" \in Places \ {"idle"}
    BY DEF Places
  <2> QED
    BY <1>1, <2>1, <2>2, AtFields DEF Asked, Stored
<1>3. (Follows(w) /\ (Beginning(w) => held[w] = {}) /\ ReferencesInOrder(w) /\ ReadStill(w))'
  BY <1>2 DEF Follows, Beginning, ReadStill, ReferencesInOrder
<1>4. DomainHeld(w)'
  BY <1>1, <1>2 DEF WorkerInv, DomainHeld, Locked, Asked, Busy
<1>5. "explain" \in Places \ {"idle", "ended"}
  BY DEF Places
<1> QED
  BY <1>3, <1>4, <1>5, AtKeeps

LEMMA CorrectAssociationKeeps ==
    ASSUME YieldInv, NEW w \in Workers, CorrectAssociation(w) PROVE YieldInv'
<1> DEFINE r == Asked(w)
           t == [work[w] EXCEPT !.at = "key"]
           h == held[w] \cup Needs(w)
<1>1. /\ work[w].at = "write" /\ r.op = "correctAssociation" /\ MayRun(w)
      /\ UNCHANGED <<tag, association, copy, issued>>
  BY DEF CorrectAssociation, tables
<1>2. Busy(w)
  BY <1>1 DEF Busy
<1>3. work[w] \in Transactions /\ WorkerInv(w)
  BY <1>1, <1>2, BusyFacts
<1>4. CASE Goes(w, "explain") /\ UNCHANGED held
  BY <1>1, <1>2, <1>4, ExplainsNext
<1>5. CASE /\ Expected(r.id, r) /\ ~NamedByAnother(r)
           /\ Goes(w, "key") /\ Takes(w, Needs(w))
  <2>1. work' = [work EXCEPT ![w] = t] /\ held' = [held EXCEPT ![w] = h]
    BY <1>5 DEF Goes, Becomes, Takes
  <2>2. /\ t \in Transactions /\ t.at = "key" /\ t.request = r /\ t.written = work[w].written
        /\ t.refer = work[w].refer
    <3>1. "key" \in Places \ {"idle"}
      BY DEF Places
    <3> QED
      BY <1>3, <3>1, AtFields DEF Asked
  <2>3. Needs(w) = {AssociationRow(r.id)} /\ r.id \in Stored
    BY <1>1, <1>5 DEF Needs, Expected
  <2>4. association[r.id].tag \in Intended /\ TagRow(association[r.id].tag) \in held[w]
    BY <1>1, <1>2, <1>3, <2>3 DEF WorkerInv, NamedStays, DomainHeld, Locked
  <2>5. \A v \in Workers \ {w} : h \cap held[v] = {}
    BY <1>1, <1>2, TakesFree
  <2>6. /\ \A i : AssociationRow(i) \in h => AssociationRow(i) \in held[w] \/ i = r.id
        /\ \A g, x : Key(g, x) \in h => Key(g, x) \in held[w]
        /\ \A p : ReferenceRow(p) \in h => ReferenceRow(p) \in held[w]
        /\ held[w] \subseteq h /\ AssociationRow(r.id) \in h
    BY <2>3, RowNames
  <2> HIDE DEF t, h
  <2>7. work'[w] = t /\ held'[w] = h /\ Stored' = Stored
    BY <1>1, <2>1 DEF YieldInv, Shapes, Stored
  <2>8. (Follows(w) /\ (Beginning(w) => held[w] = {}) /\ ReferencesInOrder(w))'
    BY <1>1, <2>2, <2>7 DEF Follows, Beginning, ReferencesInOrder, Asked
  <2>9. DomainHeld(w)'
    BY <1>1, <2>2, <2>4, <2>6, <2>7 DEF DomainHeld, Asked
  <2>10. ReadStill(w)'
    BY <1>1, <1>5, <2>2, <2>6, <2>7 DEF ReadStill, Asked, NamedByAnother, Naming
  <2>11. Extends(w, t, h)
    BY <2>2, <2>3, <2>4, <2>6 DEF Extends, Changes
  <2>12. issued' \in issued .. MaxIssued
    BY <1>1, <1>2, BusyFacts
  <2> QED
    BY <1>1, <1>2, <2>1, <2>2, <2>5, <2>8, <2>9, <2>10, <2>11, <2>12, GoesOn
<1> QED
  BY <1>4, <1>5 DEF CorrectAssociation

LEMMA ClaimKeyKeeps ==
    ASSUME YieldInv, NEW w \in Workers, ClaimKey(w) PROVE YieldInv'
<1> DEFINE r == Asked(w)
           row == Advanced([association[r.id] EXCEPT !.target = r.target, !.quantity = r.quantity])
           f == Put(work[w].written.association, r.id, row)
           written == [work[w].written EXCEPT !.association = f]
           h == held[w] \cup Needs(w)
<1>1. work[w].at = "key" /\ MayRun(w) /\ UNCHANGED <<tag, association, copy>>
  BY DEF ClaimKey, tables
<1>2. Busy(w)
  BY <1>1 DEF Busy
<1>3. /\ work[w] \in Transactions /\ WorkerInv(w) /\ r \in Requests
      /\ association \in [Ids -> Rows \cup {None}]
  BY <1>1, <1>2, BusyFacts
<1>4. r.op = "correctAssociation" /\ ~NamedByAnother(r) /\ AssociationRow(r.id) \in held[w]
  BY <1>1, <1>3 DEF WorkerInv, Follows, ReadStill
<1>5. /\ work' = [work EXCEPT ![w] = Writing(work[w], "commit", written)]
      /\ held' = [held EXCEPT ![w] = h] /\ issued' = issued
  BY <1>4 DEF ClaimKey, Updates, Writes, Becomes, Takes, Writing
<1>6. r.id \in 1 .. issued /\ r.id \in Ids
  BY <1>2, <1>3, <1>4, BusyFacts DEF WorkerInv, NamedStays, Ids
<1>7. /\ r.id \in Stored /\ association[r.id].tag \in Intended
      /\ TagRow(association[r.id].tag) \in held[w]
  BY <1>1, <1>3, <1>4, <1>6 DEF WorkerInv, RowsHeld
<1>8. row \in Rows /\ row.tag = association[r.id].tag
  <2>1. association[r.id] \in Rows
    BY <1>3, <1>6, <1>7 DEF Stored
  <2>2. r.target \in Targets /\ r.quantity \in 1 .. MaxQuantity
    BY <1>3, <1>4, RequestAssumption
  <2> QED
    BY <1>7, <2>1, <2>2, IntendedRow
<1>9. Needs(w) = {Key(association[r.id].tag, r.target)}
  BY <1>1 DEF Needs
<1>10. \A v \in Workers \ {w} : h \cap held[v] = {}
  BY <1>1, <1>2, TakesFree
<1>11. /\ \A i : AssociationRow(i) \in h => AssociationRow(i) \in held[w]
       /\ \A g, x : Key(g, x) \in h => Key(g, x) \in held[w] \/ TagRow(g) \in h
       /\ held[w] \subseteq h
  BY <1>7, <1>9, RowNames
<1> HIDE DEF row, r
<1>12. MayWrite(r.id, row, h)
  BY <1>4, <1>7, <1>8, <1>11 DEF MayWrite
<1> HIDE DEF h, f
<1>13. /\ written \in Writtens /\ written.association = f
       /\ \A j \in DOMAIN f :
             (j \in DOMAIN Changes(w) /\ f[j] = Changes(w)[j]) \/ MayWrite(j, f[j], h)
  <2>1. f = Put(work[w].written.association, r.id, row) /\ row \in Rows \cup {None}
    BY <1>8 DEF f
  <2> QED
    BY <1>2, <1>6, <1>11, <1>12, <2>1, RowWritten
<1> HIDE DEF written
<1>14. issued' \in issued .. MaxIssued
  BY <1>2, <1>5, BusyFacts
<1> QED
  BY <1>1, <1>2, <1>5, <1>10, <1>11, <1>13, <1>14, CommitsNext

LEMMA RemoveAssociationKeeps ==
    ASSUME YieldInv, NEW w \in Workers, RemoveAssociation(w) PROVE YieldInv'
<1> DEFINE r == Asked(w)
           f == Put(work[w].written.association, r.id, None)
           written == [work[w].written EXCEPT !.association = f]
           h == held[w] \cup Needs(w)
<1>1. /\ work[w].at = "write" /\ r.op = "removeAssociation" /\ MayRun(w)
      /\ UNCHANGED <<tag, association, copy>>
  BY DEF RemoveAssociation, tables
<1>2. Busy(w)
  BY <1>1 DEF Busy
<1>3. CASE Goes(w, "explain") /\ UNCHANGED <<held, issued>>
  BY <1>1, <1>2, <1>3, ExplainsNext
<1>4. CASE Expected(r.id, r) /\ Updates(w, "commit", r.id, None) /\ Takes(w, Needs(w))
  <2>1. /\ work' = [work EXCEPT ![w] = Writing(work[w], "commit", written)]
        /\ held' = [held EXCEPT ![w] = h] /\ issued' = issued
    BY <1>4 DEF Updates, Writes, Becomes, Takes, Writing
  <2>2. Needs(w) = {AssociationRow(r.id)} /\ r.id \in Stored /\ r.id \in Ids
    BY <1>1, <1>4 DEF Needs, Expected, Stored
  <2>3. \A v \in Workers \ {w} : h \cap held[v] = {}
    BY <1>1, <1>2, TakesFree
  <2>4. /\ \A i : AssociationRow(i) \in h => AssociationRow(i) \in held[w] \/ i \in Stored
        /\ \A g, x : Key(g, x) \in h => Key(g, x) \in held[w]
        /\ held[w] \subseteq h /\ AssociationRow(r.id) \in h
    BY <2>2, RowNames
  <2> HIDE DEF r, h, f
  <2>5. MayWrite(r.id, None, h)
    BY <2>2, <2>4 DEF MayWrite
  <2>6. /\ written \in Writtens /\ written.association = f
        /\ \A j \in DOMAIN f :
              (j \in DOMAIN Changes(w) /\ f[j] = Changes(w)[j]) \/ MayWrite(j, f[j], h)
    <3>1. f = Put(work[w].written.association, r.id, None) /\ None \in Rows \cup {None}
      BY DEF f
    <3> QED
      BY <1>2, <2>2, <2>4, <2>5, <3>1, RowWritten
  <2> HIDE DEF written
  <2>7. issued' \in issued .. MaxIssued
    BY <1>2, <2>1, BusyFacts
  <2> QED
    BY <1>1, <1>2, <2>1, <2>3, <2>4, <2>6, <2>7, CommitsNext
<1> QED
  BY <1>3, <1>4 DEF RemoveAssociation

LEMMA ExplainKeeps ==
    ASSUME YieldInv, NEW w \in Workers, Explain(w) PROVE YieldInv'
<1>1. Busy(w) /\ UNCHANGED <<tag, association, copy>>
  BY DEF Explain, Busy, tables
<1>2. PICK outcome \in {"missing", "duplicate", "conflict"} : Ends(w, outcome)
  BY DEF Explain
<1>3. outcome \in {"done", "conflict", "missing", "duplicate", "invalid-request", "unavailable"}
  BY <1>2
<1> QED
  BY <1>1, <1>2, <1>3, EndKeeps

LEMMA RollBackKeeps ==
    ASSUME YieldInv, NEW w \in Workers, RollBack(w) PROVE YieldInv'
<1>1. Busy(w) /\ UNCHANGED <<tag, association, copy>> /\ Ends(w, "unavailable")
  BY DEF RollBack, tables
<1> QED
  BY <1>1, EndKeeps

LEMMA ReadRequiredKeeps ==
    ASSUME YieldInv, NEW w \in Workers, ReadRequired(w) PROVE YieldInv'
<1> DEFINE r == Asked(w)
           ids == Naming(r.tag, NextTarget(w))
           found == IF ids = {} THEN None ELSE association[CHOOSE i \in ids : TRUE].quantity
           t == Finding(work[w], found)
<1>1. work[w].at = "read" /\ UNCHANGED <<tag, association, copy, issued, held>>
  BY DEF ReadRequired, tables
<1>2. Busy(w)
  BY <1>1 DEF Busy
<1>3. /\ work[w] \in Transactions /\ WorkerInv(w) /\ r \in Requests /\ r.op = "confirm"
      /\ association \in [Ids -> Rows \cup {None}]
  BY <1>1, <1>2, BusyFacts DEF WorkerInv, Follows
<1>4. CASE work[w].targets = {} /\ Goes(w, "commit")
  <2>1. "commit" \in Places \ {"idle", "ended"}
    BY DEF Places
  <2>2. work'[w].at = "commit" /\ work'[w].request = r /\ held' = held /\ Stored' = Stored
    <3>1. work'[w] = [work[w] EXCEPT !.at = "commit"]
      BY <1>4 DEF Goes, Becomes, YieldInv, Shapes
    <3> QED
      BY <1>1, <1>3, <2>1, <3>1, AtFields DEF Asked, Stored
  <2>3. (Follows(w) /\ (Beginning(w) => held[w] = {}) /\ ReferencesInOrder(w) /\ ReadStill(w))'
    BY <2>2 DEF Follows, Beginning, ReadStill, ReferencesInOrder
  <2>4. DomainHeld(w)'
    BY <1>1, <1>3, <2>2 DEF WorkerInv, DomainHeld, Locked, Asked
  <2> QED
    BY <1>1, <1>2, <1>4, <2>1, <2>3, <2>4, AtKeeps
<1>5. CASE work[w].targets # {} /\ Becomes(w, t)
  <2>1. ids # {} => found \in 1 .. MaxQuantity
    <3>1. ASSUME NEW i \in ids PROVE association[i].quantity \in 1 .. MaxQuantity
      <4>1. association[i] \in Rows /\ association[i].tag = r.tag
        BY <1>3 DEF Naming, Stored
      <4>2. r.tag \in Intended
        BY <1>3, RequestAssumption
      <4> QED
        BY <4>1, <4>2, TagAssumption DEF Rows
    <3> QED
      BY <3>1
  <2>2. /\ found \in 1 .. MaxQuantity \cup {None} /\ None \notin 1 .. MaxQuantity
        /\ found = None => ids = {}
    BY <2>1, TagAssumption, AccountAssumption
  <2> HIDE DEF found
  <2>3. /\ t \in Transactions /\ t.at = "add" /\ t.request = r /\ t.written = work[w].written
        /\ t.refer = work[w].refer /\ t.targets = work[w].targets /\ t.found = found
    BY <1>3, <2>2, FoundFields DEF Asked
  <2>4. work' = [work EXCEPT ![w] = t] /\ held' = [held EXCEPT ![w] = held[w]]
    BY <1>1, <1>5 DEF Becomes, YieldInv, Shapes
  <2> HIDE DEF t
  <2>5. work'[w] = t /\ held' = held /\ Stored' = Stored
    BY <1>1, <2>4 DEF YieldInv, Shapes, Stored
  <2>6. (Follows(w) /\ (Beginning(w) => held[w] = {}) /\ ReferencesInOrder(w))'
    BY <1>3, <1>5, <2>3, <2>5 DEF Follows, Beginning, ReferencesInOrder, Asked
  <2>7. DomainHeld(w)'
    BY <1>1, <1>3, <2>3, <2>5 DEF WorkerInv, DomainHeld, Locked, Asked
  <2>8. ReadStill(w)'
    BY <1>1, <2>2, <2>3, <2>5 DEF ReadStill, Asked, Naming, NextTarget
  <2>9. Extends(w, t, held[w])
    BY <2>3 DEF Extends, Changes
  <2>10. issued' \in issued .. MaxIssued /\ \A v \in Workers \ {w} : held[w] \cap held[v] = {}
    BY <1>1, <1>2, BusyFacts
  <2> QED
    BY <1>1, <1>2, <2>3, <2>4, <2>6, <2>7, <2>8, <2>9, <2>10, GoesOn
<1> QED
  BY <1>4, <1>5 DEF ReadRequired, Finding

\* The row of one target is written and the next target is read.
WithRows(w, f) == [work[w].written EXCEPT !.association = f]

Added(w, i, row) ==
    work' = [work EXCEPT ![w] =
                Adding(work[w], work[w].targets \ {NextTarget(w)},
                       WithRows(w, Put(work[w].written.association, i, row)))]

LEMMA ReadsNext ==
    ASSUME YieldInv, NEW w \in Workers, work[w].at = "add", NEW i \in Ids, NEW row \in Rows,
           NEW h, MayWrite(i, row, h), UNCHANGED <<tag, association, copy>>,
           issued' \in issued .. MaxIssued,
           Added(w, i, row),
           held' = [held EXCEPT ![w] = h],
           \A v \in Workers \ {w} : h \cap held[v] = {}, held[w] \subseteq h,
           \A j \in Ids : AssociationRow(j) \in h =>
              AssociationRow(j) \in held[w] \/ j \in Naming(Asked(w).tag, NextTarget(w)),
           \A g \in Tags, x \in Targets :
              Key(g, x) \in h => Key(g, x) \in held[w] \/ TagRow(g) \in h
    PROVE  YieldInv'
<1> DEFINE f == Put(work[w].written.association, i, row)
           written == WithRows(w, f)
           targets == work[w].targets \ {NextTarget(w)}
           t == Adding(work[w], targets, written)
<1>1. Busy(w)
  BY DEF Busy
<1>2. /\ work[w] \in Transactions /\ WorkerInv(w) /\ Asked(w) \in Requests
      /\ Asked(w).op = "confirm"
  BY <1>1, BusyFacts DEF WorkerInv, Follows
<1>3. TagRow(Asked(w).tag) \in held[w] /\ Asked(w).tag \in Intended
  BY <1>2, RequestAssumption DEF WorkerInv, DomainHeld, Locked
<1>4. /\ written \in Writtens /\ written.association = f
      /\ \A j \in DOMAIN f :
            (j \in DOMAIN Changes(w) /\ f[j] = Changes(w)[j]) \/ MayWrite(j, f[j], h)
  BY <1>1, RowWritten DEF WithRows
<1> HIDE DEF written, f
<1>5. /\ t \in Transactions /\ t.at = "read" /\ t.request = Asked(w) /\ t.written = written
      /\ t.refer = work[w].refer
  <2>1. targets \in SUBSET work[w].targets
    OBVIOUS
  <2> HIDE DEF targets
  <2>2. /\ t \in Transactions /\ t.at = "read" /\ t.request = work[w].request
        /\ t.written = written /\ t.refer = work[w].refer
    BY <1>2, <1>4, <2>1, AddedFields
  <2> QED
    BY <2>2 DEF Asked
<1>6. work' = [work EXCEPT ![w] = t]
  BY DEF written, f, Added
<1> HIDE DEF t, targets
<1>7. work'[w] = t /\ held'[w] = h /\ Stored' = Stored
  BY <1>6 DEF YieldInv, Shapes, Stored
<1>8. (Follows(w) /\ (Beginning(w) => held[w] = {}) /\ ReferencesInOrder(w) /\ ReadStill(w))'
  BY <1>2, <1>5, <1>7 DEF Follows, Beginning, ReferencesInOrder, ReadStill, Asked
<1>9. DomainHeld(w)'
  BY <1>2, <1>3, <1>5, <1>7 DEF DomainHeld, Asked
<1>10. Extends(w, t, h)
  BY <1>3, <1>4, <1>5 DEF Extends, Naming
<1> QED
  BY <1>1, <1>5, <1>6, <1>8, <1>9, <1>10, GoesOn

LEMMA AddRequiredKeeps ==
    ASSUME YieldInv, NEW w \in Workers, AddRequired(w) PROVE YieldInv'
<1> DEFINE r == Asked(w)
           x == NextTarget(w)
           ids == Naming(r.tag, x)
           quantity == (IF work[w].found = None THEN 0 ELSE work[w].found) + r.wanted[x]
           h == held[w] \cup Needs(w)
<1>1. work[w].at = "add" /\ MayRun(w) /\ UNCHANGED <<tag, association, copy>>
  BY DEF AddRequired, tables
<1>2. Busy(w)
  BY <1>1 DEF Busy
<1>3. /\ work[w] \in Transactions /\ WorkerInv(w) /\ r \in Requests /\ r.op = "confirm"
      /\ association \in [Ids -> Rows \cup {None}]
  BY <1>1, <1>2, BusyFacts DEF WorkerInv, Follows
<1>4. r.tag \in Intended /\ TagRow(r.tag) \in held[w]
  BY <1>1, <1>3, RequestAssumption DEF WorkerInv, DomainHeld, Locked
<1>5. /\ x \in work[w].targets /\ x \in Targets /\ r.wanted[x] \in 1 .. MaxQuantity
      /\ work[w].found \in 1 .. MaxQuantity \cup {None}
  <2>1. /\ work[w].targets \in SUBSET Targets /\ work[w].targets # {}
        /\ work[w].targets \subseteq DOMAIN r.wanted
    BY <1>1, <1>3 DEF WorkerInv, Follows, Transactions, TransactionRecords, Asked
  <2>2. work[w].targets \in SUBSET Nat
    BY <2>1, AccountAssumption
  <2>3. x \in work[w].targets
    BY <2>1, <2>2, LeastOf DEF NextTarget
  <2>4. work[w].found \in 1 .. MaxQuantity \cup {None}
    BY <1>3 DEF Transactions, TransactionRecords
  <2> QED
    BY <1>3, <2>1, <2>3, <2>4, RequestAssumption
<1>6. quantity \in Nat /\ quantity >= 1
  BY <1>5, AccountAssumption
<1>7. work[w].found = None => ids = {}
  BY <1>1, <1>3 DEF WorkerInv, ReadStill
<1>8. CASE Ends(w, "invalid-request")
  BY <1>1, <1>2, <1>8, EndKeeps
<1>9. CASE /\ work[w].found # None /\ ids = {} /\ Ends(w, "unavailable")
  BY <1>1, <1>2, <1>9, EndKeeps
<1>10. \A v \in Workers \ {w} : h \cap held[v] = {}
  BY <1>1, <1>2, TakesFree
<1>11. CASE /\ quantity <= MaxQuantity /\ work[w].found = None
            /\ issued < MaxIssued /\ issued' = issued + 1
            /\ Added(w, issued + 1, Row(r.tag, x, quantity, 1))
            /\ Takes(w, Needs(w))
  <2> DEFINE row == Row(r.tag, x, quantity, 1)
  <2>1. row \in Rows /\ row.tag = r.tag
    BY <1>4, <1>5, <1>6, <1>11, AccountAssumption DEF Row, Rows
  <2>2. Needs(w) = {Key(r.tag, x)}
    BY <1>1, <1>11 DEF Needs
  <2>3. /\ \A i : AssociationRow(i) \in h => AssociationRow(i) \in held[w]
        /\ \A g, y : Key(g, y) \in h => Key(g, y) \in held[w] \/ TagRow(g) \in h
        /\ held[w] \subseteq h
    BY <1>4, <2>2, RowNames
  <2>4. /\ issued + 1 \in Ids /\ issued + 1 \in issued + 1 .. issued'
        /\ issued' \in issued .. MaxIssued /\ issued + 1 \notin Stored
    BY <1>2, <1>11, BusyFacts DEF Ids
  <2>5. held' = [held EXCEPT ![w] = h]
    BY <1>11 DEF Takes
  <2> HIDE DEF row, h
  <2>6. MayWrite(issued + 1, row, h)
    BY <1>4, <2>1, <2>3, <2>4 DEF MayWrite
  <2>7. Added(w, issued + 1, row)
    BY <1>11 DEF row
  <2> QED
    BY <1>1, <1>10, <2>1, <2>3, <2>4, <2>5, <2>6, <2>7, ReadsNext
<1>12. CASE /\ quantity <= MaxQuantity /\ work[w].found # None /\ ids # {}
            /\ LET i == CHOOSE i \in ids : TRUE
               IN  Added(w, i, Advanced([association[i] EXCEPT !.quantity = quantity]))
            /\ Takes(w, Needs(w)) /\ UNCHANGED issued
  <2> DEFINE i == CHOOSE i \in ids : TRUE
             row == Advanced([association[i] EXCEPT !.quantity = quantity])
  <2>1. i \in ids /\ i \in Ids /\ i \in Stored /\ association[i].tag = r.tag
    BY <1>12 DEF Naming, Stored
  <2>2. row \in Rows /\ row.tag = association[i].tag
    <3>1. association[i] \in Rows /\ association[i].tag \in Intended
      BY <1>3, <1>4, <2>1 DEF Stored
    <3>2. quantity \in 1 .. MaxQuantity
      BY <1>6, <1>12, AccountAssumption
    <3> HIDE DEF i, quantity
    <3> QED
      BY <1>5, <3>1, <3>2, IntendedRow
  <2>3. Needs(w) = {AssociationRow(j) : j \in ids}
    BY <1>1, <1>12 DEF Needs
  <2>4. /\ \A j : AssociationRow(j) \in h => AssociationRow(j) \in held[w] \/ j \in ids
        /\ \A g, y : Key(g, y) \in h => Key(g, y) \in held[w]
        /\ held[w] \subseteq h /\ AssociationRow(i) \in h
    BY <2>1, <2>3, RowNames
  <2>5. held' = [held EXCEPT ![w] = h] /\ issued' \in issued .. MaxIssued
    BY <1>2, <1>12, BusyFacts DEF Takes
  <2>6. Added(w, i, row)
    BY <1>12
  <2> HIDE DEF row, h, i
  <2>7. MayWrite(i, row, h)
    BY <1>4, <2>1, <2>2, <2>4 DEF MayWrite
  <2> QED
    BY <1>1, <1>10, <2>1, <2>2, <2>4, <2>5, <2>6, <2>7, ReadsNext
<1>13. /\ quantity > MaxQuantity => Ends(w, "invalid-request")
       /\ ~(quantity > MaxQuantity) /\ work[w].found = None /\ ids = {} =>
             /\ issued < MaxIssued /\ issued' = issued + 1
             /\ Added(w, issued + 1, Row(r.tag, x, quantity, 1))
             /\ Takes(w, Needs(w))
       /\ ~(quantity > MaxQuantity) /\ work[w].found # None /\ ids = {} => Ends(w, "unavailable")
       /\ ~(quantity > MaxQuantity) /\ work[w].found # None /\ ids # {} =>
             /\ LET i == CHOOSE i \in ids : TRUE
                IN  Added(w, i, Advanced([association[i] EXCEPT !.quantity = quantity]))
             /\ Takes(w, Needs(w)) /\ UNCHANGED issued
  BY DEF AddRequired, Becomes, Added, Adding, WithRows
<1>14. quantity > MaxQuantity \/ quantity <= MaxQuantity
  BY <1>6, AccountAssumption
<1> QED
  BY <1>7, <1>8, <1>9, <1>11, <1>12, <1>13, <1>14

LEMMA UpdateCopyKeeps ==
    ASSUME YieldInv, NEW w \in Workers, UpdateCopy(w) PROVE YieldInv'
<1> DEFINE r == Asked(w)
           corrected == IF r.op = "correctCopy" THEN [copy[r.copy] EXCEPT !.printing = r.printing]
                        ELSE copy[r.copy]
           f == Put(work[w].written.copy, r.copy, Advanced(corrected))
           written == [work[w].written EXCEPT !.copy = f]
           at == IF r.op = "correctCopy" THEN "refer" ELSE "write"
           t == Writing(work[w], at, written)
           h == held[w] \cup Needs(w)
<1>1. /\ work[w].at = "copy" /\ MayRun(w)
      /\ UNCHANGED <<tag, association, copy, issued>>
  BY DEF UpdateCopy, tables
<1>2. Busy(w)
  BY <1>1 DEF Busy
<1>3. /\ work[w] \in Transactions /\ WorkerInv(w) /\ r \in Requests
      /\ r.op \in {"moveCopyLocation", "correctCopy"} /\ held[w] = {}
  BY <1>1, <1>2, BusyFacts DEF WorkerInv, Follows, Beginning
<1>4. CASE Goes(w, "explain") /\ UNCHANGED held
  BY <1>1, <1>2, <1>4, ExplainsNext
<1>5. CASE /\ copy[r.copy] # None
           /\ Writes(w, at, written) /\ Takes(w, Needs(w))
  <2>1. work' = [work EXCEPT ![w] = t] /\ held' = [held EXCEPT ![w] = h]
    BY <1>5 DEF Writes, Becomes, Takes, Writing
  <2>2. Advanced(corrected) \in CopyRows /\ r.copy \in Copies
    <3>1. r.copy \in Copies /\ (r.op = "correctCopy" => r.printing \in Printings)
      BY <1>3, RequestAssumption
    <3>2. copy[r.copy] \in CopyRows
      BY <1>5, <3>1 DEF YieldInv, Shapes
    <3>3. corrected \in CopyRows
      BY <3>1, <3>2 DEF CopyRows
    <3> HIDE DEF corrected
    <3>4. corrected.revision + 1 \in Nat \ {0}
      BY <3>3 DEF CopyRows
    <3> QED
      BY <3>1, <3>3, <3>4 DEF CopyRows, Advanced
  <2>3. f \in Partial(Copies, CopyRows)
    <3>1. work[w].written.copy \in Partial(Copies, CopyRows)
      BY <1>2, TransactionChanges DEF Writtens
    <3>2. PICK D \in SUBSET Copies : work[w].written.copy \in [D -> CopyRows]
      BY <3>1 DEF Partial
    <3> QED
      BY <2>2, <3>2, PutRow
  <2> HIDE DEF f
  <2>4. written \in Writtens /\ written.association = Changes(w)
    BY <1>2, <2>3, TransactionChanges, WrittenFields DEF Changes
  <2>5. Needs(w) = {CopyRow(r.copy)}
    BY <1>1 DEF Needs
  <2>6. /\ \A i : AssociationRow(i) \notin h
        /\ \A g, x : Key(g, x) \notin h
        /\ \A p : ReferenceRow(p) \notin h
    BY <1>3, <2>5, RowNames
  <2>7. \A v \in Workers \ {w} : h \cap held[v] = {}
    BY <1>1, <1>2, TakesFree
  <2>8. /\ at \in Places \ {"idle"} /\ at \in {"refer", "write"}
        /\ at = "refer" <=> r.op = "correctCopy"
    BY DEF Places
  <2> HIDE DEF written, at
  <2>9. /\ t \in Transactions /\ t.at = at /\ t.request = r /\ t.written = written
        /\ t.refer = work[w].refer
    <3>1. /\ t \in Transactions /\ t.at = at /\ t.request = work[w].request
          /\ t.written = written /\ t.refer = work[w].refer
      BY <1>3, <2>4, <2>8, WroteFields
    <3> QED
      BY <3>1 DEF Asked
  <2> HIDE DEF t, h
  <2>10. work'[w] = t /\ held'[w] = h /\ Stored' = Stored
    BY <1>1, <2>1 DEF YieldInv, Shapes, Stored
  <2>11. /\ Follows(w)' /\ (Beginning(w) => held[w] = {})' /\ ReferencesInOrder(w)'
         /\ ReadStill(w)' /\ DomainHeld(w)'
    BY <1>3, <2>6, <2>8, <2>9, <2>10
       DEF Follows, Beginning, ReferencesInOrder, ReadStill, DomainHeld, Asked
  <2>12. Extends(w, t, h)
    BY <1>3, <2>4, <2>6, <2>9 DEF Extends
  <2>13. issued' \in issued .. MaxIssued
    BY <1>1, <1>2, BusyFacts
  <2>14. t.at \notin {"idle", "ended"}
    BY <2>8, <2>9
  <2> QED
    BY <1>1, <1>2, <2>1, <2>7, <2>9, <2>11, <2>12, <2>13, <2>14, GoesOn
<1> QED
  BY <1>4, <1>5 DEF UpdateCopy

LEMMA WriteTagKeeps ==
    ASSUME YieldInv, NEW w \in Workers, WriteTag(w) PROVE YieldInv'
<1> DEFINE r == Asked(w)
           f == Put(work[w].written.tag, r.tag, tag[r.tag] + 1)
           written == [work[w].written EXCEPT !.tag = f]
           h == held[w] \cup Needs(w)
<1>1. /\ work[w].at = "write" /\ r.op \in {"createTag", "correctTag"} /\ MayRun(w)
      /\ UNCHANGED <<tag, association, copy, issued>>
  BY DEF WriteTag, tables
<1>2. Busy(w)
  BY <1>1 DEF Busy
<1>3. r \in Requests
  BY <1>2, BusyFacts
<1>4. CASE Goes(w, "explain") /\ UNCHANGED held
  BY <1>1, <1>2, <1>4, ExplainsNext
<1>5. CASE Writes(w, "commit", written) /\ Takes(w, Needs(w))
  <2>1. /\ work' = [work EXCEPT ![w] = Writing(work[w], "commit", written)]
        /\ held' = [held EXCEPT ![w] = h]
    BY <1>5 DEF Writes, Becomes, Takes, Writing
  <2>2. r.tag \in Tags /\ tag[r.tag] + 1 \in Nat
    BY <1>1, <1>3, RequestAssumption DEF YieldInv, Shapes, Tags
  <2>3. f \in Partial(Tags, Nat)
    <3>1. work[w].written.tag \in Partial(Tags, Nat)
      BY <1>2, TransactionChanges DEF Writtens
    <3>2. PICK D \in SUBSET Tags : work[w].written.tag \in [D -> Nat]
      BY <3>1 DEF Partial
    <3> QED
      BY <2>2, <3>2, PutRow
  <2> HIDE DEF f
  <2>4. written \in Writtens /\ written.association = Changes(w)
    BY <1>2, <2>3, TransactionChanges, WrittenFields DEF Changes
  <2>5. Needs(w) \subseteq {TagRow(r.tag)}
    BY <1>1 DEF Needs
  <2>6. /\ \A i : AssociationRow(i) \in h => AssociationRow(i) \in held[w]
        /\ \A g, x : Key(g, x) \in h => Key(g, x) \in held[w]
        /\ held[w] \subseteq h
    BY <2>5, RowNames
  <2>7. \A v \in Workers \ {w} : h \cap held[v] = {}
    BY <1>1, <1>2, TakesFree
  <2>8. issued' \in issued .. MaxIssued
    BY <1>1, <1>2, BusyFacts
  <2> HIDE DEF written, h
  <2> QED
    BY <1>1, <1>2, <2>1, <2>4, <2>6, <2>7, <2>8, CommitsNext
<1> QED
  BY <1>4, <1>5 DEF WriteTag

\* The last statement writes one association row.
LEMMA RowCommitsNext ==
    ASSUME YieldInv, NEW w \in Workers, Busy(w), work[w].at \notin {"lock", "commit"},
           NEW i \in Ids, NEW row \in Rows \cup {None}, NEW h, MayWrite(i, row, h),
           UNCHANGED <<tag, association, copy>>, issued' \in issued .. MaxIssued,
           work' = [work EXCEPT ![w] = Writing(work[w], "commit",
                       WithRows(w, Put(work[w].written.association, i, row)))],
           held' = [held EXCEPT ![w] = h],
           \A v \in Workers \ {w} : h \cap held[v] = {}, held[w] \subseteq h,
           \A j \in Ids : AssociationRow(j) \in h => AssociationRow(j) \in held[w] \/ j \in Stored,
           \A g \in Tags, x \in Targets :
              Key(g, x) \in h => Key(g, x) \in held[w] \/ TagRow(g) \in h
    PROVE  YieldInv'
<1> DEFINE f == Put(work[w].written.association, i, row)
           written == WithRows(w, f)
<1>1. /\ written \in Writtens /\ written.association = f
      /\ \A j \in DOMAIN f :
            (j \in DOMAIN Changes(w) /\ f[j] = Changes(w)[j]) \/ MayWrite(j, f[j], h)
  BY RowWritten DEF WithRows
<1> HIDE DEF f
<1>2. work' = [work EXCEPT ![w] = Writing(work[w], "commit", written)]
  BY DEF f
<1> HIDE DEF written
<1> QED
  BY <1>1, <1>2, CommitsNext

LEMMA MoveLocationKeeps ==
    ASSUME YieldInv, NEW w \in Workers, MoveLocation(w) PROVE YieldInv'
<1> DEFINE r == Asked(w)
           h == held[w] \cup Needs(w)
<1>1. /\ work[w].at = "write" /\ r.op = "moveCopyLocation" /\ MayRun(w)
      /\ held' = [held EXCEPT ![w] = h] /\ UNCHANGED <<tag, association, copy>>
  BY DEF MoveLocation, tables, Takes
<1>2. Busy(w)
  BY <1>1 DEF Busy
<1>3. /\ work[w] \in Transactions /\ WorkerInv(w) /\ r \in Requests
      /\ association \in [Ids -> Rows \cup {None}]
  BY <1>1, <1>2, BusyFacts
<1>4. r.copy \in Copies /\ r.place \in Locations \cup {None} /\ None \notin Locations
  BY <1>1, <1>3, RequestAssumption, TagAssumption DEF Tags
<1>5. Needs(w) = {AssociationRow(i) : i \in Placing(r.copy)}
  BY <1>1 DEF Needs
<1>6. \A v \in Workers \ {w} : h \cap held[v] = {}
  BY <1>1, <1>2, TakesFree
<1>7. Placing(r.copy) \subseteq Stored /\ Stored \subseteq Ids
  BY DEF Placing, Stored
<1>8. /\ \A i : AssociationRow(i) \in h => AssociationRow(i) \in held[w] \/ i \in Stored
      /\ \A g, x : Key(g, x) \in h => Key(g, x) \in held[w]
      /\ held[w] \subseteq h /\ \A i \in Placing(r.copy) : AssociationRow(i) \in h
  BY <1>5, <1>7, RowNames
<1>9. CASE Placing(r.copy) = {} /\ Goes(w, "commit") /\ UNCHANGED issued
  <2>1. held' = held
    BY <1>1, <1>5, <1>9 DEF YieldInv, Shapes
  <2>2. "commit" \in Places \ {"idle", "ended"}
    BY DEF Places
  <2>3. work'[w].at = "commit" /\ work'[w].request = r /\ Stored' = Stored
    <3>1. work'[w] = [work[w] EXCEPT !.at = "commit"]
      BY <1>9 DEF Goes, Becomes, YieldInv, Shapes
    <3> QED
      BY <1>1, <1>3, <2>2, <3>1, AtFields DEF Asked, Stored
  <2>4. (Follows(w) /\ (Beginning(w) => held[w] = {}) /\ ReferencesInOrder(w) /\ ReadStill(w))'
    BY <2>3 DEF Follows, Beginning, ReadStill, ReferencesInOrder
  <2>5. DomainHeld(w)'
    BY <1>1, <2>3 DEF DomainHeld, Asked
  <2> QED
    BY <1>1, <1>2, <1>9, <2>1, <2>2, <2>4, <2>5, AtKeeps
<1>10. CASE r.place # None /\ Inserts(w, "commit", r.place, r.copy, None)
  <2> DEFINE row == Row(r.place, r.copy, None, 1)
  <2>1. /\ issued < MaxIssued /\ issued' = issued + 1
        /\ work' = [work EXCEPT ![w] = Writing(work[w], "commit",
                       WithRows(w, Put(work[w].written.association, issued + 1, row)))]
    BY <1>10 DEF Inserts, Writes, Becomes, Writing, WithRows
  <2>2. row \in Rows \cup {None} /\ row.tag = r.place /\ r.place \notin Intended
    BY <1>4, <1>10, TagAssumption DEF Row, Rows
  <2>3. /\ issued + 1 \in Ids /\ issued + 1 \in issued + 1 .. issued'
        /\ issued' \in issued .. MaxIssued /\ issued + 1 \notin Stored
    BY <1>2, <2>1, BusyFacts DEF Ids
  <2> HIDE DEF row, h, r
  <2>4. MayWrite(issued + 1, row, h)
    BY <2>2, <2>3 DEF MayWrite
  <2> QED
    BY <1>1, <1>2, <1>6, <1>8, <2>1, <2>2, <2>3, <2>4, RowCommitsNext
<1>11. CASE /\ Placing(r.copy) # {}
            /\ LET i == CHOOSE i \in Placing(r.copy) : TRUE
               IN  Updates(w, "commit", i,
                       IF r.place = None THEN None
                       ELSE Advanced([association[i] EXCEPT !.tag = r.place]))
  <2> DEFINE i == CHOOSE i \in Placing(r.copy) : TRUE
             row == IF r.place = None THEN None
                    ELSE Advanced([association[i] EXCEPT !.tag = r.place])
  <2>1. i \in Placing(r.copy) /\ i \in Stored /\ i \in Ids
    BY <1>7, <1>11
  <2>2. association[i].tag \in Locations /\ association[i] \in Rows
    BY <1>3, <2>1 DEF Placing, Stored
  <2>3. row \in Rows \cup {None} /\ (row # None => row.tag \notin Intended)
    <3>1. CASE r.place = None
      BY <3>1
    <3>2. CASE r.place # None
      <4>1. association[i] \in [tag : Locations \cup {Owned}, target : Copies,
                                quantity : {None}, revision : Nat \ {0}]
        BY <2>2, TagAssumption DEF Rows
      <4> HIDE DEF i
      <4>2. association[i].revision + 1 \in Nat \ {0}
        BY <4>1
      <4>3. r.place \in Locations /\ r.place \notin Intended
        BY <1>4, <3>2, TagAssumption
      <4>4. Advanced([association[i] EXCEPT !.tag = r.place]) \in Rows
        BY <4>1, <4>2, <4>3 DEF Advanced, Rows
      <4>5. Advanced([association[i] EXCEPT !.tag = r.place]).tag = r.place
        BY <4>1 DEF Advanced
      <4> QED
        BY <3>2, <4>3, <4>4, <4>5
    <3> QED
      BY <3>1, <3>2
  <2>4. /\ work' = [work EXCEPT ![w] = Writing(work[w], "commit",
                       WithRows(w, Put(work[w].written.association, i, row)))]
        /\ issued' = issued
    BY <1>11 DEF Updates, Writes, Becomes, Writing, WithRows
  <2>5. AssociationRow(i) \in h /\ association[i].tag \notin Intended
    BY <1>8, <2>1, <2>2, TagAssumption
  <2>6. issued' \in issued .. MaxIssued
    BY <1>2, <2>4, BusyFacts
  <2> HIDE DEF row, i, h, r
  <2>7. MayWrite(i, row, h)
    BY <2>1, <2>3, <2>5 DEF MayWrite
  <2> QED
    BY <1>1, <1>2, <1>6, <1>8, <2>1, <2>3, <2>4, <2>6, <2>7, RowCommitsNext
<1> QED
  BY <1>9, <1>10, <1>11 DEF MoveLocation

LEMMA InsertCopiesKeeps ==
    ASSUME YieldInv, NEW w \in Workers, InsertCopies(w) PROVE YieldInv'
<1> DEFINE r == Asked(w)
           row == Row(Owned, r.copy, None, 1)
           f == Put(work[w].written.association, issued + 1, row)
           g == Put(work[w].written.copy, r.copy, [printing |-> r.printing, revision |-> 1])
           written == [work[w].written EXCEPT !.copy = g, !.association = f]
<1>1. /\ work[w].at = "write" /\ r.op = "insertCopies"
      /\ issued < MaxIssued /\ issued' = issued + 1
      /\ work' = [work EXCEPT ![w] = Writing(work[w], "commit", written)]
      /\ UNCHANGED <<tag, association, copy, held>>
  BY DEF InsertCopies, Writes, Becomes, Writing, tables
<1>2. Busy(w)
  BY <1>1 DEF Busy
<1>3. r \in Requests /\ r.copy \in Copies /\ r.printing \in Printings
  BY <1>1, <1>2, BusyFacts, RequestAssumption
<1>4. row \in Rows \cup {None} /\ row.tag = Owned /\ Owned \notin Intended
  BY <1>3, TagAssumption DEF Row, Rows
<1>5. /\ issued + 1 \in Ids /\ issued + 1 \in issued + 1 .. issued'
      /\ issued' \in issued .. MaxIssued /\ issued + 1 \notin Stored
  BY <1>1, <1>2, BusyFacts DEF Ids
<1> HIDE DEF row, r
<1>6. MayWrite(issued + 1, row, held[w])
  BY <1>4, <1>5 DEF MayWrite
<1>7. /\ WithRows(w, f) \in Writtens /\ WithRows(w, f).association = f
      /\ \A j \in DOMAIN f :
            (j \in DOMAIN Changes(w) /\ f[j] = Changes(w)[j]) \/ MayWrite(j, f[j], held[w])
  BY <1>2, <1>4, <1>5, <1>6, RowWritten DEF WithRows
<1>8. g \in Partial(Copies, CopyRows)
  <2>1. work[w].written.copy \in Partial(Copies, CopyRows)
    BY <1>2, TransactionChanges DEF Writtens
  <2>2. PICK D \in SUBSET Copies : work[w].written.copy \in [D -> CopyRows]
    BY <2>1 DEF Partial
  <2>3. [printing |-> r.printing, revision |-> 1] \in CopyRows
    BY <1>3 DEF CopyRows
  <2> QED
    BY <1>3, <2>2, <2>3, PutRow
<1> HIDE DEF f, g
<1>9. written \in Writtens /\ written.association = f
  <2>1. work[w].written \in Writtens
    BY <1>2, TransactionChanges
  <2>2. f \in Partial(Ids, Rows \cup {None})
    BY <1>7 DEF Writtens
  <2> QED
    BY ONLY <2>1, <2>2, <1>8 DEF Writtens, written
<1> HIDE DEF written
<1>10. held' = [held EXCEPT ![w] = held[w]] /\ \A v \in Workers \ {w} : held[w] \cap held[v] = {}
  BY <1>1, <1>2, BusyFacts DEF YieldInv, Shapes
<1> QED
  BY <1>1, <1>2, <1>5, <1>7, <1>9, <1>10, CommitsNext

LEMMA ListAssociationsKeeps ==
    ASSUME YieldInv, NEW r \in Readers, NEW t \in Intended, ListAssociations(r, t)
    PROVE  YieldInv'
BY Kept DEF ListAssociations, tables

--------
(* Changes to the committed records: what the other transactions found     *)
(* still holds, for they hold the rows it rests on.                        *)

\* A row that changes is none that a transaction relies on.
Leaves(v, i) ==
    association'[i] # association[i] =>
        /\ AssociationRow(i) \notin held[v]
        /\ Busy(v) => i \notin DOMAIN Changes(v)
        /\ association'[i] # None /\ association'[i].tag \in Intended =>
              TagRow(association'[i].tag) \notin held[v]
        /\ Busy(v) /\ Asked(v).op \in {"correctAssociation", "removeAssociation"} /\ Asked(v).id = i =>
              /\ i \in Stored
              /\ association'[i] # None => association'[i].tag = association[i].tag

LEMMA OthersKept ==
    ASSUME YieldInv, NEW v \in Workers, work'[v] = work[v], held'[v] = held[v],
           \A i \in Ids : Leaves(v, i),
           issued' \in Nat, issued <= issued',
           \A i \in Stored : i \notin Stored' => \A u \in Workers : Busy(u)' => i \notin (DOMAIN Changes(u))',
           \A u \in Workers : Busy(u)' => Busy(u) /\ work'[u] = work[u]
    PROVE  WorkerInv(v)'
<1>1. /\ WorkerInv(v) /\ issued \in Nat /\ Stored \subseteq 1 .. issued
      /\ (Busy(v) <=> Busy(v)') /\ Asked(v)' = Asked(v) /\ (Changes(v))' = Changes(v)
  BY DEF YieldInv, Shapes, Busy, Asked, Changes
<1>2. Busy(v) => work[v] \in Transactions /\ Asked(v) \in Requests
  BY BusyFacts
<1>3. ASSUME NEW i \in Ids, AssociationRow(i) \in held[v]
      PROVE  association'[i] = association[i] /\ (i \in Stored <=> i \in Stored')
  BY <1>3 DEF Leaves, Stored
<1>4. ASSUME NEW t \in Intended, TagRow(t) \in held[v], NEW x
      PROVE  Naming(t, x)' \subseteq Naming(t, x)
  <2>1. ASSUME NEW i \in Ids, i \in Stored', association'[i].tag = t
        PROVE  association'[i] = association[i] /\ i \in Stored
    BY <1>4, <2>1 DEF Leaves, Stored
  <2> QED
    BY <2>1 DEF Naming, Stored
<1>5. /\ Follows(v)' /\ (Beginning(v) => held[v] = {})' /\ ReferencesInOrder(v)'
  BY <1>1 DEF WorkerInv, Follows, Beginning, ReferencesInOrder, Asked
<1>6. ASSUME Busy(v), Asked(v).op \in {"correctAssociation", "removeAssociation"}
      PROVE  LET i == Asked(v).id
             IN  /\ i \in 1 .. issued' /\ (i \in Stored' => association'[i].tag \in Intended)
                 /\ i \in Stored' => i \in Stored /\ association'[i].tag = association[i].tag
                 /\ i \notin Stored' =>
                       \A u \in Workers : Busy(u)' => i \notin (DOMAIN Changes(u))'
  <2> DEFINE i == Asked(v).id
  <2>1. /\ i \in 1 .. issued /\ (i \in Stored => association[i].tag \in Intended)
        /\ i \notin Stored => \A u \in Workers : Busy(u) => i \notin DOMAIN Changes(u)
    BY <1>1, <1>6 DEF WorkerInv, NamedStays
  <2>2. i \in 1 .. issued'
    BY <1>1, <2>1
  <2>3. i \in Stored' => i \in Stored /\ association'[i].tag = association[i].tag
    BY <1>6 DEF Leaves, Stored
  <2>4. ASSUME i \notin Stored', NEW u \in Workers, Busy(u)' PROVE i \notin (DOMAIN Changes(u))'
    <3>1. CASE i \in Stored
      BY <2>4, <3>1
    <3>2. CASE i \notin Stored
      BY <2>1, <2>4, <3>2 DEF Changes
    <3> QED
      BY <3>1, <3>2
  <2> QED
    BY <2>1, <2>2, <2>3, <2>4
<1>7. NamedStays(v)'
  BY <1>1, <1>6 DEF NamedStays
<1>8. DomainHeld(v)'
  <2>1. DomainHeld(v)
    BY <1>1 DEF WorkerInv
  <2>2. Locked(v) => Busy(v)
    BY DEF Locked, Busy
  <2> QED
    BY <1>1, <1>6, <2>1, <2>2 DEF DomainHeld, Locked
<1>9. RowsHeld(v)'
  BY <1>1, <1>3 DEF WorkerInv, RowsHeld
<1>10. ChangesHeld(v)'
  <2>1. ASSUME Busy(v), NEW i \in DOMAIN Changes(v)
        PROVE  /\ i <= issued' /\ association'[i] = association[i]
               /\ (i \in Stored <=> i \in Stored')
    <3>1. i \in Ids /\ i \in Nat /\ i <= issued
      BY <1>1, <2>1, TransactionChanges DEF WorkerInv, ChangesHeld
    <3> QED
      BY <1>1, <2>1, <3>1 DEF Leaves, Stored
  <2> QED
    BY <1>1, <2>1 DEF WorkerInv, ChangesHeld
<1>11. ReadStill(v)'
  <2>1. ASSUME work[v].at = "key"
        PROVE  AssociationRow(Asked(v).id) \in held[v] /\ ~NamedByAnother(Asked(v))'
    <3> DEFINE r == Asked(v)
    <3> PICK t, x : t = association[r.id].tag /\ x = r.target
      OBVIOUS
    <3>1. Busy(v) /\ r.op = "correctAssociation" /\ Locked(v)
      BY <1>1, <2>1 DEF Busy, Locked, WorkerInv, Follows
    <3>2. AssociationRow(r.id) \in held[v] /\ ~NamedByAnother(r)
      BY <1>1, <2>1 DEF WorkerInv, ReadStill
    <3>3. r.id \in Ids
      BY <1>1, <3>1, AccountAssumption DEF WorkerInv, NamedStays, YieldInv, Shapes, Ids
    <3>4. r.id \in Stored
      BY <1>1, <3>2, <3>3 DEF WorkerInv, RowsHeld
    <3>5. t \in Intended /\ TagRow(t) \in held[v]
      BY <1>1, <3>1, <3>4 DEF WorkerInv, NamedStays, DomainHeld
    <3>6. association'[r.id].tag = t
      BY <1>3, <3>2, <3>3
    <3>7. Naming(t, x)' \subseteq Naming(t, x)
      BY <1>4, <3>5
    <3>8. Naming(t, x) \subseteq {r.id} /\ r' = r
      BY <1>1, <3>2 DEF NamedByAnother
    <3>9. Naming(t, x)' \subseteq {r.id}
      BY <3>7, <3>8
    <3> QED
      BY <3>2, <3>6, <3>8, <3>9 DEF NamedByAnother, Naming
  <2>2. ASSUME work[v].at = "add", work[v].found = None
        PROVE  Naming(Asked(v).tag, NextTarget(v))' = {}
    <3>1. Busy(v) /\ Asked(v).op = "confirm" /\ Locked(v)
      BY <1>1, <2>2 DEF Busy, Locked, WorkerInv, Follows
    <3>2. Asked(v).tag \in Intended /\ TagRow(Asked(v).tag) \in held[v]
      BY <1>1, <1>2, <3>1, RequestAssumption DEF WorkerInv, DomainHeld
    <3>3. Naming(Asked(v).tag, NextTarget(v)) = {}
      BY <1>1, <2>2 DEF WorkerInv, ReadStill
    <3>4. NextTarget(v)' = NextTarget(v)
      BY DEF NextTarget
    <3> QED
      BY <1>1, <1>4, <3>2, <3>3, <3>4 DEF Naming
  <2> QED
    BY <1>1, <2>1, <2>2 DEF WorkerInv, ReadStill, Naming, NamedByAnother
<1> QED
  BY <1>5, <1>7, <1>8, <1>9, <1>10, <1>11 DEF WorkerInv

Total(K, R) == [K -> R]

LEMMA OverRows ==
    ASSUME NEW K, NEW R, NEW Z, NEW f \in Partial(K, R), NEW g \in Total(K, Z), R \subseteq Z
    PROVE  /\ Over(f, g) \in Total(K, Z)
           /\ \A k \in K : Over(f, g)[k] = IF k \in DOMAIN f THEN f[k] ELSE g[k]
<1>1. PICK D \in SUBSET K : f \in [D -> R]
  BY DEF Partial
<1>2. DOMAIN f = D /\ DOMAIN g = K /\ D \cup K = K
  BY <1>1 DEF Total
<1> QED
  BY <1>1, <1>2 DEF Over, Total

LEMMA CommitKeeps ==
    ASSUME YieldInv, NEW w \in Workers, Commit(w) PROVE YieldInv'
<1> DEFINE written == work[w].written
           t == Ending(work[w], "done")
<1>1. /\ work[w].at = "commit"
      /\ tag' = Over(written.tag, tag) /\ association' = Over(Changes(w), association)
      /\ copy' = Over(written.copy, copy)
      /\ work' = [work EXCEPT ![w] = t] /\ held' = [held EXCEPT ![w] = {}] /\ issued' = issued
  BY DEF Commit, Ends, Becomes, Changes, Ending
<1>2. Busy(w)
  BY <1>1 DEF Busy
<1>3. /\ work[w] \in Transactions /\ WorkerInv(w) /\ written \in Writtens
      /\ association \in [Ids -> Rows \cup {None}] /\ Stored \subseteq 1 .. issued
      /\ issued \in Nat /\ issued \in 0 .. MaxIssued
  BY <1>2, BusyFacts, TransactionChanges
<1>4. /\ tag' \in [Tags -> Nat] /\ copy' \in [Copies -> CopyRows \cup {None}]
      /\ association' \in [Ids -> Rows \cup {None}]
      /\ \A i \in Ids : association'[i] = IF i \in DOMAIN Changes(w) THEN Changes(w)[i]
                                          ELSE association[i]
  <2>1. /\ written.tag \in Partial(Tags, Nat) /\ written.copy \in Partial(Copies, CopyRows)
        /\ Changes(w) \in Partial(Ids, Rows \cup {None})
    BY <1>3 DEF Writtens, Changes
  <2>2. tag \in [Tags -> Nat] /\ copy \in [Copies -> CopyRows \cup {None}]
    BY DEF YieldInv, Shapes
  <2>3. tag' \in [Tags -> Nat]
    <3>1. tag \in Total(Tags, Nat) /\ Nat \subseteq Nat
      BY <2>2 DEF Total
    <3>2. tag' \in Total(Tags, Nat)
      BY <1>1, <2>1, <3>1, OverRows
    <3> QED
      BY <3>2 DEF Total
  <2>4. copy' \in [Copies -> CopyRows \cup {None}]
    <3> DEFINE Z == CopyRows \cup {None}
    <3>1. CopyRows \subseteq Z /\ copy \in Total(Copies, Z)
      BY <2>2 DEF Total
    <3> HIDE DEF Z
    <3>2. copy' \in Total(Copies, Z)
      BY <1>1, <2>1, <3>1, OverRows
    <3> QED
      BY <3>2 DEF Z, Total
  <2>5. /\ association' \in [Ids -> Rows \cup {None}]
        /\ \A i \in Ids : association'[i] = IF i \in DOMAIN Changes(w) THEN Changes(w)[i]
                                            ELSE association[i]
    <3> DEFINE Z == Rows \cup {None}
               c == Changes(w)
    <3>1. Z \subseteq Z /\ association \in Total(Ids, Z) /\ c \in Partial(Ids, Z)
          /\ association' = Over(c, association)
      BY <1>1, <1>3, <2>1 DEF Total
    <3> HIDE DEF Z, c
    <3>2. /\ association' \in Total(Ids, Z)
          /\ \A i \in Ids : association'[i] = IF i \in DOMAIN c THEN c[i] ELSE association[i]
      BY <3>1, OverRows
    <3> QED
      BY <3>2 DEF Z, c, Total
  <2> QED
    BY <2>3, <2>4, <2>5
<1>5. t \in Transactions /\ t.at = "ended" /\ t.outcome = "done"
  <2>1. "done" \in {None, "done", "conflict", "violation", "missing", "duplicate",
                    "invalid-request", "unavailable"}
    OBVIOUS
  <2> QED
    BY <1>3, <2>1, EndedFields
<1> HIDE DEF t
<1>6. /\ work'[w] = t /\ held'[w] = {}
      /\ \A v \in Workers \ {w} : work'[v] = work[v] /\ held'[v] = held[v]
      /\ work' = [v \in Workers |-> work'[v]] /\ held' = [v \in Workers |-> held'[v]]
  BY <1>1 DEF YieldInv, Shapes
<1>7. ~Busy(w)' /\ \A v \in Workers : Busy(v)' => v # w /\ Busy(v) /\ work'[v] = work[v]
  BY <1>5, <1>6 DEF Busy
<1>8. ASSUME NEW i \in DOMAIN Changes(w)
      PROVE  /\ i \in Ids /\ i \in 1 .. issued
             /\ i \in Stored => AssociationRow(i) \in held[w]
             /\ Changes(w)[i] # None =>
                   /\ Changes(w)[i].tag \in Intended => TagRow(Changes(w)[i].tag) \in held[w]
                   /\ i \in Stored /\ association[i].tag \in Intended =>
                         Changes(w)[i].tag = association[i].tag
  <2>1. i \in Ids /\ i \in Nat /\ i <= issued
    BY <1>2, <1>3, <1>8, TransactionChanges DEF WorkerInv, ChangesHeld
  <2>2. i \in 1 .. issued
    BY <1>3, <2>1 DEF Ids
  <2> QED
    BY <1>2, <1>3, <1>8, <2>1, <2>2 DEF WorkerInv, ChangesHeld
<1>9. Shapes'
  <2>1. Stored' \subseteq 1 .. issued
    <3>1. ASSUME NEW i \in Ids, association'[i] # None PROVE i \in 1 .. issued
      <4>1. CASE i \in DOMAIN Changes(w)
        BY <1>8, <4>1
      <4>2. CASE i \notin DOMAIN Changes(w)
        BY <1>3, <1>4, <3>1, <4>2 DEF Stored
      <4> QED
        BY <4>1, <4>2
    <3> QED
      BY <3>1 DEF Stored
  <2>2. \A v \in Workers : work'[v] = Idle \/ work'[v] \in Transactions
    BY <1>5, <1>6 DEF YieldInv, Shapes
  <2> QED
    BY <1>1, <1>3, <1>4, <1>6, <2>1, <2>2 DEF Shapes
<1>10. Exclusive'
  <2>1. ASSUME NEW u \in Workers, NEW v \in Workers, u # v
        PROVE  /\ held'[u] \cap held'[v] = {}
               /\ (Busy(u) /\ Busy(v))' => (DOMAIN Changes(u) \cap DOMAIN Changes(v))' = {}
    <3>1. CASE u # w /\ v # w
      BY <1>6, <2>1, <3>1 DEF YieldInv, Exclusive, Busy, Changes
    <3>2. CASE u = w \/ v = w
      BY <1>6, <1>7, <3>2
    <3> QED
      BY <3>1, <3>2
  <2> QED
    BY <2>1 DEF Exclusive
<1>11. ReferencesBounded'
  BY <1>7 DEF YieldInv, ReferencesBounded
<1>12. WorkerInv(w)'
  BY <1>5, <1>6
     DEF WorkerInv, Follows, Beginning, DomainHeld, Locked, ReferencesInOrder, RowsHeld,
         NamedStays, ChangesHeld, ReadStill, Busy
<1>13. ASSUME NEW v \in Workers \ {w} PROVE WorkerInv(v)'
  <2>1. /\ held[v] \cap held[w] = {} /\ WorkerInv(v)
        /\ Busy(v) => DOMAIN Changes(v) \cap DOMAIN Changes(w) = {}
    BY <1>2 DEF YieldInv, Exclusive
  <2>2. ASSUME NEW i \in Ids, association'[i] # association[i]
        PROVE  /\ AssociationRow(i) \notin held[v]
               /\ Busy(v) => i \notin DOMAIN Changes(v)
               /\ association'[i] # None /\ association'[i].tag \in Intended =>
                     TagRow(association'[i].tag) \notin held[v]
               /\ Busy(v) /\ Asked(v).op \in {"correctAssociation", "removeAssociation"}
                  /\ Asked(v).id = i =>
                     /\ i \in Stored
                     /\ association'[i] # None => association'[i].tag = association[i].tag
    <3>1. i \in DOMAIN Changes(w) /\ association'[i] = Changes(w)[i]
      BY <1>4, <2>2
    <3>2. AssociationRow(i) \notin held[v]
      BY <1>8, <2>1, <3>1 DEF WorkerInv, RowsHeld
    <3>3. association'[i] # None /\ association'[i].tag \in Intended =>
             TagRow(association'[i].tag) \notin held[v]
      BY <1>8, <2>1, <3>1
    <3>4. ASSUME Busy(v), Asked(v).op \in {"correctAssociation", "removeAssociation"},
                 Asked(v).id = i
          PROVE  /\ i \in Stored
                 /\ association'[i] # None => association'[i].tag = association[i].tag
      <4>1. /\ i \in Stored => association[i].tag \in Intended
            /\ i \notin Stored => i \notin DOMAIN Changes(w)
        BY <1>2, <2>1, <3>4 DEF WorkerInv, NamedStays
      <4> QED
        BY <1>8, <3>1, <4>1
    <3> QED
      BY <2>1, <3>1, <3>2, <3>3, <3>4
  <2>3. \A i \in Ids : Leaves(v, i)
    BY <2>2 DEF Leaves
  <2>4. ASSUME NEW i \in Stored, i \notin Stored', NEW u \in Workers, Busy(u)'
        PROVE  i \notin (DOMAIN Changes(u))'
    <3>1. i \in DOMAIN Changes(w)
      BY <1>4, <2>4 DEF Stored
    <3>2. u # w /\ Busy(u) /\ work'[u] = work[u]
      BY <1>7, <2>4
    <3> QED
      BY <1>2, <3>1, <3>2 DEF YieldInv, Exclusive, Changes
  <2>5. issued' \in Nat /\ issued <= issued'
    BY <1>1, <1>3
  <2>6. work'[v] = work[v] /\ held'[v] = held[v]
    BY <1>6
  <2>7. \A u \in Workers : Busy(u)' => Busy(u) /\ work'[u] = work[u]
    BY <1>7
  <2> QED
    BY <2>3, <2>4, <2>5, <2>6, <2>7, OthersKept
<1> QED
  BY <1>9, <1>10, <1>11, <1>12, <1>13 DEF YieldInv

--------
(* The batches of a load.                                                  *)

\* A finite set as a sequence of its members.
LEMMA SetAsSequence ==
    ASSUME NEW S, IsFiniteSet(S)
    PROVE  /\ SetToSeq(S) \in [1 .. Cardinality(S) -> S] /\ Cardinality(S) \in Nat
           /\ SetToSeq(S) \in Seq(S) /\ Len(SetToSeq(S)) = Cardinality(S)
<1>1. Cardinality(S) \in Nat /\ ExistsBijection(1 .. Cardinality(S), S)
  BY FS_CardinalityType
<1>2. \E f \in [1 .. Cardinality(S) -> S] : IsInjective(f)
  BY <1>1 DEF ExistsBijection, Bijection, Injection, IsInjective
<1>3. SetToSeq(S) \in [1 .. Cardinality(S) -> S]
  BY <1>2 DEF SetToSeq
<1> HIDE DEF SetToSeq
<1> QED
  BY <1>1, <1>3

LEMMA ChunksOf ==
    ASSUME NEW S, IsFiniteSet(S) PROVE Chunks(S) \in Seq(SUBSET S)
<1> DEFINE s == SetToSeq(S)
           k == (Len(s) + BatchRecords - 1) \div BatchRecords
           g == [n \in 1 .. k |->
                   {s[i] : i \in (n - 1) * BatchRecords + 1 .. Min({n * BatchRecords, Len(s)})}]
<1>1. s \in [1 .. Len(s) -> S] /\ Len(s) \in Nat /\ BatchRecords \in Nat \ {0}
  BY SetAsSequence, LoadAssumption
<1>2. Chunks(S) = g
  BY DEF Chunks
<1> HIDE DEF s
<1>3. k \in Nat
  BY <1>1
<1> HIDE DEF k
<1>4. ASSUME NEW n \in 1 .. k,
             NEW i \in (n - 1) * BatchRecords + 1 .. Min({n * BatchRecords, Len(s)})
      PROVE  s[i] \in S
  <2> DEFINE a == n * BatchRecords
             b == (n - 1) * BatchRecords
  <2>1. a \in Nat /\ b \in Nat
    BY <1>1, <1>3
  <2>2. {a, Len(s)} \in SUBSET Nat /\ {a, Len(s)} # {}
    BY <1>1, <2>1
  <2>3. Min({a, Len(s)}) \in Nat /\ Min({a, Len(s)}) <= Len(s)
    BY <2>2, LeastOf
  <2>4. i \in b + 1 .. Min({a, Len(s)})
    OBVIOUS
  <2> HIDE DEF a, b
  <2>5. i \in 1 .. Len(s)
    BY <1>1, <2>1, <2>3, <2>4
  <2> QED
    BY <1>1, <2>5
<1>5. g \in [1 .. k -> SUBSET S]
  BY <1>4
<1> QED
  BY <1>2, <1>3, <1>5

\* The copies of a batch come with the places they are in.
CopyBatches(p) ==
    {b \in [kind : {"copies"}, records : Partial(DOMAIN p.copies, Printings),
            memberships : SUBSET p.placed] :
        \A m \in b.memberships : m[2] \in DOMAIN b.records}

\* The batches of a plan, each of its own records.
BatchesMade(p) ==
    [kind : {"tags"}, records : SUBSET p.tags]
    \cup CopyBatches(p)
    \cup [kind : {"associations"}, records : SUBSET p.associations]
    \cup [kind : {"sessions"}, records : SUBSET p.sessions]
    \cup [kind : {"entries"}, records : SUBSET p.pending]

LEMMA BatchOf ==
    ASSUME NEW S, IsFiniteSet(S), NEW kind, NEW B, [kind : {kind}, records : SUBSET S] \subseteq B
    PROVE  Batch(kind, Chunks(S)) \in Seq(B)
<1>1. Chunks(S) \in Seq(SUBSET S)
  BY ChunksOf
<1> DEFINE c == Chunks(S)
<1>2. Len(c) \in Nat /\ c \in [1 .. Len(c) -> SUBSET S] /\ DOMAIN c = 1 .. Len(c)
  BY <1>1
<1> HIDE DEF c
<1>3. \A n \in 1 .. Len(c) : [kind |-> kind, records |-> c[n]] \in B
  BY <1>2
<1>4. [n \in 1 .. Len(c) |-> [kind |-> kind, records |-> c[n]]] \in Seq(B)
  BY <1>2, <1>3
<1> QED
  BY <1>2, <1>4 DEF Batch, c

LEMMA BatchesMadeOf ==
    ASSUME NEW p \in Plans PROVE BatchesOf[p] \in Seq(BatchesMade(p))
<1> DEFINE B == BatchesMade(p)
           c == Chunks(DOMAIN p.copies)
           copies == [n \in DOMAIN c |->
                        [kind |-> "copies", records |-> [x \in c[n] |-> p.copies[x]],
                         memberships |-> {at \in p.placed : at[2] \in c[n]}]]
<1>1. /\ IsFiniteSet(p.tags) /\ IsFiniteSet(DOMAIN p.copies) /\ IsFiniteSet(p.associations)
      /\ IsFiniteSet(p.sessions) /\ IsFiniteSet(p.pending)
      /\ \A x \in DOMAIN p.copies : p.copies[x] \in Printings
  BY PlanAssumption
<1>2. /\ [kind : {"tags"}, records : SUBSET p.tags] \subseteq B
      /\ [kind : {"associations"}, records : SUBSET p.associations] \subseteq B
      /\ [kind : {"sessions"}, records : SUBSET p.sessions] \subseteq B
      /\ [kind : {"entries"}, records : SUBSET p.pending] \subseteq B
      /\ CopyBatches(p) \subseteq B
  BY DEF BatchesMade
<1> HIDE DEF B
<1>3. /\ Batch("tags", Chunks(p.tags)) \in Seq(B)
      /\ Batch("associations", Chunks(p.associations)) \in Seq(B)
      /\ Batch("sessions", Chunks(p.sessions)) \in Seq(B)
      /\ Batch("entries", Chunks(p.pending)) \in Seq(B)
  BY <1>1, <1>2, BatchOf
<1>4. copies \in Seq(B)
  <2>1. c \in Seq(SUBSET DOMAIN p.copies)
    BY <1>1, ChunksOf
  <2> HIDE DEF c
  <2>2. Len(c) \in Nat /\ c \in [1 .. Len(c) -> SUBSET DOMAIN p.copies] /\ DOMAIN c = 1 .. Len(c)
    BY <2>1
  <2>3. ASSUME NEW n \in 1 .. Len(c)
        PROVE  [kind |-> "copies", records |-> [x \in c[n] |-> p.copies[x]],
                memberships |-> {at \in p.placed : at[2] \in c[n]}] \in B
    <3>1. [x \in c[n] |-> p.copies[x]] \in Partial(DOMAIN p.copies, Printings)
      <4>1. c[n] \in SUBSET DOMAIN p.copies
        BY <2>2
      <4>2. [x \in c[n] |-> p.copies[x]] \in [c[n] -> Printings]
        BY <1>1, <4>1
      <4> QED
        BY <4>1, <4>2 DEF Partial
    <3>2. {at \in p.placed : at[2] \in c[n]} \in SUBSET p.placed
      OBVIOUS
    <3>3. \A m \in {at \in p.placed : at[2] \in c[n]} : m[2] \in DOMAIN [x \in c[n] |-> p.copies[x]]
      OBVIOUS
    <3> QED
      BY <1>2, <3>1, <3>2, <3>3 DEF CopyBatches
  <2> QED
    BY <2>2, <2>3
<1>5. MigrationBatches(p) = Batch("tags", Chunks(p.tags)) \o copies
                            \o Batch("associations", Chunks(p.associations))
                            \o Batch("sessions", Chunks(p.sessions))
                            \o Batch("entries", Chunks(p.pending))
  BY DEF MigrationBatches
<1> HIDE DEF copies
<1>6. MigrationBatches(p) \in Seq(B)
  BY <1>3, <1>4, <1>5
<1> QED
  BY <1>6 DEF BatchesOf, B

\* Further rows come under identities never issued, into tags that are free.
LEMMA AssociateKeeps ==
    ASSUME YieldInv, NEW rows \in Seq(Rows), Associate(rows), UNCHANGED <<held, work>>,
           tag' \in [Tags -> Nat], copy' \in [Copies -> CopyRows \cup {None}],
           \A k \in 1 .. Len(rows), v \in Workers :
              rows[k].tag \in Intended => TagRow(rows[k].tag) \notin held[v]
    PROVE  YieldInv'
<1>1. /\ association \in [Ids -> Rows \cup {None}] /\ issued \in 0 .. MaxIssued
      /\ Stored \subseteq 1 .. issued /\ MaxIssued \in Nat /\ Len(rows) \in Nat
  BY AccountAssumption DEF YieldInv, Shapes
<1>2. /\ issued \in Nat /\ issued' \in Nat /\ issued <= issued' /\ issued' \in 0 .. MaxIssued
      /\ issued' = issued + Len(rows)
  BY <1>1 DEF Associate
<1>3. ASSUME NEW i \in Ids
      PROVE  \/ association'[i] = association[i]
             \/ /\ i \in issued + 1 .. issued' /\ association'[i] \in Rows
                /\ association'[i].tag \in Intended =>
                      \A v \in Workers : TagRow(association'[i].tag) \notin held[v]
  <2>1. CASE i \in issued + 1 .. issued + Len(rows)
    <3>1. i - issued \in 1 .. Len(rows) /\ association'[i] = rows[i - issued]
      BY <1>1, <1>2, <2>1 DEF Associate
    <3> QED
      BY <1>2, <2>1, <3>1
  <2>2. CASE i \notin issued + 1 .. issued + Len(rows)
    BY <2>2 DEF Associate
  <2> QED
    BY <2>1, <2>2
<1>4. association' \in [Ids -> Rows \cup {None}]
  <2>1. association' = [i \in Ids |-> association'[i]]
    BY DEF Associate
  <2> QED
    BY <1>1, <1>3, <2>1
<1>5. Stored \subseteq Stored' /\ Stored' \subseteq 1 .. issued'
  <2>1. ASSUME NEW i \in Ids, association[i] # None PROVE association'[i] # None
    BY <1>1, <1>2, <1>3, <2>1 DEF Stored
  <2>2. ASSUME NEW i \in Ids, association'[i] # None PROVE i \in 1 .. issued'
    BY <1>1, <1>2, <1>3, <2>2 DEF Stored
  <2> QED
    BY <2>1, <2>2 DEF Stored
<1>6. ASSUME NEW v \in Workers PROVE WorkerInv(v)'
  <2>1. WorkerInv(v)
    BY DEF YieldInv
  <2>2. ASSUME NEW i \in Ids, association'[i] # association[i] PROVE
               /\ AssociationRow(i) \notin held[v]
               /\ Busy(v) => i \notin DOMAIN Changes(v)
               /\ association'[i] # None /\ association'[i].tag \in Intended =>
                     TagRow(association'[i].tag) \notin held[v]
               /\ ~(Busy(v) /\ Asked(v).op \in {"correctAssociation", "removeAssociation"}
                    /\ Asked(v).id = i)
    <3>1. i \in issued + 1 .. issued' /\ i \notin 1 .. issued /\ ~(i <= issued)
      BY <1>2, <1>3, <2>2
    <3>2. AssociationRow(i) \notin held[v]
      BY <1>1, <2>1, <3>1 DEF WorkerInv, RowsHeld
    <3>3. Busy(v) => i \notin DOMAIN Changes(v)
      BY <2>1, <3>1 DEF WorkerInv, ChangesHeld
    <3>4. ~(Busy(v) /\ Asked(v).op \in {"correctAssociation", "removeAssociation"}
            /\ Asked(v).id = i)
      BY <2>1, <3>1 DEF WorkerInv, NamedStays
    <3> QED
      BY <1>3, <2>2, <3>2, <3>3, <3>4
  <2>3. \A i \in Ids : Leaves(v, i)
    BY <2>2 DEF Leaves
  <2>4. /\ work'[v] = work[v] /\ held'[v] = held[v]
        /\ \A u \in Workers : Busy(u)' => Busy(u) /\ work'[u] = work[u]
    BY DEF Busy
  <2>5. \A i \in Stored : i \notin Stored' =>
           \A u \in Workers : Busy(u)' => i \notin (DOMAIN Changes(u))'
    BY <1>5
  <2> QED
    BY <1>2, <2>3, <2>4, <2>5, OthersKept
<1>7. Shapes'
  BY <1>2, <1>4, <1>5 DEF YieldInv, Shapes
<1>8. Exclusive' /\ ReferencesBounded'
  BY DEF YieldInv, Exclusive, ReferencesBounded, Busy, Changes
<1> QED
  BY <1>6, <1>7, <1>8 DEF YieldInv

\* The rows that come with a batch of copies.
RowsBrought(b) ==
    {Row(Owned, c, None, 1) : c \in DOMAIN b.records}
    \cup {Row(m[1], m[2], None, 1) : m \in b.memberships}

LEMMA CopiesBatch ==
    ASSUME NEW p \in Plans, NEW b \in BatchesMade(p), b.kind = "copies"
    PROVE  /\ DOMAIN b.records \subseteq Copies /\ DOMAIN b.records \subseteq DOMAIN p.copies
           /\ b.records \in [DOMAIN b.records -> Printings]
           /\ b.memberships \subseteq Locations \X DOMAIN b.records
           /\ IsFiniteSet(RowsBrought(b))
           /\ \A row \in RowsBrought(b) : row \in Rows /\ row.tag \notin Intended
<1>1. /\ p.placed \subseteq Locations \X Copies /\ DOMAIN p.copies \subseteq Copies
      /\ IsFiniteSet(DOMAIN p.copies) /\ IsFiniteSet(p.placed)
  BY PlanAssumption
<1>2. /\ b.records \in Partial(DOMAIN p.copies, Printings) /\ b.memberships \in SUBSET p.placed
      /\ \A m \in b.memberships : m[2] \in DOMAIN b.records
  BY DEF BatchesMade, CopyBatches
<1>3. PICK D \in SUBSET DOMAIN p.copies : b.records \in [D -> Printings]
  BY <1>2 DEF Partial
<1>4. DOMAIN b.records = D /\ D \in SUBSET Copies
  BY <1>1, <1>3
<1>5. \A m \in b.memberships : m \in Locations \X D
  BY <1>1, <1>2, <1>4
<1> DEFINE owned == {Row(Owned, c, None, 1) : c \in D}
           placed == {Row(m[1], m[2], None, 1) : m \in b.memberships}
<1>6. IsFiniteSet(owned)
  <2>1. IsFiniteSet(D)
    BY <1>1, FS_Subset
  <2> DEFINE f == [c \in D |-> Row(Owned, c, None, 1)]
  <2>2. f \in [D -> owned] /\ \A row \in owned : \E c \in D : f[c] = row
    OBVIOUS
  <2> HIDE DEF f, owned
  <2> QED
    BY <2>1, <2>2, FS_Surjection DEF Surjection
<1>7. IsFiniteSet(placed)
  <2>1. IsFiniteSet(b.memberships)
    BY <1>1, <1>2, FS_Subset
  <2> DEFINE f == [m \in b.memberships |-> Row(m[1], m[2], None, 1)]
  <2>2. f \in [b.memberships -> placed] /\ \A row \in placed : \E m \in b.memberships : f[m] = row
    OBVIOUS
  <2> HIDE DEF f, placed
  <2> QED
    BY <2>1, <2>2, FS_Surjection DEF Surjection
<1>8. \A row \in owned \cup placed : row \in Rows /\ row.tag \notin Intended
  <2>1. ASSUME NEW c \in D PROVE LET row == Row(Owned, c, None, 1)
                                 IN  row \in Rows /\ row.tag \notin Intended
    BY <1>4, TagAssumption DEF Row, Rows
  <2>2. ASSUME NEW m \in b.memberships PROVE LET row == Row(m[1], m[2], None, 1)
                                             IN  row \in Rows /\ row.tag \notin Intended
    <3>1. m[1] \in Locations /\ m[2] \in Copies
      BY <1>4, <1>5
    <3> QED
      BY <3>1, TagAssumption DEF Row, Rows
  <2> QED
    BY <2>1, <2>2
<1>9. RowsBrought(b) = owned \cup placed
  BY <1>4 DEF RowsBrought
<1> HIDE DEF owned, placed
<1>10. IsFiniteSet(RowsBrought(b))
  BY <1>6, <1>7, <1>9, FS_Union
<1> QED
  BY <1>3, <1>4, <1>5, <1>8, <1>9, <1>10

LEMMA CopiesCome ==
    ASSUME YieldInv, NEW p \in Plans, NEW b \in BatchesMade(p), b.kind = "copies",
           copy' = Over([c \in DOMAIN b.records |-> [printing |-> b.records[c], revision |-> 1]], copy)
    PROVE  /\ copy' \in [Copies -> CopyRows \cup {None}]
           /\ \A c \in Copies : (c \in DOMAIN b.records => copy'[c] # None)
                             /\ (c \notin DOMAIN b.records => copy'[c] = copy[c])
<1> DEFINE D == DOMAIN b.records
           Z == CopyRows \cup {None}
           f == [c \in D |-> [printing |-> b.records[c], revision |-> 1]]
<1>1. D \in SUBSET Copies /\ b.records \in [D -> Printings]
  BY CopiesBatch
<1>2. f \in [D -> CopyRows] /\ DOMAIN f = D
  BY <1>1 DEF CopyRows
<1>3. f \in Partial(Copies, CopyRows)
  BY <1>1, <1>2 DEF Partial
<1>4. CopyRows \subseteq Z /\ copy \in Total(Copies, Z) /\ copy' = Over(f, copy)
  BY DEF YieldInv, Shapes, Total
<1>5. None \notin CopyRows
  BY TagAssumption
<1> HIDE DEF D, Z, f
<1> PICK g, k, m : g = f /\ k = copy /\ m = copy'
  OBVIOUS
<1>6. /\ copy' \in Total(Copies, Z)
      /\ \A c \in Copies : copy'[c] = IF c \in DOMAIN f THEN f[c] ELSE copy[c]
  <2>1. g \in Partial(Copies, CopyRows) /\ CopyRows \subseteq Z /\ k \in Total(Copies, Z) /\ m = Over(g, k)
    BY <1>3, <1>4
  <2>2. m \in Total(Copies, Z) /\ \A c \in Copies : m[c] = IF c \in DOMAIN g THEN g[c] ELSE k[c]
    BY ONLY <2>1, OverRows
  <2> QED
    BY <2>2
<1>7. \A c \in Copies : (c \in D => copy'[c] # None) /\ (c \notin D => copy'[c] = copy[c])
  BY <1>2, <1>5, <1>6
<1> QED
  BY <1>6, <1>7 DEF D, Z, Total

LEMMA BatchKeeps ==
    ASSUME YieldInv, NEW p \in Plans, NEW b \in BatchesMade(p), Insertable(b), WriteBatch(b),
           UNCHANGED <<held, work>>
    PROVE  YieldInv'
<1>1. /\ tag \in [Tags -> Nat] /\ copy \in [Copies -> CopyRows \cup {None}]
      /\ p.tags \subseteq Tags /\ p.placed \subseteq Locations \X Copies
      /\ DOMAIN p.copies \subseteq Copies /\ p.associations \subseteq Rows
      /\ IsFiniteSet(p.associations) /\ IsFiniteSet(DOMAIN p.copies) /\ IsFiniteSet(p.placed)
  BY PlanAssumption DEF YieldInv, Shapes
<1>2. CASE /\ b.kind = "tags" /\ tag' = Over([t \in b.records |-> 1], tag)
           /\ UNCHANGED <<association, copy, issued, imported>>
  <2>1. b.records \in SUBSET Tags
    BY <1>1, <1>2 DEF BatchesMade, CopyBatches
  <2>2. [t \in b.records |-> 1] \in Partial(Tags, Nat)
    <3>1. [t \in b.records |-> 1] \in [b.records -> Nat]
      OBVIOUS
    <3> QED
      BY <2>1, <3>1 DEF Partial
  <2>3. tag \in Total(Tags, Nat) /\ Nat \subseteq Nat
    BY <1>1 DEF Total
  <2>4. tag' \in Total(Tags, Nat)
    <3> DEFINE f == [t \in b.records |-> 1]
    <3>1. f \in Partial(Tags, Nat) /\ tag' = Over(f, tag)
      BY <1>2, <2>2
    <3> HIDE DEF f
    <3> QED
      BY <2>3, <3>1, OverRows
  <2>5. tag' \in [Tags -> Nat]
    BY <2>4 DEF Total
  <2> QED
    BY <1>1, <1>2, <2>5, RecordsKept
<1>3. CASE /\ b.kind = "copies"
           /\ tag' = [tag EXCEPT ![Owned] = IF tag[Owned] = 0 THEN 1 ELSE tag[Owned]]
           /\ copy' = Over([c \in DOMAIN b.records |-> [printing |-> b.records[c], revision |-> 1]], copy)
           /\ Associate(SetToSeq(RowsBrought(b)))
  <2> PICK S : S = RowsBrought(b)
    OBVIOUS
  <2> DEFINE rows == SetToSeq(S)
  <2>1. IsFiniteSet(S) /\ \A row \in S : row \in Rows /\ row.tag \notin Intended
    BY <1>3, CopiesBatch
  <2>2. rows \in Seq(S)
    BY <2>1, SetAsSequence
  <2> HIDE DEF rows
  <2>3. rows \in Seq(Rows) /\ \A k \in 1 .. Len(rows) : rows[k].tag \notin Intended
    <3>1. rows \in [1 .. Len(rows) -> S] /\ Len(rows) \in Nat
      BY <2>2
    <3>2. rows \in [1 .. Len(rows) -> Rows]
      BY <2>1, <3>1
    <3> QED
      BY <2>1, <3>1, <3>2
  <2>4. tag' \in [Tags -> Nat]
    BY <1>1, <1>3 DEF Tags
  <2>5. copy' \in [Copies -> CopyRows \cup {None}]
    BY <1>3, CopiesCome
  <2>6. Associate(rows)
    BY <1>3 DEF rows
  <2> QED
    BY <2>3, <2>4, <2>5, <2>6, AssociateKeeps
<1>4. CASE /\ b.kind = "associations" /\ Associate(SetToSeq(b.records))
           /\ UNCHANGED <<tag, copy, imported>>
  <2> DEFINE rows == SetToSeq(b.records)
  <2>1. b.records \in SUBSET p.associations
    BY <1>4 DEF BatchesMade, CopyBatches
  <2>2. rows \in Seq(b.records)
    BY <1>1, <2>1, FS_Subset, SetAsSequence
  <2>3. \A row \in b.records, v \in Workers : TagRow(row.tag) \notin held[v]
    <3>1. \A row \in b.records : TagRow(row.tag) \in RowsOf(b)
      BY <1>4 DEF RowsOf
    <3> QED
      BY <3>1 DEF Insertable
  <2> HIDE DEF rows
  <2>4. rows \in Seq(Rows) /\ \A k \in 1 .. Len(rows) : rows[k] \in b.records
    <3>1. rows \in [1 .. Len(rows) -> b.records] /\ Len(rows) \in Nat
      BY <2>2
    <3>2. rows \in [1 .. Len(rows) -> Rows]
      BY <1>1, <2>1, <3>1
    <3> QED
      BY <3>1, <3>2
  <2>5. Associate(rows)
    BY <1>4 DEF rows
  <2>6. tag' \in [Tags -> Nat] /\ copy' \in [Copies -> CopyRows \cup {None}]
    BY <1>1, <1>4
  <2> QED
    BY <2>3, <2>4, <2>5, <2>6, AssociateKeeps
<1>5. CASE /\ b.kind \in {"sessions", "entries"}
           /\ UNCHANGED <<tag, association, copy, issued, revision>>
  BY <1>5, Kept
<1> QED
  BY <1>2, <1>3, <1>4, <1>5 DEF WriteBatch, RowsBrought

--------
(* The loaders: what they load are plans.                                  *)

LEMMA LoadersStep ==
    ASSUME LoadersInv, NEW l \in Loaders, Loading(l) PROVE LoadersInv'
<1>1. ASSUME NEW next \in Nat \ {0}, NEW at \in {"start", "apply"}, NEW known,
             loader[l].plan \in Plans, Proceeds(l, at, known, next)
      PROVE  LoadersInv'
  BY <1>1 DEF LoadersInv, Proceeds
<1>2. ASSUME NEW outcome, Ended(l, outcome) PROVE LoadersInv'
  BY <1>2 DEF LoadersInv, Ended
<1>3. ASSUME NEW p \in Plans, Load(l, p) PROVE LoadersInv'
  BY <1>3 DEF LoadersInv, Load
<1>4. loader[l].at \in {"recorded", "start", "apply"} => loader[l].plan \in Plans
  BY DEF LoadersInv
<1>5. loader[l].at = "apply" => loader[l].next + 1 \in Nat \ {0}
  BY DEF LoadersInv
<1>6. CASE ReadRecorded(l)
  BY <1>1, <1>2, <1>4, <1>6 DEF ReadRecorded
<1>7. CASE Start(l)
  BY <1>1, <1>2, <1>4, <1>7 DEF Start
<1>8. CASE Skip(l)
  BY <1>1, <1>4, <1>5, <1>8 DEF Skip, Following
<1>9. CASE ApplyBatch(l)
  BY <1>1, <1>2, <1>4, <1>5, <1>9 DEF ApplyBatch, Following
<1>10. CASE Complete(l)
  BY <1>2, <1>10 DEF Complete
<1>11. CASE Interrupt(l)
  BY <1>2, <1>11 DEF Interrupt
<1> QED
  BY <1>3, <1>6, <1>7, <1>8, <1>9, <1>10, <1>11 DEF Loading

LEMMA LoadingKeeps ==
    ASSUME YieldInv, LoadersInv, NEW l \in Loaders, Loading(l) PROVE YieldInv'
<1>1. CASE UNCHANGED vars
  BY <1>1, Kept DEF vars
<1>2. CASE ApplyBatch(l) /\ ~UNCHANGED vars
  <2> DEFINE n == loader[l].next
             p == loader[l].plan
             b == Batches(l)[n]
  <2>1. /\ loader[l].at = "apply" /\ n <= Len(Batches(l)) /\ Insertable(b) /\ WriteBatch(b)
        /\ UNCHANGED <<held, work>>
    BY <1>2 DEF ApplyBatch
  <2>2. p \in Plans /\ n \in Nat \ {0}
    BY <2>1 DEF LoadersInv
  <2>3. Batches(l) \in Seq(BatchesMade(p))
    BY <2>2, BatchesMadeOf DEF Batches
  <2>4. b \in BatchesMade(p)
    BY <2>1, <2>2, <2>3
  <2> HIDE DEF n, p, b
  <2> QED
    BY <2>1, <2>2, <2>4, BatchKeeps
<1> QED
  BY <1>1, <1>2
     DEF Loading, Load, ReadRecorded, Start, Skip, ApplyBatch, Complete, Interrupt

--------
(* The invariant is inductive.                                             *)

LEMMA StepKeeps ==
    ASSUME YieldInv, NEW w \in Workers, Step(w) PROVE YieldInv'
<1>1. CASE LockTag(w)
  BY <1>1, LockTagKeeps
<1>2. CASE StoreReference(w)
  BY <1>2, StoreReferenceKeeps
<1>3. CASE ReferencesStored(w)
  BY <1>3, ReferencesStoredKeeps
<1>4. CASE InsertAssociation(w)
  BY <1>4, InsertAssociationKeeps
<1>5. CASE CorrectAssociation(w)
  BY <1>5, CorrectAssociationKeeps
<1>6. CASE ClaimKey(w)
  BY <1>6, ClaimKeyKeeps
<1>7. CASE RemoveAssociation(w)
  BY <1>7, RemoveAssociationKeeps
<1>8. CASE Explain(w)
  BY <1>8, ExplainKeeps
<1>9. CASE ReadRequired(w)
  BY <1>9, ReadRequiredKeeps
<1>10. CASE AddRequired(w)
  BY <1>10, AddRequiredKeeps
<1>11. CASE UpdateCopy(w)
  BY <1>11, UpdateCopyKeeps
<1>12. CASE MoveLocation(w)
  BY <1>12, MoveLocationKeeps
<1>13. CASE InsertCopies(w)
  BY <1>13, InsertCopiesKeeps
<1>14. CASE WriteTag(w)
  BY <1>14, WriteTagKeeps
<1>15. CASE Commit(w)
  BY <1>15, CommitKeeps
<1> QED
  BY <1>1, <1>2, <1>3, <1>4, <1>5, <1>6, <1>7, <1>8, <1>9, <1>10, <1>11, <1>12, <1>13,
       <1>14, <1>15 DEF Step

LEMMA NextKeeps ==
    ASSUME YieldInv, Next PROVE YieldInv'
<1>1. CASE \E w \in Workers, r \in Requests : Open(w, r)
  BY <1>1, OpenKeeps
<1>2. CASE \E w \in Workers : Step(w)
  BY <1>2, StepKeeps
<1>3. CASE \E w \in Workers : RollBack(w)
  BY <1>3, RollBackKeeps
<1>4. CASE \E r \in Readers, t \in Intended : ListAssociations(r, t)
  BY <1>4, ListAssociationsKeeps
<1> QED
  BY <1>1, <1>2, <1>3, <1>4 DEF Next

LEMMA YieldInit ==
    ASSUME LoadInit PROVE YieldInv /\ LoadersInv
<1>1. PICK account \in Accounts : Holds(account)
  BY DEF LoadInit, Init
<1>2. /\ account.tag \in [Tags -> Nat] /\ account.copy \in [Copies -> CopyRows \cup {None}]
      /\ account.association \in Seq(Rows) /\ Len(account.association) <= MaxIssued
      /\ MaxIssued \in Nat
  BY AccountsAssumption, AccountAssumption
<1>3. /\ issued \in 0 .. MaxIssued /\ association \in [Ids -> Rows \cup {None}]
      /\ \A i \in Ids : association[i] # None => i \in 1 .. issued
  <2> DEFINE s == account.association
  <2>1. /\ Len(s) \in Nat /\ s \in [1 .. Len(s) -> Rows] /\ DOMAIN s = 1 .. Len(s)
    BY <1>2
  <2>2. issued = Len(s) /\ association = [i \in Ids |-> IF i \in DOMAIN s THEN s[i] ELSE None]
    BY <1>1 DEF Holds
  <2>3. issued \in 0 .. MaxIssued
    BY <1>2, <2>1, <2>2
  <2> HIDE DEF s
  <2>4. ASSUME NEW i \in Ids
        PROVE  association[i] \in Rows \cup {None} /\ (association[i] # None => i \in 1 .. issued)
    <3>1. association[i] = IF i \in 1 .. Len(s) THEN s[i] ELSE None
      BY <2>1, <2>2
    <3>2. i \in 1 .. Len(s) => s[i] \in Rows
      BY <2>1
    <3> QED
      BY <2>2, <3>1, <3>2
  <2>5. association \in [Ids -> Rows \cup {None}]
    BY <2>2, <2>4
  <2> QED
    BY <2>3, <2>4, <2>5
<1>4. /\ held = [w \in Workers |-> {}] /\ work = [w \in Workers |-> Idle]
      /\ tag \in [Tags -> Nat] /\ copy \in [Copies -> CopyRows \cup {None}]
  BY <1>1, <1>2 DEF LoadInit, Init, Holds
<1>5. \A w \in Workers : held[w] = {} /\ work[w] = Idle /\ work[w].at = "idle"
  BY <1>4 DEF Idle
<1>6. Shapes
  BY <1>3, <1>4, <1>5 DEF Shapes, Stored
<1>7. Exclusive /\ ReferencesBounded
  BY <1>5 DEF Exclusive, ReferencesBounded, Busy
<1>8. \A w \in Workers : WorkerInv(w)
  BY <1>5 DEF WorkerInv, Follows, Beginning, DomainHeld, Locked, ReferencesInOrder, RowsHeld,
              NamedStays, ChangesHeld, ReadStill, Busy
<1>9. LoadersInv
  BY DEF LoadInit, LoadersInv, Resting
<1> QED
  BY <1>6, <1>7, <1>8, <1>9 DEF YieldInv

\* A transaction holds what it wrote and locked, in the order of its
\* statements, and what a statement read stands when the next one writes
\* (organization.ts, copies.ts, references.ts, postgres.ts).
THEOREM YieldInductive == LoadSpec => [](YieldInv /\ LoadersInv)
<1>1. LoadInit => YieldInv /\ LoadersInv
  BY YieldInit
<1>2. YieldInv /\ LoadersInv /\ [LoadNext]_loadVars => (YieldInv /\ LoadersInv)'
  <2> SUFFICES ASSUME YieldInv, LoadersInv, [LoadNext]_loadVars PROVE (YieldInv /\ LoadersInv)'
    OBVIOUS
  <2>1. CASE Next /\ UNCHANGED loading
    BY <2>1, NextKeeps DEF loading, LoadersInv
  <2>2. CASE \E l \in Loaders : Loading(l)
    BY <2>2, LoadingKeeps, LoadersStep
  <2>3. CASE UNCHANGED loadVars
    BY <2>3, Kept DEF loadVars, vars, loading, LoadersInv
  <2> QED
    BY <2>1, <2>2, <2>3 DEF LoadNext
<1> QED
  BY <1>1, <1>2, PTL DEF LoadSpec

--------
(* Nobody waits in a circle.                                               *)

\* A transaction that holds something and waits for one that waits itself,
\* waits for a reference.
LEMMA WaitingRefers ==
    ASSUME YieldInv, NEW w \in Workers, NEW x \in Workers, WaitsFor(w, x), held[w] # {},
           Needs(x) # {}
    PROVE  /\ work[w].at = "refer" /\ work[w].refer # {}
           /\ ReferenceRow(NextReference(w)) \in held[x]
<1> DEFINE r == Asked(w)
<1>1. /\ w # x /\ Busy(w) /\ held[w] \cap held[x] = {} /\ WorkerInv(w) /\ WorkerInv(x)
      /\ r \in Requests /\ work[w] \in Transactions
  BY BusyFacts DEF WaitsFor, YieldInv, Exclusive
<1>2. ~Beginning(w) /\ Locked(w)
  BY <1>1 DEF WorkerInv, Beginning, Locked
<1>3. work[x].at # "commit"
  BY DEF Needs
<1>4. \A i \in Ids : AssociationRow(i) \in held[x] =>
          i \in Stored /\ association[i].tag \in Intended /\ TagRow(association[i].tag) \in held[x]
  BY <1>1, <1>3 DEF WorkerInv, RowsHeld
<1>5. \A t \in Tags, y \in Targets : Key(t, y) \in held[x] => TagRow(t) \notin held[w]
  BY <1>1 DEF WorkerInv, RowsHeld
<1>6. \A t \in Intended : t \in Tags
  BY DEF Tags
<1>7. PICK row \in Needs(w) : row \in held[x]
  BY DEF WaitsFor
<1>8. CASE work[w].at = "refer"
  BY <1>7, <1>8 DEF Needs
<1>9. CASE work[w].at = "key"
  <2>1. r.op = "correctAssociation" /\ r.target \in Targets
    BY <1>1, <1>9, RequestAssumption DEF WorkerInv, Follows
  <2>2. r.id \in Ids
    BY <1>1, <2>1, AccountAssumption DEF WorkerInv, NamedStays, YieldInv, Shapes, Ids
  <2>3. r.id \in Stored /\ association[r.id].tag \in Intended
        /\ TagRow(association[r.id].tag) \in held[w]
    BY <1>1, <1>9, <2>2 DEF WorkerInv, ReadStill, RowsHeld
  <2>4. row = Key(association[r.id].tag, r.target)
    BY <1>7, <1>9 DEF Needs
  <2> QED
    BY <1>5, <1>6, <1>7, <2>1, <2>3, <2>4
<1>10. CASE work[w].at = "add"
  <2>1. r.op = "confirm" /\ work[w].targets # {}
    BY <1>1, <1>10 DEF WorkerInv, Follows
  <2>2. r.tag \in Intended /\ TagRow(r.tag) \in held[w]
    BY <1>1, <1>2, <2>1, RequestAssumption DEF WorkerInv, DomainHeld
  <2>3. NextTarget(w) \in Targets
    <3>1. work[w].targets \in SUBSET Targets
      BY <1>1, BusyFacts
    <3>2. work[w].targets \in SUBSET Nat
      BY <3>1, AccountAssumption
    <3> QED
      BY <2>1, <3>1, <3>2, LeastOf DEF NextTarget
  <2>4. \/ row = Key(r.tag, NextTarget(w))
        \/ \E i \in Naming(r.tag, NextTarget(w)) : row = AssociationRow(i)
    BY <1>7, <1>10 DEF Needs
  <2>5. \A i \in Naming(r.tag, NextTarget(w)) : i \in Ids /\ association[i].tag = r.tag
    BY DEF Naming, Stored
  <2> QED
    BY <1>1, <1>4, <1>5, <1>6, <1>7, <2>2, <2>3, <2>4, <2>5
<1>11. CASE work[w].at = "write"
  <2>1. r.op \notin {"createTag", "correctTag", "removeAssociation", "confirm", "correctCopy"}
    BY <1>1, <1>2, <1>11 DEF WorkerInv, Follows, Beginning
  <2>2. CASE r.op = "insertAssociation"
    <3>1. r.tag \in Intended /\ TagRow(r.tag) \in held[w] /\ r.target \in Targets
      BY <1>1, <1>2, <2>2, RequestAssumption DEF WorkerInv, DomainHeld
    <3>2. row = Key(r.tag, r.target)
      BY <1>7, <1>11, <2>2 DEF Needs
    <3> QED
      BY <1>5, <1>6, <1>7, <3>1, <3>2
  <2>3. CASE r.op = "correctAssociation"
    <3>1. row = AssociationRow(r.id)
      BY <1>7, <1>11, <2>3 DEF Needs
    <3>2. r.id \in Ids
      BY <1>1, <2>3, AccountAssumption DEF WorkerInv, NamedStays, YieldInv, Shapes, Ids
    <3>3. r.id \in Stored /\ TagRow(association[r.id].tag) \in held[x]
      BY <1>4, <1>7, <3>1, <3>2
    <3>4. TagRow(association[r.id].tag) \in held[w]
      BY <1>1, <1>2, <2>3, <3>3 DEF WorkerInv, DomainHeld
    <3> QED
      BY <1>1, <3>3, <3>4
  <2>4. CASE r.op = "moveCopyLocation"
    <3>1. PICK i \in Placing(r.copy) : row = AssociationRow(i)
      BY <1>7, <1>11, <2>4 DEF Needs
    <3>2. i \in Ids /\ association[i].tag \in Locations
      BY DEF Placing, Stored
    <3> QED
      BY <1>4, <1>7, <3>1, <3>2, TagAssumption
  <2>5. CASE r.op = "insertCopies"
    BY <1>7, <1>11, <2>5 DEF Needs
  <2> QED
    BY <1>1, <2>1, <2>2, <2>3, <2>4, <2>5, RequestAssumption
<1>12. work[w].at \in {"refer", "key", "add", "write"}
  BY <1>2, <1>7 DEF Needs, Beginning
<1> QED
  BY <1>8, <1>9, <1>10, <1>11, <1>12

\* References are waited for in their order.
LEMMA ReferencesOrder ==
    ASSUME YieldInv, NEW w \in Workers, NEW x \in Workers,
           work[w].at = "refer", work[w].refer # {},
           work[x].at = "refer", work[x].refer # {},
           ReferenceRow(NextReference(w)) \in held[x]
    PROVE  NextReference(w) \in Nat /\ NextReference(x) \in Nat /\ NextReference(w) < NextReference(x)
<1>1. Busy(w) /\ Busy(x)
  BY DEF Busy
<1>2. /\ work[w].refer \in SUBSET Nat /\ work[x].refer \in SUBSET Nat /\ WorkerInv(x)
  BY <1>1, BusyFacts
<1>3. /\ NextReference(w) \in work[w].refer /\ NextReference(x) \in work[x].refer
  BY <1>2, LeastOf DEF NextReference
<1> QED
  BY <1>2, <1>3 DEF WorkerInv, ReferencesInOrder

LEMMA NoCircle ==
    ASSUME YieldInv, NEW S \in SUBSET Workers, S # {},
           \A v \in S : \E w \in S : WaitsFor(v, w)
    PROVE  FALSE
<1> DEFINE T == {w \in S : held[w] # {}}
<1>1. \A v \in S : \E w \in T : WaitsFor(v, w)
  BY DEF WaitsFor
<1>2. T \in SUBSET Workers /\ T # {} /\ \A w \in T : w \in S /\ held[w] # {} /\ Needs(w) # {}
  BY <1>1 DEF WaitsFor
<1>3. \A v \in T : \E w \in T : WaitsFor(v, w)
  BY <1>1
<1> HIDE DEF T
<1>4. \A w \in T : work[w].at = "refer" /\ work[w].refer # {}
  BY <1>2, <1>3, WaitingRefers
<1>5. \A w \in T : \E x \in T : /\ NextReference(w) \in Nat /\ NextReference(x) \in Nat
                                /\ NextReference(w) < NextReference(x)
  <2>1. ASSUME NEW w \in T, NEW x \in T, WaitsFor(w, x)
        PROVE  /\ NextReference(w) \in Nat /\ NextReference(x) \in Nat
               /\ NextReference(w) < NextReference(x)
    <3>1. ReferenceRow(NextReference(w)) \in held[x]
      BY <1>2, <2>1, WaitingRefers
    <3> QED
      BY <1>2, <1>4, <3>1, ReferencesOrder
  <2> QED
    BY <1>3, <2>1
<1>6. PICK n \in Nat : \A w \in Workers : Busy(w) => work[w].refer \subseteq 0 .. n
  BY DEF YieldInv, ReferencesBounded
<1>7. \A w \in T : NextReference(w) \in 0 .. n
  <2>1. ASSUME NEW w \in T PROVE NextReference(w) \in 0 .. n
    <3>1. Busy(w)
      BY <1>4 DEF Busy
    <3>2. work[w].refer \in SUBSET Nat /\ work[w].refer # {}
      BY <1>2, <1>4, <3>1, BusyFacts
    <3>3. NextReference(w) \in work[w].refer
      BY <3>2, LeastOf DEF NextReference
    <3> QED
      BY <1>2, <1>6, <3>1, <3>3
  <2> QED
    BY <2>1
<1> DEFINE left == {n - NextReference(w) : w \in T}
<1>8. left \in SUBSET Nat /\ left # {}
  BY <1>2, <1>7
<1>9. PICK w \in T : \A y \in left : n - NextReference(w) <= y
  <2>1. \A y \in left : \E w \in T : y = n - NextReference(w)
    OBVIOUS
  <2> HIDE DEF left
  <2>2. Min(left) \in left /\ \A y \in left : Min(left) <= y
    BY <1>8, LeastOf
  <2> QED
    BY <2>1, <2>2
<1>10. PICK x \in T : NextReference(w) < NextReference(x)
  BY <1>5
<1>11. n - NextReference(x) \in left
  OBVIOUS
<1> QED
  BY <1>7, <1>9, <1>10, <1>11

\* Whatever requests are served at once, by however many transactions, none
\* of them wait for one another in a circle, and none fails the index of
\* association targets.
THEOREM Yields == LoadSpec => []WritersYield
<1>1. YieldInv => WritersYield
  <2> SUFFICES ASSUME YieldInv PROVE WritersYield
    OBVIOUS
  <2>1. \A S \in (SUBSET Workers) \ {{}} : \E v \in S : \A w \in S : ~WaitsFor(v, w)
    BY NoCircle
  <2>2. \A w \in Workers : work[w].at = "ended" => work[w].outcome # "violation"
    BY DEF YieldInv, WorkerInv, ReadStill
  <2> QED
    BY <2>1, <2>2 DEF WritersYield
<1> QED
  BY <1>1, YieldInductive, PTL

--------
(* Pages of a tag's list.                                                  *)

Sorted(s) == \A i, j \in DOMAIN s : i < j => s[i] < s[j]

\* Every finite set of numbers has a list in their order.
LEMMA SortedExists ==
    ASSUME NEW T \in SUBSET Nat, IsFiniteSet(T)
    PROVE  \E s \in [1 .. Cardinality(T) -> T] : Sorted(s)
<1> DEFINE Has(S) == \E s \in [1 .. Cardinality(S) -> S] : Sorted(s)
           Bad == {n \in Nat : \E S \in SUBSET T : Cardinality(S) = n /\ ~Has(S)}
<1>1. ASSUME NEW S \in SUBSET T PROVE IsFiniteSet(S) /\ Cardinality(S) \in Nat
  BY FS_Subset, FS_CardinalityType
<1>2. SUFFICES ASSUME ~Has(T) PROVE FALSE
  OBVIOUS
<1>3. Bad \in SUBSET Nat /\ Bad # {}
  <2>1. Cardinality(T) \in Bad
    BY <1>1, <1>2
  <2> QED
    BY <2>1
<1> DEFINE n == Min(Bad)
<1>4. n \in Bad /\ \A m \in Bad : n <= m
  <2> HIDE DEF Bad
  <2> QED
    BY <1>3, LeastOf
<1> HIDE DEF n, Has
<1>5. PICK S \in SUBSET T : Cardinality(S) = n /\ ~Has(S)
  BY <1>4
<1>6. \A R \in SUBSET T : Cardinality(R) \in Nat /\ Cardinality(R) < n => Has(R)
  BY <1>3, <1>4
<1> HIDE DEF Bad
<1>7. n \in Nat
  BY <1>3, <1>4
<1>8. CASE n = 0
  <2> DEFINE s == [i \in 1 .. 0 |-> i]
  <2>1. s \in [1 .. Cardinality(S) -> S] /\ DOMAIN s = 1 .. 0
    BY <1>5, <1>8
  <2>2. Sorted(s)
    BY <2>1 DEF Sorted
  <2> QED
    BY <1>5, <2>1, <2>2 DEF Has
<1>9. CASE n # 0
  <2>1. S # {} /\ IsFiniteSet(S)
    BY <1>1, <1>5, <1>9, FS_EmptySet
  <2>2. PICK x \in S : \A y \in S : y <= x
    <3>1. PICK k \in Nat : \A y \in S : y <= k
      BY <2>1, FiniteBounded
    <3> DEFINE Above == {k - y : y \in S}
    <3>2. Above \in SUBSET Nat /\ Above # {} /\ \A z \in Above : \E y \in S : z = k - y
      BY <2>1, <3>1
    <3>3. \A y \in S : k - y \in Above /\ y \in Nat
      OBVIOUS
    <3> HIDE DEF Above
    <3>4. Min(Above) \in Above /\ \A z \in Above : Min(Above) <= z
      BY <3>2, LeastOf
    <3>5. PICK x \in S : Min(Above) = k - x
      BY <3>2, <3>4
    <3> QED
      BY <3>1, <3>3, <3>4, <3>5
  <2> DEFINE R == S \ {x}
             m == n - 1
  <2>3. R \in SUBSET T /\ Cardinality(R) = m /\ m \in Nat /\ m < n /\ m + 1 = n
    <3>1. Cardinality(S \ {x}) = Cardinality(S) - 1
      BY <2>1, FS_RemoveElement
    <3>2. Cardinality(R) = m
      BY <1>5, <3>1
    <3>3. m \in Nat /\ m < n /\ m + 1 = n
      BY <1>7, <1>9
    <3> QED
      BY <3>2, <3>3
  <2>4. \A y \in R : y \in S /\ y \in Nat /\ x \in Nat /\ y < x
    BY <2>2
  <2> HIDE DEF R, m
  <2>5. PICK s \in [1 .. m -> R] : Sorted(s)
    BY <1>6, <2>3 DEF Has
  <2> DEFINE f == [i \in 1 .. n |-> IF i = n THEN x ELSE s[i]]
  <2>6. \A i \in 1 .. n : i # n => i \in 1 .. m
    BY <2>3
  <2>7. f \in [1 .. n -> S] /\ DOMAIN f = 1 .. n
    BY <2>4, <2>6
  <2>8. Sorted(f)
    <3>1. ASSUME NEW i \in 1 .. n, NEW j \in 1 .. n, i < j PROVE f[i] < f[j]
      <4>1. i \in 1 .. m /\ f[i] = s[i] /\ s[i] \in R
        BY <2>3, <2>6, <3>1
      <4>2. CASE j = n
        BY <2>4, <4>1, <4>2
      <4>3. CASE j # n
        BY <2>5, <2>6, <3>1, <4>1, <4>3 DEF Sorted
      <4> QED
        BY <4>2, <4>3
    <3> QED
      BY <2>7, <3>1 DEF Sorted
  <2> QED
    BY <1>5, <2>7, <2>8 DEF Has
<1> QED
  BY <1>8, <1>9

\* A tag's list is a sequence of its associations.
LEMMA ListingFacts ==
    ASSUME NEW t
    PROVE  Listing(t) \in Seq(Ids)
<1>1. IsFiniteSet(ListedOf(t)) /\ ListedOf(t) \in SUBSET Nat /\ ListedOf(t) \subseteq Ids
  <2>1. ListedOf(t) \subseteq Ids
    BY DEF ListedOf, Stored
  <2>2. IsFiniteSet(Ids) /\ Ids \subseteq Nat
    BY FS_Interval, AccountAssumption DEF Ids
  <2> QED
    BY <2>1, <2>2, FS_Subset
<1> DEFINE C == Cardinality(ListedOf(t))
<1>2. C \in Nat
  BY <1>1, FS_CardinalityType
<1>3. \E s \in [1 .. C -> ListedOf(t)] : \A i, j \in DOMAIN s : i < j => s[i] < s[j]
  BY <1>1, SortedExists DEF Sorted
<1>4. Listing(t) \in [1 .. C -> ListedOf(t)]
  BY <1>3 DEF Listing
<1> HIDE DEF C
<1> QED
  BY <1>1, <1>2, <1>4

LEMMA ListingKept ==
    ASSUME NEW t, UNCHANGED association
    PROVE  Listing(t)' = Listing(t)
<1>1. ListedOf(t)' = ListedOf(t)
  BY DEF ListedOf, Stored
<1> QED
  BY <1>1 DEF Listing

\* Whatever changes an association publishes a revision.
LEMMA ChangesRevise ==
    ASSUME [LoadNext]_loadVars
    PROVE  \/ UNCHANGED <<association, revision, reader>>
           \/ revision' = revision + 1 /\ UNCHANGED reader
           \/ /\ UNCHANGED <<association, revision>>
              /\ \E r \in Readers, t \in Intended : ListAssociations(r, t)
<1>1. ASSUME NEW w \in Workers, Step(w)
      PROVE  \/ UNCHANGED <<association, revision, reader>>
             \/ revision' = revision + 1 /\ UNCHANGED reader
  BY <1>1 DEF Step, LockTag, StoreReference, ReferencesStored, InsertAssociation,
     CorrectAssociation, ClaimKey, RemoveAssociation, Explain, ReadRequired, AddRequired,
     UpdateCopy, MoveLocation, InsertCopies, WriteTag, Commit, Advance, tables
<1>2. ASSUME NEW w \in Workers, (\E r \in Requests : Open(w, r)) \/ RollBack(w)
      PROVE  UNCHANGED <<association, revision, reader>>
  BY <1>2 DEF Open, RollBack, tables
<1>3. ASSUME NEW l \in Loaders, Loading(l)
      PROVE  \/ UNCHANGED <<association, revision, reader>>
             \/ revision' = revision + 1 /\ UNCHANGED reader
  BY <1>3 DEF Loading, Load, ReadRecorded, Start, Skip, ApplyBatch, WriteBatch, Complete,
     Interrupt, Advance, vars
<1>4. ASSUME NEW r \in Readers, NEW t \in Intended, ListAssociations(r, t)
      PROVE  UNCHANGED <<association, revision>>
  BY <1>4 DEF ListAssociations, tables
<1> QED
  BY <1>1, <1>2, <1>3, <1>4 DEF LoadNext, Next, loadVars, vars

LEMMA LeastOfTwo ==
    ASSUME NEW a \in Nat, NEW b \in Nat
    PROVE  Min({a, b}) = IF a <= b THEN a ELSE b
<1> DEFINE S == {a, b}
<1>1. S \in SUBSET Nat /\ S # {} /\ a \in S /\ b \in S
  OBVIOUS
<1>2. Min(S) \in S /\ \A y \in S : Min(S) <= y
  <2> HIDE DEF S
  <2> QED
    BY <1>1, LeastOf
<1> QED
  BY <1>2

LEMMA PartOf ==
    ASSUME NEW S, NEW all \in Seq(S), NEW o \in Nat, NEW k \in Nat, k <= Len(all)
    PROVE  /\ SubSeq(all, o + 1, k) \in Seq(S)
           /\ Len(SubSeq(all, o + 1, k)) = IF o < k THEN k - o ELSE 0
           /\ \A n \in 1 .. k - o : SubSeq(all, o + 1, k)[n] = all[o + n]
<1> DEFINE m == o + 1
           page == SubSeq(all, m, k)
<1>1. m \in Int /\ k \in Int /\ \A i \in m .. k : all[i] \in S
  OBVIOUS
<1>2. /\ page \in Seq(S) /\ Len(page) = IF m <= k THEN k - m + 1 ELSE 0
      /\ \A i \in 1 .. k - m + 1 : page[i] = all[m + i - 1]
  <2> HIDE DEF m
  <2> QED
    BY ONLY <1>1, SubSeqProperties DEF page
<1>3. /\ (m <= k) = (o < k) /\ k - m + 1 = k - o
      /\ \A n \in 1 .. k - o : m + n - 1 = o + n
  OBVIOUS
<1> HIDE DEF page
<1>4. Len(page) = IF o < k THEN k - o ELSE 0
  BY <1>2, <1>3
<1>5. ASSUME NEW n \in 1 .. k - o PROVE page[n] = all[o + n]
  BY <1>2, <1>3
<1> QED
  BY <1>2, <1>4, <1>5 DEF page

\* What a page shows of a list.
LEMMA PageShown ==
    ASSUME NEW whole \in Seq(Ids), NEW o \in Nat
    PROVE  LET page == SubSeq(whole, o + 1, Min({o + PageSize + 1, Len(whole)}))
               shown == IF Len(page) > PageSize THEN SubSeq(page, 1, PageSize) ELSE page
               e == IF o + PageSize <= Len(whole) THEN o + PageSize ELSE Len(whole)
           IN  /\ shown \in Seq(Ids) /\ Len(shown) = (IF o < e THEN e - o ELSE 0)
               /\ \A n \in 1 .. Len(shown) : shown[n] = whole[o + n]
<1> DEFINE N == Len(whole)
           a == o + PageSize + 1
           k == Min({a, N})
           page == SubSeq(whole, o + 1, k)
           shown == IF Len(page) > PageSize THEN SubSeq(page, 1, PageSize) ELSE page
           e == IF o + PageSize <= N THEN o + PageSize ELSE N
<1> SUFFICES /\ shown \in Seq(Ids) /\ Len(shown) = (IF o < e THEN e - o ELSE 0)
             /\ \A n \in 1 .. Len(shown) : shown[n] = whole[o + n]
  OBVIOUS
<1>1. PageSize \in Nat \ {0} /\ N \in Nat /\ a \in Nat
  BY AccountAssumption
<1>2. k = IF a <= N THEN a ELSE N
  <2> HIDE DEF a, N
  <2> QED
    BY <1>1, LeastOfTwo
<1>3. a = o + PageSize + 1 /\ N = Len(whole)
  OBVIOUS
<1> HIDE DEF k, N, a
<1>4. k \in Nat /\ k <= Len(whole)
  BY <1>1, <1>2, <1>3
<1>5. /\ page \in Seq(Ids) /\ Len(page) = (IF o < k THEN k - o ELSE 0)
      /\ \A n \in 1 .. k - o : page[n] = whole[o + n]
  BY <1>4, PartOf
<1> HIDE DEF page
<1>6. CASE Len(page) > PageSize
  <2>1. o < k /\ k = o + PageSize + 1 /\ o < e /\ e - o = PageSize
    BY <1>1, <1>2, <1>3, <1>5, <1>6
  <2>2. /\ SubSeq(page, 0 + 1, PageSize) \in Seq(Ids)
        /\ Len(SubSeq(page, 0 + 1, PageSize)) = (IF 0 < PageSize THEN PageSize - 0 ELSE 0)
        /\ \A n \in 1 .. PageSize - 0 : SubSeq(page, 0 + 1, PageSize)[n] = page[0 + n]
    BY <1>1, <1>5, <1>6, PartOf
  <2>3. shown \in Seq(Ids) /\ Len(shown) = PageSize /\ \A n \in 1 .. PageSize : shown[n] = page[n]
    BY <1>1, <1>6, <2>2
  <2> HIDE DEF shown, e
  <2>4. \A n \in 1 .. PageSize : n \in 1 .. k - o
    BY <1>1, <2>1
  <2>5. \A n \in 1 .. PageSize : shown[n] = whole[o + n]
    BY <1>5, <2>3, <2>4
  <2> QED
    BY <2>1, <2>3, <2>5
<1>7. CASE ~(Len(page) > PageSize)
  <2>1. shown = page
    BY <1>7
  <2>2. Len(page) \in Nat /\ Len(page) = (IF o < e THEN e - o ELSE 0)
    BY <1>1, <1>2, <1>3, <1>5, <1>7
  <2>3. \A n \in 1 .. Len(page) : n \in 1 .. k - o
    BY <1>4, <1>5
  <2> HIDE DEF shown, e
  <2> QED
    BY <1>5, <2>1, <2>2, <2>3
<1> QED
  BY <1>6, <1>7

\* What was read of a list up to an offset, and the page that is shown there.
ReadUpTo(l, o, whole) ==
    /\ Len(l) = IF o <= Len(whole) THEN o ELSE Len(whole)
    /\ \A n \in 1 .. Len(l) : l[n] = whole[n]

PageAt(shown, o, whole) ==
    /\ LET e == IF o + PageSize <= Len(whole) THEN o + PageSize ELSE Len(whole)
       IN  Len(shown) = (IF o < e THEN e - o ELSE 0)
    /\ \A n \in 1 .. Len(shown) : shown[n] = whole[o + n]

\* One more page joins what was read before.
LEMMA PageJoins ==
    ASSUME NEW whole \in Seq(Ids), NEW l \in Seq(Ids), NEW o \in Nat, NEW shown \in Seq(Ids),
           ReadUpTo(l, o, whole), PageAt(shown, o, whole)
    PROVE  l \o shown \in Seq(Ids) /\ ReadUpTo(l \o shown, o + PageSize, whole)
<1>1. PageSize \in Nat \ {0} /\ Len(whole) \in Nat /\ Len(l) \in Nat /\ Len(shown) \in Nat
  BY AccountAssumption
<1> DEFINE j == l \o shown
           N == Len(whole)
           a == Len(l)
           b == Len(shown)
<1>2. /\ j \in Seq(Ids) /\ Len(j) = Len(l) + Len(shown)
      /\ \A n \in 1 .. Len(l) + Len(shown) :
            j[n] = IF n <= Len(l) THEN l[n] ELSE shown[n - Len(l)]
  BY ConcatProperties
<1>3. /\ N \in Nat /\ a \in Nat /\ b \in Nat /\ a = (IF o <= N THEN o ELSE N)
      /\ b = LET e == IF o + PageSize <= N THEN o + PageSize ELSE N
             IN  IF o < e THEN e - o ELSE 0
  BY <1>1 DEF ReadUpTo, PageAt
<1>4. Len(j) = a + b
  BY <1>2
<1> HIDE DEF j, N, a, b
<1>5. a + b = IF o + PageSize <= N THEN o + PageSize ELSE N
  BY <1>1, <1>3
<1>6. ASSUME NEW n \in 1 .. Len(j) PROVE j[n] = whole[n]
  <2>1. n \in 1 .. a + b
    BY <1>4
  <2>2. CASE n <= a
    <3>1. n \in 1 .. a
      BY <1>3, <2>1, <2>2
    <3>2. j[n] = l[n]
      BY <1>2, <2>1, <2>2 DEF a, b
    <3>3. l[n] = whole[n]
      BY <3>1 DEF a, ReadUpTo
    <3> QED
      BY <3>2, <3>3
  <2>3. CASE ~(n <= a)
    <3>0. o <= N
      <4>1. b > 0
        BY <1>3, <2>1, <2>3
      <4>2. ~(o <= N) => ~(o + PageSize <= N)
        BY <1>1, <1>3
      <4> QED
        BY <1>3, <4>1, <4>2
    <3>1. a = o /\ n - o \in 1 .. b /\ o + (n - o) = n
      <4>1. a = o
        BY <1>3, <3>0
      <4> QED
        BY <1>3, <2>1, <2>3, <4>1
    <3>2. j[n] = shown[n - o]
      BY <1>2, <2>1, <2>3, <3>1 DEF a, b
    <3>3. shown[n - o] = whole[o + (n - o)]
      BY <3>1 DEF b, PageAt
    <3> QED
      BY <3>1, <3>2, <3>3
  <2> QED
    BY <2>2, <2>3
<1> QED
  BY <1>2, <1>4, <1>5, <1>6 DEF j, N, ReadUpTo

LEMMA EndedReader ==
    ASSUME NEW tg, NEW of, NEW tk, NEW li, NEW en, NEW v
    PROVE  [[tag |-> tg, offset |-> of, token |-> tk, listed |-> li, ended |-> en] EXCEPT !.ended = v]
               = [tag |-> tg, offset |-> of, token |-> tk, listed |-> li, ended |-> v]
OBVIOUS

LEMMA PagesStep == PagesInv /\ [LoadNext]_loadVars => PagesInv'
<1> SUFFICES ASSUME PagesInv, [LoadNext]_loadVars PROVE PagesInv'
  OBVIOUS
<1>1. CASE UNCHANGED <<association, revision, reader>>
  <2>1. \A r \in Readers : Listing(reader[r].tag)' = Listing(reader'[r].tag)
    BY <1>1, ListingKept
  <2> QED
    BY <1>1, <2>1, ListingKept DEF PagesInv, Reading, Unread
<1>2. CASE revision' = revision + 1 /\ UNCHANGED reader
  BY <1>2 DEF PagesInv, Reading, Unread
<1>3. ASSUME UNCHANGED <<association, revision>>, NEW r \in Readers, NEW t \in Intended,
             ListAssociations(r, t)
      PROVE  PagesInv'
  <2> DEFINE q == reader[r]
             whole == Listing(t)
             page == SubSeq(whole, q.offset + 1, Min({q.offset + PageSize + 1, Len(whole)}))
             shown == IF Len(page) > PageSize THEN SubSeq(page, 1, PageSize) ELSE page
             turned == [tag |-> t, offset |-> q.offset + PageSize, token |-> revision,
                        listed |-> q.listed \o shown, ended |-> Len(page) <= PageSize]
             stopped == [q EXCEPT !.ended = TRUE]
  <2>1. /\ q.tag \in {None, t}
        /\ reader' = [reader EXCEPT ![r] = IF Stale(q.token) THEN stopped ELSE turned]
    BY <1>3 DEF ListAssociations
  <2>2. revision \in Nat /\ None \notin Nat /\ None \notin Intended /\ revision' = revision
        /\ PageSize \in Nat \ {0}
    BY <1>3, TagAssumption, AccountAssumption DEF PagesInv, Tags
  <2>3. PICK tg, of, tk, li, en : q = [tag |-> tg, offset |-> of, token |-> tk, listed |-> li, ended |-> en]
    BY DEF PagesInv
  <2>4. PICK x : /\ x = (IF Stale(q.token) THEN stopped ELSE turned)
                 /\ reader' = [u \in Readers |-> IF u = r THEN x ELSE reader[u]]
    BY <2>1 DEF PagesInv
  <2>5. /\ q.tag = tg /\ q.offset = of /\ q.token = tk /\ q.listed = li
    BY <2>3
  <2>6. /\ of \in Nat /\ li \in Seq(Ids) /\ (tk = None => of = 0 /\ li = <<>>)
        /\ tk # None => tk \in 0 .. revision /\ tg = t /\ (tk = revision => Joined(q, whole))
    <3>1. CASE Unread(q)
      BY <2>5, <3>1 DEF Unread
    <3>2. CASE Reading(q)
      BY <2>1, <2>2, <2>5, <3>2 DEF Reading
    <3> QED
      BY <3>1, <3>2 DEF PagesInv
  <2>7. Reading(x)' /\ x = [tag |-> x.tag, offset |-> x.offset, token |-> x.token,
                            listed |-> x.listed, ended |-> x.ended]
    <3>1. CASE Stale(q.token)
      <4>1. PICK ended : ended = TRUE
        OBVIOUS
      <4>2. x = [q EXCEPT !.ended = ended]
        BY <2>4, <3>1, <4>1
      <4>3. /\ x.tag = tg /\ x.offset = of /\ x.token = tk /\ x.listed = li
            /\ x = [tag |-> tg, offset |-> of, token |-> tk, listed |-> li, ended |-> ended]
        BY <2>3, <4>2, EndedReader
      <4> QED
        BY <2>2, <2>5, <2>6, <3>1, <4>3 DEF Stale, Reading
    <3>2. CASE ~Stale(q.token)
      <4>1. /\ x.tag = t /\ x.offset = of + PageSize /\ x.token = revision
            /\ x.listed = li \o shown
            /\ x = [tag |-> t, offset |-> of + PageSize, token |-> revision,
                    listed |-> li \o shown, ended |-> Len(page) <= PageSize]
        BY <2>4, <2>5, <3>2
      <4>2. /\ Len(li) = (IF of <= Len(whole) THEN of ELSE Len(whole))
            /\ \A n \in 1 .. Len(li) : li[n] = whole[n]
        BY <2>2, <2>5, <2>6, <3>2, ListingFacts DEF Stale, Joined
      <4>3. whole \in Seq(Ids)
        BY ListingFacts
      <4>4. /\ shown \in Seq(Ids)
            /\ LET e == IF of + PageSize <= Len(whole) THEN of + PageSize ELSE Len(whole)
               IN  Len(shown) = (IF of < e THEN e - of ELSE 0)
            /\ \A n \in 1 .. Len(shown) : shown[n] = whole[of + n]
        <5> HIDE DEF whole
        <5> QED
          BY <2>5, <2>6, <4>3, PageShown
      <4> HIDE DEF page, shown, whole
      <4>5. Joined(x, whole)
        <5>1. ReadUpTo(li, of, whole)
          BY <4>2 DEF ReadUpTo
        <5>2. PageAt(shown, of, whole)
          BY <4>4 DEF PageAt
        <5>3. ReadUpTo(li \o shown, of + PageSize, whole)
          BY ONLY <2>6, <4>3, <4>4, <5>1, <5>2, PageJoins
        <5> QED
          BY <4>1, <5>3 DEF Joined, ReadUpTo
      <4>7. x.listed \in Seq(Ids)
        BY <2>6, <4>1, <4>4, ConcatProperties
      <4>6. Joined(x, whole)'
        BY <1>3, <4>5, ListingKept DEF Joined, whole
      <4> QED
        BY <2>2, <2>6, <4>1, <4>6, <4>7 DEF Reading, whole
    <3> QED
      BY <3>1, <3>2
  <2> HIDE DEF q
  <2>8. ASSUME NEW u \in Readers
        PROVE  /\ Unread(reader[u])' \/ Reading(reader[u])'
               /\ reader'[u] = [tag |-> reader'[u].tag, offset |-> reader'[u].offset,
                                token |-> reader'[u].token, listed |-> reader'[u].listed,
                                ended |-> reader'[u].ended]
    <3>1. CASE u = r
      BY <2>4, <2>7, <3>1 DEF Reading
    <3>2. CASE u # r
      <4>1. reader'[u] = reader[u]
        BY <2>4, <3>2
      <4>2. Listing(reader[u].tag)' = Listing(reader'[u].tag)
        BY <1>3, ListingKept
      <4> QED
        BY <1>3, <4>1, <4>2, ListingKept DEF PagesInv, Reading, Unread
    <3> QED
      BY <3>1, <3>2
  <2> QED
    BY <2>2, <2>4, <2>8 DEF PagesInv
<1> QED
  BY <1>1, <1>2, <1>3, ChangesRevise

LEMMA PagesInit == LoadInit => PagesInv
<1> SUFFICES ASSUME LoadInit PROVE PagesInv
  OBVIOUS
<1>1. /\ revision = 0
      /\ reader = [r \in Readers |->
             [tag |-> None, offset |-> 0, token |-> None, listed |-> <<>>, ended |-> FALSE]]
  BY DEF LoadInit, Init
<1> QED
  BY <1>1 DEF PagesInv, Unread

\* A reader's pages are the list's first ones, at the revision it carries
\* (listAssociations in organization-service.ts).
THEOREM PagesInductive == LoadSpec => []PagesInv
<1>1. PagesInv /\ [LoadNext]_loadVars => PagesInv'
  BY PagesStep
<1> QED
  BY <1>1, PagesInit, PTL DEF LoadSpec

\* The pages a reader joined are the tag's list as it is, while nothing
\* changed since: no association is skipped, repeated or shown as it was.
THEOREM PagesAgree == LoadSpec => []PagesOfOneState
<1>1. PagesInv => PagesOfOneState
  <2> SUFFICES ASSUME PagesInv, NEW r \in Readers, reader[r].token = revision
               PROVE  /\ IsPrefix(reader[r].listed, Listing(reader[r].tag))
                      /\ Len(reader[r].listed) =
                             Min({reader[r].offset, Len(Listing(reader[r].tag))})
    BY DEF PagesOfOneState
  <2> DEFINE l == reader[r].listed
             whole == Listing(reader[r].tag)
             o == reader[r].offset
  <2>1. None \notin Nat /\ revision \in Nat
    BY TagAssumption DEF PagesInv
  <2>2. /\ l \in Seq(Ids) /\ o \in Nat /\ Len(l) = (IF o <= Len(whole) THEN o ELSE Len(whole))
        /\ \A n \in 1 .. Len(l) : l[n] = whole[n]
    BY <2>1 DEF PagesInv, Unread, Reading, Joined
  <2>3. whole \in Seq(Ids)
    BY ListingFacts
  <2> HIDE DEF l, whole, o
  <2>4. Len(l) = Min({o, Len(whole)})
    BY <2>2, <2>3, LeastOfTwo
  <2> DEFINE k == Len(l)
             part == SubSeq(whole, 0 + 1, k)
  <2>5. k \in Nat /\ k <= Len(whole)
    BY <2>2, <2>3
  <2>6. /\ part \in Seq(Ids) /\ Len(part) = (IF 0 < k THEN k - 0 ELSE 0)
        /\ \A n \in 1 .. k - 0 : part[n] = whole[0 + n]
    BY <2>3, <2>5, PartOf
  <2>7. part = l
    <3>1. Len(part) = Len(l) /\ \A n \in 1 .. Len(l) : part[n] = l[n]
      BY <2>2, <2>5, <2>6
    <3> HIDE DEF part
    <3> QED
      BY <2>2, <2>6, <3>1, SeqEqual
  <2>8. SubSeq(whole, 1, Len(l)) = l /\ SubSeq(l, 1, Len(l)) = l
    BY <2>2, <2>7, SubSeqFull
  <2>9. IsPrefix(l, whole)
    BY <2>5, <2>8 DEF IsPrefix
  <2> QED
    BY <2>4, <2>9 DEF l, whole, o
<1> QED
  BY <1>1, PagesInductive, PTL

--------
(* What PrivateRecords sees of some rows and copies.                       *)

NamedIn(a, t, x) == {i \in Ids : Names(a, i, t, x)}
PlacedIn(a, c) == {i \in Ids : PlacesIt(a, i, c)}

IntentIn(a, t, x) ==
    CASE NamedIn(a, t, x) = {} -> None
      [] Cardinality(NamedIn(a, t, x)) = 1 ->
            LET row == a[CHOOSE i \in NamedIn(a, t, x) : TRUE]
            IN  [quantity |-> row.quantity, revision |-> row.revision]
      [] OTHER -> "twice"

PlaceIn(a, c) ==
    CASE PlacedIn(a, c) = {} -> None
      [] Cardinality(PlacedIn(a, c)) = 1 -> a[CHOOSE i \in PlacedIn(a, c) : TRUE].tag
      [] OTHER -> "two places"

OwnedIn(a, k, c) ==
    IF k[c] = None \/ Cardinality(NamedIn(a, Owned, c)) = 1 THEN k[c] ELSE "not owned"

LabelsOf(g) == [t \in Intended \cup Locations |-> g[t]]
IntentsOf(a) == [t \in Intended |-> [x \in Targets |-> IntentIn(a, t, x)]]
CopiesOf(a, k) == [c \in Copies |-> OwnedIn(a, k, c)]
PlacesOf(a) == [c \in Copies |-> PlaceIn(a, c)]

LEMMA SeenNow ==
    /\ \A t, x : Naming(t, x) = NamedIn(association, t, x)
    /\ \A c : Placing(c) = PlacedIn(association, c)
    /\ \A t, x : Intent(t, x) = IntentIn(association, t, x)
    /\ \A c : Place(c) = PlaceIn(association, c)
    /\ \A c : OwnedCopy(c) = OwnedIn(association, copy, c)
<1>1. \A t, x : Naming(t, x) = NamedIn(association, t, x)
  BY DEF Naming, NamedIn, Names, Stored
<1>2. \A c : Placing(c) = PlacedIn(association, c)
  BY DEF Placing, PlacedIn, PlacesIt, Stored
<1>3. \A t, x : Intent(t, x) = IntentIn(association, t, x)
  BY <1>1 DEF Intent, IntentIn
<1>4. \A c : Place(c) = PlaceIn(association, c)
  BY <1>2 DEF Place, PlaceIn
<1>5. \A c : OwnedCopy(c) = OwnedIn(association, copy, c)
  BY <1>1 DEF OwnedCopy, OwnedIn
<1> QED
  BY <1>1, <1>2, <1>3, <1>4, <1>5

LEMMA SeenNext ==
    /\ \A t, x : Naming(t, x)' = NamedIn(association', t, x)
    /\ \A c : Placing(c)' = PlacedIn(association', c)
    /\ \A t, x : Intent(t, x)' = IntentIn(association', t, x)
    /\ \A c : Place(c)' = PlaceIn(association', c)
    /\ \A c : OwnedCopy(c)' = OwnedIn(association', copy', c)
<1>1. \A t, x : Naming(t, x)' = NamedIn(association', t, x)
  BY DEF Naming, NamedIn, Names, Stored
<1>2. \A c : Placing(c)' = PlacedIn(association', c)
  BY DEF Placing, PlacedIn, PlacesIt, Stored
<1>3. \A t, x : Intent(t, x)' = IntentIn(association', t, x)
  BY <1>1 DEF Intent, IntentIn
<1>4. \A c : Place(c)' = PlaceIn(association', c)
  BY <1>2 DEF Place, PlaceIn
<1>5. \A c : OwnedCopy(c)' = OwnedIn(association', copy', c)
  BY <1>1 DEF OwnedCopy, OwnedIn
<1> QED
  BY <1>1, <1>2, <1>3, <1>4, <1>5

LEMMA OneMember ==
    ASSUME NEW S, NEW i \in S, \A j \in S : j = i
    PROVE  S # {} /\ Cardinality(S) = 1 /\ (CHOOSE j \in S : TRUE) = i
<1>1. S = {i}
  OBVIOUS
<1> QED
  BY <1>1, FS_Singleton

LEMMA IntentNamed ==
    ASSUME NEW a, NEW k, Sound(a, k), NEW i \in Ids, NEW t, NEW x, Names(a, i, t, x)
    PROVE  IntentIn(a, t, x) = [quantity |-> a[i].quantity, revision |-> a[i].revision]
<1>1. i \in NamedIn(a, t, x) /\ \A j \in NamedIn(a, t, x) : j = i
  BY DEF NamedIn, Names, Sound, Rivals
<1> QED
  BY <1>1, OneMember DEF IntentIn

LEMMA IntentNone ==
    ASSUME NEW a, NEW t, NEW x, \A i \in Ids : ~Names(a, i, t, x)
    PROVE  IntentIn(a, t, x) = None
<1>1. NamedIn(a, t, x) = {}
  BY DEF NamedIn
<1> QED
  BY <1>1, FS_EmptySet DEF IntentIn

LEMMA IntentStands ==
    ASSUME NEW a, NEW b, NEW t, NEW x,
           \A i \in Ids : a[i] = b[i] \/ (~Names(a, i, t, x) /\ ~Names(b, i, t, x))
    PROVE  IntentIn(b, t, x) = IntentIn(a, t, x)
<1>1. NamedIn(a, t, x) = NamedIn(b, t, x)
  BY DEF NamedIn, Names
<1>2. NamedIn(a, t, x) # {} =>
         a[CHOOSE i \in NamedIn(a, t, x) : TRUE] = b[CHOOSE i \in NamedIn(a, t, x) : TRUE]
  BY DEF NamedIn
<1> QED
  BY <1>1, <1>2 DEF IntentIn

LEMMA PlaceNamed ==
    ASSUME NEW a, NEW k, Sound(a, k), NEW i \in Ids, NEW c, PlacesIt(a, i, c)
    PROVE  PlaceIn(a, c) = a[i].tag
<1>1. i \in PlacedIn(a, c) /\ \A j \in PlacedIn(a, c) : j = i
  BY DEF PlacedIn, PlacesIt, Sound, Rivals
<1> QED
  BY <1>1, OneMember DEF PlaceIn

LEMMA PlaceNone ==
    ASSUME NEW a, NEW c, \A i \in Ids : ~PlacesIt(a, i, c)
    PROVE  PlaceIn(a, c) = None
<1>1. PlacedIn(a, c) = {} /\ Cardinality(PlacedIn(a, c)) # 1
  <2>1. PlacedIn(a, c) = {}
    BY DEF PlacedIn
  <2> QED
    BY <2>1, FS_EmptySet
<1> DEFINE i == CHOOSE i \in PlacedIn(a, c) : TRUE
<1> HIDE DEF i
<1>2. PlaceIn(a, c) = CASE PlacedIn(a, c) = {} -> None
                        [] Cardinality(PlacedIn(a, c)) = 1 -> a[i].tag
                        [] OTHER -> "two places"
  BY DEF PlaceIn, i
<1> QED
  BY <1>1, <1>2

LEMMA PlaceStands ==
    ASSUME NEW a, NEW b, NEW c,
           \A i \in Ids : a[i] = b[i] \/ (~PlacesIt(a, i, c) /\ ~PlacesIt(b, i, c))
    PROVE  PlaceIn(b, c) = PlaceIn(a, c)
<1>1. PlacedIn(a, c) = PlacedIn(b, c)
  BY DEF PlacedIn, PlacesIt
<1>2. PlacedIn(a, c) # {} =>
         a[CHOOSE i \in PlacedIn(a, c) : TRUE] = b[CHOOSE i \in PlacedIn(a, c) : TRUE]
  BY DEF PlacedIn
<1> QED
  BY <1>1, <1>2 DEF PlaceIn

\* The copies are seen as they are stored: each has an owner.
LEMMA OwnedSeen ==
    ASSUME NEW a, NEW k, Sound(a, k), NEW c \in Copies
    PROVE  OwnedIn(a, k, c) = k[c]
<1>1. CASE k[c] # None
  <2>1. PICK i \in Ids : Names(a, i, Owned, c)
    BY <1>1 DEF Sound
  <2>2. i \in NamedIn(a, Owned, c) /\ \A j \in NamedIn(a, Owned, c) : j = i
    BY <2>1 DEF NamedIn, Names, Sound, Rivals
  <2> QED
    BY <2>2, OneMember DEF OwnedIn
<1> QED
  BY <1>1 DEF OwnedIn

LEMMA CopiesSeen ==
    ASSUME NEW a, NEW k, Sound(a, k), k = [c \in Copies |-> k[c]]
    PROVE  CopiesOf(a, k) = k
<1>1. \A c \in Copies : OwnedIn(a, k, c) = k[c]
  BY OwnedSeen
<1> QED
  BY <1>1 DEF CopiesOf

LEMMA IntentsStand ==
    ASSUME NEW a, NEW b, \A i \in Ids : \/ a[i] = b[i]
                                        \/ /\ a[i] # None => a[i].tag \notin Intended
                                           /\ b[i] # None => b[i].tag \notin Intended
    PROVE  IntentsOf(b) = IntentsOf(a)
<1>1. \A t \in Intended, x \in Targets : IntentIn(b, t, x) = IntentIn(a, t, x)
  BY IntentStands DEF Names
<1> QED
  BY <1>1 DEF IntentsOf

LEMMA PlacesStand ==
    ASSUME NEW a, NEW b, \A i \in Ids : \/ a[i] = b[i]
                                        \/ /\ a[i] # None => a[i].tag \notin Locations
                                           /\ b[i] # None => b[i].tag \notin Locations
    PROVE  PlacesOf(b) = PlacesOf(a)
<1>1. \A c \in Copies : PlaceIn(b, c) = PlaceIn(a, c)
  BY PlaceStands DEF PlacesIt
<1> QED
  BY <1>1 DEF PlacesOf

\* A step is one of the promise, told by what it sees.
LEMMA PromisedBy ==
    ASSUME revision' = revision + 1,
           \/ /\ Promise!TagNamed(LabelsOf(tag), LabelsOf(tag'))
              /\ IntentsOf(association') = IntentsOf(association)
              /\ CopiesOf(association', copy') = CopiesOf(association, copy)
              /\ PlacesOf(association') = PlacesOf(association)
           \/ /\ Promise!IntentChanged(IntentsOf(association), IntentsOf(association'))
              /\ LabelsOf(tag') = LabelsOf(tag)
              /\ CopiesOf(association', copy') = CopiesOf(association, copy)
              /\ PlacesOf(association') = PlacesOf(association)
           \/ /\ \/ Promise!CopiesAdded(CopiesOf(association, copy), CopiesOf(association', copy'))
                 \/ Promise!Corrected(CopiesOf(association, copy), CopiesOf(association', copy'))
              /\ LabelsOf(tag') = LabelsOf(tag)
              /\ IntentsOf(association') = IntentsOf(association)
              /\ PlacesOf(association') = PlacesOf(association)
           \/ /\ Promise!Moved(CopiesOf(association, copy), CopiesOf(association', copy'),
                               PlacesOf(association), PlacesOf(association'))
              /\ LabelsOf(tag') = LabelsOf(tag)
              /\ IntentsOf(association') = IntentsOf(association)
    PROVE  Promise!Next
<1>1. /\ [t \in Intended \cup Locations |-> tag[t]] = LabelsOf(tag)
      /\ [t \in Intended \cup Locations |-> tag'[t]] = LabelsOf(tag')
  BY DEF LabelsOf
<1>2. /\ [t \in Intended |-> [x \in Targets |-> Intent(t, x)]] = IntentsOf(association)
      /\ [t \in Intended |-> [x \in Targets |-> Intent(t, x)']] = IntentsOf(association')
  BY SeenNow, SeenNext DEF IntentsOf
<1>3. /\ [c \in Copies |-> OwnedCopy(c)] = CopiesOf(association, copy)
      /\ [c \in Copies |-> OwnedCopy(c)'] = CopiesOf(association', copy')
  BY SeenNow, SeenNext DEF CopiesOf
<1>4. /\ [c \in Copies |-> Place(c)] = PlacesOf(association)
      /\ [c \in Copies |-> Place(c)'] = PlacesOf(association')
  BY SeenNow, SeenNext DEF PlacesOf
<1> QED
  BY <1>1, <1>2, <1>3, <1>4 DEF Promise!Next, Promise!OneChange

--------
(* What is asked for, when one row or the rows of a confirmation change.   *)

LEMMA RowKinds ==
    ASSUME NEW row \in Rows
    PROVE  /\ row.revision \in Nat \ {0} /\ row # None
           /\ \/ /\ row.tag \in Intended /\ row.tag \notin Locations /\ row.tag # Owned
                 /\ row.target \in Targets /\ row.quantity \in 1 .. MaxQuantity
              \/ row.tag \in Locations \cup {Owned} /\ row.tag \notin Intended /\ row.target \in Copies
BY TagAssumption DEF Rows

AllRows == [Ids -> Rows \cup {None}]

LEMMA AskedFor ==
    ASSUME NEW q \in 1 .. MaxQuantity, NEW n \in Nat \ {0}
    PROVE  [quantity |-> q, revision |-> n] # None
BY TagAssumption

LEMMA InsertIntent ==
    ASSUME NEW a, NEW b, NEW k, Sound(a, k), Sound(b, k), NEW i \in Ids,
           \A j \in Ids \ {i} : b[j] = a[j],
           NEW t \in Intended, NEW x \in Targets, NEW q \in 1 .. MaxQuantity,
           a[i] = None, b[i] = Row(t, x, q, 1), b[i] # None, \A j \in Ids : ~Names(a, j, t, x)
    PROVE  Promise!IntentChanged(IntentsOf(a), IntentsOf(b))
<1>1. b[i].tag = t /\ b[i].target = x /\ b[i].quantity = q /\ b[i].revision = 1
  BY DEF Row
<1>2. IntentIn(a, t, x) = None
  BY IntentNone
<1>3. IntentIn(b, t, x) = [quantity |-> q, revision |-> 1]
  BY <1>1, IntentNamed DEF Names
<1>4. ASSUME NEW u, NEW y, ~(u = t /\ y = x) PROVE IntentIn(b, u, y) = IntentIn(a, u, y)
  <2>1. \A j \in Ids : a[j] = b[j] \/ (~Names(a, j, u, y) /\ ~Names(b, j, u, y))
    BY <1>1, <1>4 DEF Names
  <2> QED
    BY <2>1, IntentStands
<1>5. \A u \in Intended \ {t} : IntentsOf(b)[u] = IntentsOf(a)[u]
  BY <1>4 DEF IntentsOf
<1> DEFINE before == IntentsOf(a)[t]
           after == IntentsOf(b)[t]
<1>6. /\ before = [z \in Targets |-> IntentIn(a, t, z)]
      /\ after = [z \in Targets |-> IntentIn(b, t, z)]
  BY DEF IntentsOf
<1>7. before[x] = None /\ after = [before EXCEPT ![x] = [quantity |-> q, revision |-> 1]]
  BY <1>2, <1>3, <1>4, <1>6
<1>8. Promise!Associated(before, after)
  BY <1>7 DEF Promise!Associated, Promise!Quantities
<1> QED
  BY <1>5, <1>8 DEF Promise!IntentChanged

LEMMA CorrectIntent ==
    ASSUME NEW a, NEW b, NEW k, Sound(a, k), Sound(b, k), NEW i \in Ids,
           \A j \in Ids \ {i} : b[j] = a[j],
           a[i] \in Rows, a[i].tag \in Intended, NEW x \in Targets, NEW q \in 1 .. MaxQuantity,
           b[i] = Advanced([a[i] EXCEPT !.target = x, !.quantity = q]), b[i] # None,
           \A j \in Ids : Names(a, j, a[i].tag, x) => j = i
    PROVE  Promise!IntentChanged(IntentsOf(a), IntentsOf(b))
<1> PICK t, y : t = a[i].tag /\ y = a[i].target
  OBVIOUS
<1>1. /\ b[i].tag = t /\ b[i].target = x /\ b[i].quantity = q /\ b[i].revision = a[i].revision + 1
      /\ t \in Intended /\ y \in Targets /\ a[i].quantity \in 1 .. MaxQuantity
      /\ a[i].revision \in Nat \ {0} /\ a[i] # None
  BY RowKinds DEF Advanced, Rows
<1>2. IntentIn(a, t, y) = [quantity |-> a[i].quantity, revision |-> a[i].revision]
  BY <1>1, IntentNamed DEF Names
<1>3. IntentIn(b, t, x) = [quantity |-> q, revision |-> a[i].revision + 1]
  BY <1>1, IntentNamed DEF Names
<1>4. x # y => IntentIn(b, t, y) = None
  <2>1. ASSUME x # y, NEW j \in Ids, Names(b, j, t, y) PROVE FALSE
    <3>1. j # i /\ Names(a, j, t, y)
      BY <1>1, <2>1 DEF Names
    <3> QED
      BY <1>1, <3>1 DEF Names, Sound, Rivals
  <2> QED
    BY <2>1, IntentNone
<1>5. x # y => IntentIn(a, t, x) = None
  <2>1. x # y => \A j \in Ids : ~Names(a, j, t, x)
    BY <1>1 DEF Names
  <2> QED
    BY <2>1, IntentNone
<1>6. ASSUME NEW u, NEW z, ~(u = t /\ z \in {x, y}) PROVE IntentIn(b, u, z) = IntentIn(a, u, z)
  <2>1. \A j \in Ids : a[j] = b[j] \/ (~Names(a, j, u, z) /\ ~Names(b, j, u, z))
    BY <1>1, <1>6 DEF Names
  <2> QED
    BY <2>1, IntentStands
<1>7. \A u \in Intended \ {t} : IntentsOf(b)[u] = IntentsOf(a)[u]
  BY <1>6 DEF IntentsOf
<1> DEFINE before == IntentsOf(a)[t]
           after == IntentsOf(b)[t]
<1>8. /\ before = [z \in Targets |-> IntentIn(a, t, z)]
      /\ after = [z \in Targets |-> IntentIn(b, t, z)]
  BY <1>1 DEF IntentsOf
<1>9. before[y] # None /\ (y = x \/ before[x] = None) /\ before[y].revision = a[i].revision
  BY <1>1, <1>2, <1>5, <1>8, AskedFor
<1>10. after = [[before EXCEPT ![y] = None] EXCEPT ![x] =
                   [quantity |-> q, revision |-> before[y].revision + 1]]
  BY <1>1, <1>3, <1>4, <1>6, <1>8, <1>9
<1>11. Promise!Changed(before, after)
  <2> HIDE DEF before, after
  <2>1. y \in Targets /\ q \in Promise!Quantities
    BY <1>1 DEF Promise!Quantities
  <2> QED
    BY <1>9, <1>10, <2>1 DEF Promise!Changed
<1> QED
  BY <1>1, <1>7, <1>11 DEF Promise!IntentChanged

LEMMA RemoveIntent ==
    ASSUME NEW a, NEW b, NEW k, Sound(a, k), NEW i \in Ids, \A j \in Ids \ {i} : b[j] = a[j],
           a[i] \in Rows, a[i].tag \in Intended, b[i] = None
    PROVE  Promise!IntentChanged(IntentsOf(a), IntentsOf(b))
<1> PICK t, y : t = a[i].tag /\ y = a[i].target
  OBVIOUS
<1>1. /\ t \in Intended /\ y \in Targets /\ a[i].quantity \in 1 .. MaxQuantity
      /\ a[i].revision \in Nat \ {0} /\ a[i] # None
  BY RowKinds
<1>2. IntentIn(a, t, y) = [quantity |-> a[i].quantity, revision |-> a[i].revision]
  BY <1>1, IntentNamed DEF Names
<1>3. IntentIn(b, t, y) = None
  <2>1. ASSUME NEW j \in Ids, Names(b, j, t, y) PROVE FALSE
    <3>1. j # i /\ Names(a, j, t, y)
      BY <1>1, <2>1 DEF Names
    <3> QED
      BY <1>1, <3>1 DEF Names, Sound, Rivals
  <2> QED
    BY <2>1, IntentNone
<1>4. ASSUME NEW u, NEW z, ~(u = t /\ z = y) PROVE IntentIn(b, u, z) = IntentIn(a, u, z)
  <2>1. \A j \in Ids : a[j] = b[j] \/ (~Names(a, j, u, z) /\ ~Names(b, j, u, z))
    BY <1>1, <1>4 DEF Names
  <2> QED
    BY <2>1, IntentStands
<1>5. \A u \in Intended \ {t} : IntentsOf(b)[u] = IntentsOf(a)[u]
  BY <1>4 DEF IntentsOf
<1> DEFINE before == IntentsOf(a)[t]
           after == IntentsOf(b)[t]
<1>6. /\ before = [z \in Targets |-> IntentIn(a, t, z)]
      /\ after = [z \in Targets |-> IntentIn(b, t, z)]
  BY <1>1 DEF IntentsOf
<1>7. before[y] # None /\ after = [before EXCEPT ![y] = None]
  BY <1>1, <1>2, <1>3, <1>4, <1>6, AskedFor
<1>8. Promise!Removed(before, after)
  BY <1>1, <1>7 DEF Promise!Removed
<1> QED
  BY <1>1, <1>5, <1>8 DEF Promise!IntentChanged

\* What a confirmation makes of a row.
Raised(row, old, t) ==
    /\ row # None /\ row.tag = t
    /\ old = None => row.revision = 1
    /\ old # None =>
          /\ old.tag = t /\ old.target = row.target
          /\ row.revision = old.revision + 1 /\ row.quantity > old.quantity

LEMMA ConfirmIntent ==
    ASSUME NEW a \in AllRows, NEW b \in AllRows, NEW k, Sound(a, k), Sound(b, k),
           NEW D \in SUBSET Ids, \A j \in Ids \ D : b[j] = a[j], NEW t \in Intended,
           \A i \in D : Raised(b[i], a[i], t),
           \A i \in D, j \in Ids : Names(a, j, t, b[i].target) => j = i
    PROVE  Promise!IntentChanged(IntentsOf(a), IntentsOf(b))
<1>1. ASSUME NEW u, u # t, NEW z PROVE IntentIn(b, u, z) = IntentIn(a, u, z)
  <2>1. \A j \in Ids : a[j] = b[j] \/ (~Names(a, j, u, z) /\ ~Names(b, j, u, z))
    BY <1>1 DEF Names, Raised
  <2> QED
    BY <2>1, IntentStands
<1>2. \A u \in Intended \ {t} : IntentsOf(b)[u] = IntentsOf(a)[u]
  BY <1>1 DEF IntentsOf
<1> DEFINE before == IntentsOf(a)[t]
           after == IntentsOf(b)[t]
<1>3. /\ before = [z \in Targets |-> IntentIn(a, t, z)]
      /\ after = [z \in Targets |-> IntentIn(b, t, z)]
  BY DEF IntentsOf
<1>4. ASSUME NEW x \in Targets
      PROVE  \/ after[x] = before[x]
             \/ /\ after[x] # None
                /\ IF before[x] = None THEN after[x].revision = 1
                   ELSE /\ after[x].revision = before[x].revision + 1
                        /\ after[x].quantity > before[x].quantity
  <2>1. CASE \E i \in D : b[i].target = x
    <3>1. PICK i \in D : b[i].target = x
      BY <2>1
    <3>2. Raised(b[i], a[i], t) /\ b[i] \in Rows
      BY <3>1 DEF AllRows, Raised
    <3>3. after[x] = [quantity |-> b[i].quantity, revision |-> b[i].revision]
      BY <1>3, <3>1, <3>2, IntentNamed DEF Names, Raised
    <3>4. after[x] # None
      BY <3>2, <3>3, RowKinds, AskedFor DEF Raised
    <3>5. CASE a[i] = None
      <4>1. \A j \in Ids : ~Names(a, j, t, x)
        BY <3>1, <3>5 DEF Names
      <4>2. before[x] = None
        BY <1>3, <4>1, IntentNone
      <4> QED
        BY <3>2, <3>3, <3>4, <3>5, <4>2 DEF Raised
    <3>6. CASE a[i] # None
      <4>1. before[x] = [quantity |-> a[i].quantity, revision |-> a[i].revision]
        BY <1>3, <3>1, <3>2, <3>6, IntentNamed DEF Names, Raised
      <4>2. a[i] \in Rows /\ a[i].tag \in Intended
        BY <3>2, <3>6 DEF AllRows, Raised
      <4>3. before[x] # None
        BY <4>1, <4>2, RowKinds, AskedFor
      <4> QED
        BY <3>2, <3>3, <3>4, <3>6, <4>1, <4>3 DEF Raised
    <3> QED
      BY <3>5, <3>6
  <2>2. CASE ~\E i \in D : b[i].target = x
    <3>1. \A j \in Ids : a[j] = b[j] \/ (~Names(a, j, t, x) /\ ~Names(b, j, t, x))
      BY <2>2 DEF Names, Raised
    <3>2. IntentIn(b, t, x) = IntentIn(a, t, x)
      BY <3>1, IntentStands
    <3> QED
      BY <1>3, <3>2
  <2> QED
    BY <2>1, <2>2
<1>5. Promise!Confirmed(before, after)
  BY <1>4 DEF Promise!Confirmed
<1> QED
  BY <1>2, <1>5 DEF Promise!IntentChanged

--------
(* Changes that keep the keys of the rows and the owners of the copies.    *)

\* What changes gets no rival, and refers to a copy that is there.
Fits(b, m, i) ==
    b[i] # None =>
        /\ \A j \in Ids \ {i} : b[j] # None => ~Rivals(b[i], b[j]) /\ ~Rivals(b[j], b[i])
        /\ b[i].tag \notin Intended => m[b[i].target] # None

LEMMA SoundAfter ==
    ASSUME NEW a \in AllRows, NEW b \in AllRows, NEW k, NEW m, Sound(a, k),
           \A c \in Copies : k[c] # None => m[c] # None,
           \A i \in Ids : b[i] # a[i] => Fits(b, m, i),
           \A i \in Ids : b[i] # a[i] /\ a[i] # None => a[i].tag # Owned,
           \A c \in Copies : k[c] = None /\ m[c] # None => \E i \in Ids : Names(b, i, Owned, c)
    PROVE  Sound(b, m)
<1>1. ASSUME NEW i \in Ids, NEW j \in Ids, b[i] # None, b[j] # None, Rivals(b[i], b[j]), i # j
      PROVE  FALSE
  <2>1. b[i] = a[i] /\ b[j] = a[j]
    BY <1>1 DEF Fits
  <2> QED
    BY <1>1, <2>1 DEF Sound
<1>2. ASSUME NEW i \in Ids, b[i] # None, b[i].tag \notin Intended PROVE m[b[i].target] # None
  <2>1. CASE b[i] = a[i]
    <3>1. b[i].target \in Copies /\ k[b[i].target] # None
      BY <1>2, <2>1, RowKinds DEF Sound, AllRows
    <3> QED
      BY <3>1
  <2>2. CASE b[i] # a[i]
    BY <1>2, <2>2 DEF Fits
  <2> QED
    BY <2>1, <2>2
<1>3. ASSUME NEW c \in Copies, m[c] # None PROVE \E i \in Ids : Names(b, i, Owned, c)
  <2>1. CASE k[c] # None
    <3>1. PICK i \in Ids : Names(a, i, Owned, c)
      BY <2>1 DEF Sound
    <3>2. b[i] = a[i]
      BY <3>1 DEF Names
    <3> QED
      BY <3>1, <3>2 DEF Names
  <2> QED
    BY <1>3, <2>1
<1> QED
  BY <1>1, <1>2, <1>3 DEF Sound

--------
(* A commit publishes what its request asked for.                          *)

LEMMA CommitRecords ==
    ASSUME YieldInv, NEW w \in Workers, Commit(w)
    PROVE  /\ Busy(w) /\ work[w].at = "commit" /\ revision' = revision + 1
           /\ association \in AllRows /\ association' \in AllRows
           /\ \A i \in Ids : association'[i] = IF i \in DOMAIN Changes(w) THEN Changes(w)[i]
                                               ELSE association[i]
           /\ copy \in [Copies -> CopyRows \cup {None}] /\ copy' \in [Copies -> CopyRows \cup {None}]
           /\ \A c \in Copies : copy'[c] = IF c \in DOMAIN Copying(w) THEN Copying(w)[c] ELSE copy[c]
           /\ tag \in [Tags -> Nat] /\ tag' \in [Tags -> Nat]
           /\ \A t \in Tags : tag'[t] = IF t \in DOMAIN Tagging(w) THEN Tagging(w)[t] ELSE tag[t]
<1> DEFINE written == work[w].written
<1>1. /\ work[w].at = "commit" /\ revision' = revision + 1
      /\ tag' = Over(Tagging(w), tag) /\ association' = Over(Changes(w), association)
      /\ copy' = Over(Copying(w), copy)
  BY DEF Commit, Changes, Advance, Tagging, Copying
<1>2. Busy(w)
  BY <1>1 DEF Busy
<1>3. written \in Writtens
  BY <1>2, TransactionChanges
<1>4. /\ Tagging(w) \in Partial(Tags, Nat) /\ Copying(w) \in Partial(Copies, CopyRows)
      /\ Changes(w) \in Partial(Ids, Rows \cup {None})
  BY <1>3 DEF Writtens, Changes, Tagging, Copying
<1>5. /\ tag \in [Tags -> Nat] /\ copy \in [Copies -> CopyRows \cup {None}]
      /\ association \in [Ids -> Rows \cup {None}]
  BY DEF YieldInv, Shapes
<1>6. /\ tag' \in [Tags -> Nat]
      /\ \A t \in Tags : tag'[t] = IF t \in DOMAIN Tagging(w) THEN Tagging(w)[t] ELSE tag[t]
  <2>1. tag \in Total(Tags, Nat) /\ Nat \subseteq Nat
    BY <1>5 DEF Total
  <2>2. /\ tag' \in Total(Tags, Nat)
        /\ \A t \in Tags : tag'[t] = IF t \in DOMAIN Tagging(w) THEN Tagging(w)[t] ELSE tag[t]
    BY <1>1, <1>4, <2>1, OverRows
  <2> QED
    BY <2>2 DEF Total
<1>7. /\ copy' \in [Copies -> CopyRows \cup {None}]
      /\ \A c \in Copies : copy'[c] = IF c \in DOMAIN Copying(w) THEN Copying(w)[c] ELSE copy[c]
  <2> DEFINE Z == CopyRows \cup {None}
  <2>1. CopyRows \subseteq Z /\ copy \in Total(Copies, Z)
    BY <1>5 DEF Total
  <2> HIDE DEF Z
  <2>2. /\ copy' \in Total(Copies, Z)
        /\ \A c \in Copies : copy'[c] = IF c \in DOMAIN Copying(w) THEN Copying(w)[c] ELSE copy[c]
    BY <1>1, <1>4, <2>1, OverRows
  <2> QED
    BY <2>2 DEF Z, Total
<1>8. /\ association' \in [Ids -> Rows \cup {None}]
      /\ \A i \in Ids : association'[i] = IF i \in DOMAIN Changes(w) THEN Changes(w)[i]
                                          ELSE association[i]
  <2> DEFINE Z == Rows \cup {None}
             f == Changes(w)
  <2>1. Z \subseteq Z /\ association \in Total(Ids, Z) /\ f \in Partial(Ids, Z)
        /\ association' = Over(f, association)
    BY <1>1, <1>4, <1>5 DEF Total
  <2> HIDE DEF Z, f
  <2>2. /\ association' \in Total(Ids, Z)
        /\ \A i \in Ids : association'[i] = IF i \in DOMAIN f THEN f[i] ELSE association[i]
    BY <2>1, OverRows
  <2> QED
    BY <2>2 DEF Z, f, Total
<1> QED
  BY <1>1, <1>2, <1>5, <1>6, <1>7, <1>8 DEF AllRows

\* What stays as it is, is seen as it was.
LEMMA SeenStays ==
    ASSUME YieldInv, PromiseInv, Sound(association', copy'), association' \in AllRows,
           copy' \in [Copies -> CopyRows \cup {None}]
    PROVE  /\ CopiesOf(association, copy) = copy /\ CopiesOf(association', copy') = copy'
<1>1. /\ copy = [c \in Copies |-> copy[c]] /\ copy' = [c \in Copies |-> copy'[c]]
      /\ Sound(association, copy)
  BY DEF YieldInv, Shapes, PromiseInv
<1> QED
  BY <1>1, CopiesSeen

\* The labels of the tags that a commit leaves alone.
LEMMA LabelsStay ==
    ASSUME NEW g, NEW f, \A t \in Tags : t # Owned => f[t] = g[t]
    PROVE  LabelsOf(f) = LabelsOf(g)
<1>1. \A t \in Intended \cup Locations : t \in Tags /\ t # Owned
  BY TagAssumption DEF Tags
<1> QED
  BY <1>1 DEF LabelsOf

Committed == Sound(association', copy') /\ Promise!Next

LEMMA TagCommits ==
    ASSUME YieldInv, PromiseInv, NEW w \in Workers, Commit(w),
           Asked(w).op \in {"createTag", "correctTag"}
    PROVE  Committed
<1> DEFINE r == Asked(w)
<1>1. /\ Busy(w) /\ r \in Requests /\ Written(w) /\ work[w].at = "commit"
  BY CommitRecords, BusyFacts DEF PromiseInv
<1>2. /\ DOMAIN Changes(w) = {} /\ DOMAIN Copying(w) = {}
      /\ DOMAIN Tagging(w) = {r.tag} /\ Tagging(w)[r.tag] = tag[r.tag] + 1 /\ r.tag # Owned
  BY <1>1 DEF Written, TagWritten
<1>3. r.tag \in Intended \cup Locations
  BY <1>1, <1>2, RequestAssumption DEF Tags
<1>4. association' = association /\ copy' = copy
  <2>1. (\A i \in Ids : association'[i] = association[i]) /\ (\A c \in Copies : copy'[c] = copy[c])
    BY <1>2, CommitRecords
  <2> QED
    BY <2>1, CommitRecords DEF AllRows
<1>5. Sound(association', copy')
  BY <1>4 DEF PromiseInv
<1>6. LabelsOf(tag') = [LabelsOf(tag) EXCEPT ![r.tag] = @ + 1]
  BY <1>2, <1>3, CommitRecords DEF LabelsOf, Tags
<1>7. Promise!TagNamed(LabelsOf(tag), LabelsOf(tag'))
  BY <1>3, <1>6 DEF Promise!TagNamed
<1>8. Promise!Next
  BY <1>4, <1>7, CommitRecords, PromisedBy
<1> QED
  BY <1>5, <1>8 DEF Committed

\* The tags stay, but for the one that owns copies.
LEMMA OtherTagsStay ==
    ASSUME YieldInv, PromiseInv, NEW w \in Workers, Commit(w),
           Asked(w).op \notin {"createTag", "correctTag"}
    PROVE  LabelsOf(tag') = LabelsOf(tag)
<1>1. DOMAIN Tagging(w) \subseteq {Owned}
  BY CommitRecords DEF PromiseInv, Written, TagWritten
<1>2. \A t \in Tags : t # Owned => tag'[t] = tag[t]
  BY <1>1, CommitRecords
<1> QED
  BY <1>2, LabelsStay

\* A change of what is asked for leaves the copies and their places alone.
LEMMA IntentCommits ==
    ASSUME YieldInv, PromiseInv, NEW w \in Workers, Commit(w),
           Asked(w).op \notin {"createTag", "correctTag"}, DOMAIN Copying(w) = {},
           \A i \in Ids : association'[i] # association[i] =>
              /\ Fits(association', copy', i)
              /\ association[i] # None => association[i].tag \in Intended
              /\ association'[i] # None => association'[i].tag \in Intended,
           Sound(association', copy') =>
              Promise!IntentChanged(IntentsOf(association), IntentsOf(association'))
    PROVE  Committed
<1>1. copy' = copy
  <2>1. \A c \in Copies : copy'[c] = copy[c]
    BY CommitRecords
  <2> QED
    BY <2>1, CommitRecords
<1>2. Sound(association', copy')
  <2>1. /\ \A i \in Ids : association'[i] # association[i] => Fits(association', copy', i)
        /\ \A i \in Ids : association'[i] # association[i] /\ association[i] # None =>
              association[i].tag # Owned
    BY TagAssumption
  <2>2. association \in AllRows /\ association' \in AllRows /\ Sound(association, copy)
    BY CommitRecords DEF PromiseInv
  <2> QED
    BY <1>1, <2>1, <2>2, SoundAfter
<1>3. CopiesOf(association', copy') = CopiesOf(association, copy)
  BY <1>1, <1>2, SeenStays, CommitRecords
<1>4. PlacesOf(association') = PlacesOf(association)
  <2>1. \A i \in Ids : \/ association[i] = association'[i]
                       \/ /\ association[i] # None => association[i].tag \notin Locations
                          /\ association'[i] # None => association'[i].tag \notin Locations
    BY TagAssumption
  <2> QED
    BY <2>1, PlacesStand
<1>5. Promise!Next
  BY <1>2, <1>3, <1>4, OtherTagsStay, CommitRecords, PromisedBy
<1> QED
  BY <1>2, <1>5 DEF Committed


LEMMA InsertCommits ==
    ASSUME YieldInv, PromiseInv, NEW w \in Workers, Commit(w), Asked(w).op = "insertAssociation"
    PROVE  Committed
<1> PICK t, x, q : t = Asked(w).tag /\ x = Asked(w).target /\ q = Asked(w).quantity
  OBVIOUS
<1>1. Busy(w) /\ Asked(w) \in Requests /\ Written(w) /\ work[w].at = "commit"
  BY CommitRecords, BusyFacts DEF PromiseInv
<1>2. /\ t \in Intended /\ x \in Targets /\ q \in 1 .. MaxQuantity
      /\ Row(t, x, q, 1) \in Rows /\ Row(t, x, q, 1) # None
  BY <1>1, RequestAssumption, TagAssumption DEF Row, Rows
<1>3. DOMAIN Copying(w) = {} /\ Naming(t, x) = {}
  BY <1>1 DEF Written, AssociationWritten
<1>4. PICK i \in Ids \ Stored : WroteRow(w, i, Row(t, x, q, 1))
  BY <1>1 DEF Written, AssociationWritten
<1>5. /\ association[i] = None /\ association'[i] = Row(t, x, q, 1)
      /\ \A j \in Ids \ {i} : association'[j] = association[j]
  BY <1>4, CommitRecords DEF WroteRow, Stored
<1>6. \A j \in Ids : ~Names(association, j, t, x)
  BY <1>3, SeenNow DEF NamedIn
<1>7. association'[i].tag = t /\ association'[i].target = x
  BY <1>5 DEF Row
<1>8. Fits(association', copy', i)
  BY <1>2, <1>5, <1>6, <1>7, TagAssumption DEF Fits, Rivals, Names
<1>9. ASSUME NEW j \in Ids, association'[j] # association[j]
      PROVE  /\ Fits(association', copy', j)
             /\ association[j] # None => association[j].tag \in Intended
             /\ association'[j] # None => association'[j].tag \in Intended
  <2>1. j = i
    BY <1>5, <1>9
  <2> QED
    BY <1>2, <1>5, <1>7, <1>8, <2>1
<1>10. Sound(association, copy)
  BY DEF PromiseInv
<1>11. Sound(association', copy') =>
          Promise!IntentChanged(IntentsOf(association), IntentsOf(association'))
  <2> SUFFICES ASSUME Sound(association', copy')
               PROVE  Promise!IntentChanged(IntentsOf(association), IntentsOf(association'))
    OBVIOUS
  <2> PICK a, b, k, m : a = association /\ b = association' /\ k = copy /\ m = copy'
    OBVIOUS
  <2>1. k = m
    BY <1>3, CommitRecords
  <2>2. Promise!IntentChanged(IntentsOf(a), IntentsOf(b))
    BY <1>2, <1>5, <1>6, <1>10, <2>1, InsertIntent
  <2> QED
    BY <2>2
<1> QED
  BY <1>3, <1>9, <1>11, IntentCommits

LEMMA CorrectCommits ==
    ASSUME YieldInv, PromiseInv, NEW w \in Workers, Commit(w), Asked(w).op = "correctAssociation"
    PROVE  Committed
<1> PICK i, x, q : i = Asked(w).id /\ x = Asked(w).target /\ q = Asked(w).quantity
  OBVIOUS
<1> PICK row : row = Advanced([association[i] EXCEPT !.target = x, !.quantity = q])
  OBVIOUS
<1>1. Busy(w) /\ Asked(w) \in Requests /\ Written(w) /\ work[w].at = "commit" /\ WorkerInv(w)
  BY CommitRecords, BusyFacts DEF PromiseInv
<1>2. /\ DOMAIN Copying(w) = {} /\ i \in Stored /\ Naming(association[i].tag, x) \subseteq {i}
      /\ WroteRow(w, i, row)
  BY <1>1 DEF Written, AssociationWritten
<1>3. i \in Ids /\ association[i] # None /\ association[i] \in Rows /\ association[i].tag \in Intended
  BY <1>1, <1>2, CommitRecords DEF Stored, AllRows, WorkerInv, NamedStays
<1>4. x \in Targets /\ q \in 1 .. MaxQuantity
  BY <1>1, RequestAssumption
<1>5. association'[i] = row /\ \A j \in Ids \ {i} : association'[j] = association[j]
  BY <1>2, <1>3, CommitRecords DEF WroteRow
<1>6. row # None /\ row.tag = association[i].tag /\ row.target = x
  <2>1. row \in Rows /\ row.tag = association[i].tag
    BY <1>3, <1>4, IntendedRow
  <2>2. row.target = x
    BY <1>3 DEF Advanced, Rows
  <2> QED
    BY <2>1, <2>2, TagAssumption
<1>7. \A j \in Ids : Names(association, j, association[i].tag, x) => j = i
  BY <1>2, SeenNow DEF NamedIn
<1>8. Fits(association', copy', i)
  BY <1>3, <1>5, <1>6, <1>7, TagAssumption DEF Fits, Rivals, Names
<1>9. ASSUME NEW j \in Ids, association'[j] # association[j]
      PROVE  /\ Fits(association', copy', j)
             /\ association[j] # None => association[j].tag \in Intended
             /\ association'[j] # None => association'[j].tag \in Intended
  <2>1. j = i
    BY <1>5, <1>9
  <2> QED
    BY <1>3, <1>5, <1>6, <1>8, <2>1
<1>10. Sound(association, copy)
  BY DEF PromiseInv
<1>11. Sound(association', copy') =>
          Promise!IntentChanged(IntentsOf(association), IntentsOf(association'))
  <2> SUFFICES ASSUME Sound(association', copy')
               PROVE  Promise!IntentChanged(IntentsOf(association), IntentsOf(association'))
    OBVIOUS
  <2> PICK a, b, k, m : a = association /\ b = association' /\ k = copy /\ m = copy'
    OBVIOUS
  <2>1. k = m
    BY <1>2, CommitRecords
  <2>2. Promise!IntentChanged(IntentsOf(a), IntentsOf(b))
    BY <1>3, <1>4, <1>5, <1>6, <1>7, <1>10, <2>1, CorrectIntent
  <2> QED
    BY <2>2
<1> QED
  BY <1>2, <1>9, <1>11, IntentCommits

LEMMA RemoveCommits ==
    ASSUME YieldInv, PromiseInv, NEW w \in Workers, Commit(w), Asked(w).op = "removeAssociation"
    PROVE  Committed
<1> PICK i : i = Asked(w).id
  OBVIOUS
<1>1. Busy(w) /\ Asked(w) \in Requests /\ Written(w) /\ work[w].at = "commit" /\ WorkerInv(w)
  BY CommitRecords, BusyFacts DEF PromiseInv
<1>2. DOMAIN Copying(w) = {} /\ i \in Stored /\ WroteRow(w, i, None)
  BY <1>1 DEF Written, AssociationWritten
<1>3. i \in Ids /\ association[i] # None /\ association[i] \in Rows /\ association[i].tag \in Intended
  BY <1>1, <1>2, CommitRecords DEF Stored, AllRows, WorkerInv, NamedStays
<1>4. association'[i] = None /\ \A j \in Ids \ {i} : association'[j] = association[j]
  BY <1>2, <1>3, CommitRecords DEF WroteRow
<1>5. ASSUME NEW j \in Ids, association'[j] # association[j]
      PROVE  /\ Fits(association', copy', j)
             /\ association[j] # None => association[j].tag \in Intended
             /\ association'[j] # None => association'[j].tag \in Intended
  <2>1. j = i
    BY <1>4, <1>5
  <2> QED
    BY <1>3, <1>4, <2>1 DEF Fits
<1>6. Promise!IntentChanged(IntentsOf(association), IntentsOf(association'))
  <2> PICK a, b, k : a = association /\ b = association' /\ k = copy
    OBVIOUS
  <2>1. Sound(a, k)
    BY DEF PromiseInv
  <2>2. Promise!IntentChanged(IntentsOf(a), IntentsOf(b))
    BY <1>3, <1>4, <2>1, RemoveIntent
  <2> QED
    BY <2>2
<1> QED
  BY <1>2, <1>5, <1>6, IntentCommits

LEMMA ConfirmCommits ==
    ASSUME YieldInv, PromiseInv, NEW w \in Workers, Commit(w), Asked(w).op = "confirm"
    PROVE  Committed
<1> PICK t, D : t = Asked(w).tag /\ D = DOMAIN Changes(w)
  OBVIOUS
<1>1. Busy(w) /\ Asked(w) \in Requests /\ Written(w) /\ work[w].at = "commit"
  BY CommitRecords, BusyFacts DEF PromiseInv
<1>2. /\ DOMAIN Copying(w) = {} /\ \A i \in D : Confirms(w, i)
      /\ \A i, j \in D : Changes(w)[i].target = Changes(w)[j].target => i = j
  BY <1>1 DEF Written, ConfirmWritten
<1>3. t \in Intended /\ D \in SUBSET Ids
  BY <1>1, RequestAssumption, TransactionChanges
<1>4. /\ \A i \in D : association'[i] = Changes(w)[i]
      /\ \A j \in Ids \ D : association'[j] = association[j]
  BY <1>3, CommitRecords
<1>5. ASSUME NEW i \in D
      PROVE  /\ Raised(association'[i], association[i], t)
             /\ \A j \in Ids : Names(association, j, t, association'[i].target) => j = i
  <2>1. Confirms(w, i) /\ association'[i] = Changes(w)[i]
    BY <1>2, <1>4
  <2>2. i \in Stored <=> association[i] # None
    BY <1>3 DEF Stored
  <2> QED
    BY <2>1, <2>2, SeenNow DEF Confirms, Raised, NamedIn
<1>6. ASSUME NEW i \in D PROVE Fits(association', copy', i)
  <2>1. association'[i] # None /\ association'[i].tag = t
    BY <1>5 DEF Raised
  <2>2. ASSUME NEW j \in Ids \ {i}, association'[j] # None, association'[j].tag = t,
               association'[j].target = association'[i].target
        PROVE  FALSE
    <3>1. CASE j \in D
      BY <1>2, <1>4, <2>2, <3>1
    <3>2. CASE j \notin D
      BY <1>4, <1>5, <2>2, <3>2 DEF Names
    <3> QED
      BY <3>1, <3>2
  <2> QED
    BY <1>3, <2>1, <2>2, TagAssumption DEF Fits, Rivals
<1>7. ASSUME NEW j \in Ids, association'[j] # association[j]
      PROVE  /\ Fits(association', copy', j)
             /\ association[j] # None => association[j].tag \in Intended
             /\ association'[j] # None => association'[j].tag \in Intended
  <2>1. j \in D
    BY <1>4, <1>7
  <2> QED
    BY <1>3, <1>5, <1>6, <2>1 DEF Raised
<1>8. Sound(association, copy)
  BY DEF PromiseInv
<1>9. Sound(association', copy') =>
          Promise!IntentChanged(IntentsOf(association), IntentsOf(association'))
  <2> SUFFICES ASSUME Sound(association', copy')
               PROVE  Promise!IntentChanged(IntentsOf(association), IntentsOf(association'))
    OBVIOUS
  <2> PICK a, b, k, m : a = association /\ b = association' /\ k = copy /\ m = copy'
    OBVIOUS
  <2>1. k = m /\ a \in AllRows /\ b \in AllRows
    BY <1>2, CommitRecords
  <2>2. Sound(a, k) /\ Sound(b, k)
    BY <1>8, <2>1
  <2>3. /\ \A j \in Ids \ D : b[j] = a[j]
        /\ \A i \in D : Raised(b[i], a[i], t)
        /\ \A i \in D, j \in Ids : Names(a, j, t, b[i].target) => j = i
    BY <1>4, <1>5
  <2>4. Promise!IntentChanged(IntentsOf(a), IntentsOf(b))
    BY <1>3, <2>1, <2>2, <2>3, ConfirmIntent
  <2> QED
    BY <2>4
<1> QED
  BY <1>2, <1>7, <1>9, IntentCommits


\* A copy that a commit writes over one that was there.
LEMMA CopyCommits ==
    ASSUME YieldInv, PromiseInv, NEW w \in Workers, Commit(w), NEW row,
           CopyWritten(w, row), Asked(w).copy \in Copies
    PROVE  /\ copy[Asked(w).copy] \in CopyRows
           /\ copy' = [copy EXCEPT ![Asked(w).copy] = row]
           /\ \A c \in Copies : copy[c] # None => copy'[c] # None
           /\ \A c \in Copies : copy[c] = None => copy'[c] = None
<1> PICK d : d = Asked(w).copy
  OBVIOUS
<1>1. copy[d] # None /\ DOMAIN Copying(w) = {d} /\ Copying(w)[d] = row
  BY DEF CopyWritten
<1>2. /\ copy \in [Copies -> CopyRows \cup {None}] /\ copy' \in [Copies -> CopyRows \cup {None}]
      /\ \A c \in Copies : copy'[c] = IF c = d THEN row ELSE copy[c]
  BY <1>1, CommitRecords
<1>3. copy' = [copy EXCEPT ![d] = row]
  BY <1>2
<1>4. copy'[d] # None
  <2>1. Copying(w) \in Partial(Copies, CopyRows)
    BY CommitRecords, TransactionChanges DEF Writtens, Copying
  <2>2. Copying(w)[d] \in CopyRows
    BY <1>1, <2>1 DEF Partial
  <2> QED
    BY <1>1, <1>2, <2>2, TagAssumption
<1> QED
  BY <1>1, <1>2, <1>3, <1>4

LEMMA CorrectionCommits ==
    ASSUME YieldInv, PromiseInv, NEW w \in Workers, Commit(w), Asked(w).op = "correctCopy"
    PROVE  Committed
<1> PICK d, p : d = Asked(w).copy /\ p = Asked(w).printing
  OBVIOUS
<1> PICK row : row = Advanced([copy[d] EXCEPT !.printing = p])
  OBVIOUS
<1>1. Busy(w) /\ Asked(w) \in Requests /\ Written(w) /\ work[w].at = "commit"
  BY CommitRecords, BusyFacts DEF PromiseInv
<1>2. d \in Copies /\ p \in Printings
  BY <1>1, RequestAssumption
<1>3. DOMAIN Changes(w) = {} /\ CopyWritten(w, row) /\ copy[d] # None
  BY <1>1 DEF Written, CorrectionWritten, CopyWritten
<1>4. association' = association
  <2>1. \A i \in Ids : association'[i] = association[i]
    BY <1>3, CommitRecords
  <2> QED
    BY <2>1, CommitRecords DEF AllRows
<1>5. /\ copy[d] \in CopyRows /\ copy' = [copy EXCEPT ![d] = row]
      /\ \A c \in Copies : copy[c] # None => copy'[c] # None
      /\ \A c \in Copies : copy[c] = None => copy'[c] = None
  BY <1>2, <1>3, CopyCommits
<1>6. Sound(association', copy')
  <2> PICK a, k, m : a = association /\ k = copy /\ m = copy'
    OBVIOUS
  <2>1. Sound(a, k) /\ a \in AllRows
    BY CommitRecords DEF PromiseInv
  <2>2. /\ \A c \in Copies : k[c] # None => m[c] # None
        /\ \A c \in Copies : ~(k[c] = None /\ m[c] # None)
    BY <1>5
  <2>3. Sound(a, m)
    BY <2>1, <2>2, SoundAfter
  <2> QED
    BY <1>4, <2>3
<1>7. CopiesOf(association, copy) = copy /\ CopiesOf(association', copy') = copy'
  BY <1>6, SeenStays, CommitRecords
<1>8. row = [printing |-> p, revision |-> copy[d].revision + 1]
  BY <1>5 DEF CopyRows, Advanced
<1>9. Promise!Corrected(copy, copy')
  BY <1>2, <1>3, <1>5, <1>8 DEF Promise!Corrected
<1>10. Promise!Next
  BY <1>1, <1>4, <1>7, <1>9, OtherTagsStay, CommitRecords, PromisedBy
<1> QED
  BY <1>6, <1>10 DEF Committed

\* One row of a place changes, or none.
LEMMA PlaceChanged ==
    ASSUME NEW a \in AllRows, NEW b \in AllRows, NEW k, Sound(a, k), Sound(b, k),
           NEW d \in Copies, NEW l \in Locations \cup {None},
           \A i \in Ids : b[i] # a[i] =>
              /\ a[i] # None => PlacesIt(a, i, d)
              /\ b[i] # None => PlacesIt(b, i, d),
           IF l = None THEN \A i \in Ids : ~PlacesIt(b, i, d)
           ELSE \E i \in Ids : PlacesIt(b, i, d) /\ b[i].tag = l
    PROVE  /\ PlacesOf(b) = [PlacesOf(a) EXCEPT ![d] = l]
           /\ IntentsOf(b) = IntentsOf(a)
<1>1. PlaceIn(b, d) = l
  <2>1. CASE l = None
    BY <2>1, PlaceNone
  <2>2. CASE l # None
    <3>1. PICK i \in Ids : PlacesIt(b, i, d) /\ b[i].tag = l
      BY <2>2
    <3> QED
      BY <3>1, PlaceNamed
  <2> QED
    BY <2>1, <2>2
<1>2. ASSUME NEW c \in Copies, c # d PROVE PlaceIn(b, c) = PlaceIn(a, c)
  <2>1. \A i \in Ids : a[i] = b[i] \/ (~PlacesIt(a, i, c) /\ ~PlacesIt(b, i, c))
    BY <1>2 DEF PlacesIt
  <2> QED
    BY <2>1, PlaceStands
<1>3. PlacesOf(b) = [PlacesOf(a) EXCEPT ![d] = l]
  BY <1>1, <1>2 DEF PlacesOf
<1>4. \A i \in Ids : \/ a[i] = b[i]
                     \/ /\ a[i] # None => a[i].tag \notin Intended
                        /\ b[i] # None => b[i].tag \notin Intended
  BY TagAssumption DEF PlacesIt
<1>5. IntentsOf(b) = IntentsOf(a)
  BY <1>4, IntentsStand
<1> QED
  BY <1>3, <1>5

LEMMA PlacedRow ==
    ASSUME NEW row \in [tag : Locations \cup {Owned}, target : Copies, quantity : {None},
                        revision : Nat \ {0}], NEW l \in Locations
    PROVE  /\ Advanced([row EXCEPT !.tag = l]) \in Rows
           /\ Advanced([row EXCEPT !.tag = l]).tag = l
           /\ Advanced([row EXCEPT !.tag = l]).target = row.target
<1>1. row.revision + 1 \in Nat \ {0}
  OBVIOUS
<1> QED
  BY <1>1 DEF Rows, Advanced

LEMMA MoveCommits ==
    ASSUME YieldInv, PromiseInv, NEW w \in Workers, Commit(w), Asked(w).op = "moveCopyLocation"
    PROVE  Committed
<1> PICK d, l : d = Asked(w).copy /\ l = Asked(w).place
  OBVIOUS
<1> PICK row : row = Advanced(copy[d])
  OBVIOUS
<1>1. Busy(w) /\ Asked(w) \in Requests /\ Written(w) /\ work[w].at = "commit"
  BY CommitRecords, BusyFacts DEF PromiseInv
<1>2. d \in Copies /\ l \in Locations \cup {None} /\ None \notin Locations
  BY <1>1, RequestAssumption, TagAssumption DEF Tags
<1>3. CopyWritten(w, row) /\ copy[d] # None
  BY <1>1 DEF Written, MoveWritten, CopyWritten
<1>4. /\ copy[d] \in CopyRows /\ copy' = [copy EXCEPT ![d] = row]
      /\ \A c \in Copies : copy[c] # None => copy'[c] # None
      /\ \A c \in Copies : copy[c] = None => copy'[c] = None
  BY <1>2, <1>3, CopyCommits
<1>5. row = [printing |-> copy[d].printing, revision |-> copy[d].revision + 1]
  BY <1>4 DEF CopyRows, Advanced
<1>6. /\ \/ Placing(d) = {} /\ l = None /\ DOMAIN Changes(w) = {}
         \/ /\ Placing(d) = {} /\ l # None
            /\ \E i \in Ids \ Stored : WroteRow(w, i, Row(l, d, None, 1))
         \/ \E i \in Placing(d) :
               /\ Placing(d) = {i}
               /\ WroteRow(w, i, IF l = None THEN None
                                 ELSE Advanced([association[i] EXCEPT !.tag = l]))
      /\ Placing(d) = PlacedIn(association, d)
  BY <1>1, SeenNow DEF Written, MoveWritten
<1> PICK a, b : a = association /\ b = association'
  OBVIOUS
<1>7. /\ a \in AllRows /\ b \in AllRows
      /\ \A i \in Ids : b[i] = IF i \in DOMAIN Changes(w) THEN Changes(w)[i] ELSE a[i]
  BY CommitRecords
<1>8. /\ \A i \in Ids : b[i] # a[i] =>
            /\ a[i] # None => PlacesIt(a, i, d)
            /\ b[i] # None => PlacesIt(b, i, d) /\ \A j \in Ids \ {i} : ~PlacesIt(b, j, d)
      /\ IF l = None THEN \A i \in Ids : ~PlacesIt(b, i, d)
         ELSE \E i \in Ids : PlacesIt(b, i, d) /\ b[i].tag = l
  <2>1. CASE Placing(d) = {} /\ l = None /\ DOMAIN Changes(w) = {}
    BY <1>6, <1>7, <2>1 DEF PlacedIn, PlacesIt
  <2>2. CASE /\ Placing(d) = {} /\ l # None
             /\ \E i \in Ids \ Stored : WroteRow(w, i, Row(l, d, None, 1))
    <3>1. PICK i \in Ids \ Stored : WroteRow(w, i, Row(l, d, None, 1))
      BY <2>2
    <3>2. /\ a[i] = None /\ b[i] = Row(l, d, None, 1) /\ \A j \in Ids \ {i} : b[j] = a[j]
      BY <1>7, <3>1 DEF WroteRow, Stored
    <3>3. b[i].tag = l /\ b[i].target = d /\ Row(l, d, None, 1) \in Rows
      BY <1>2, <2>2, <3>2 DEF Row, Rows
    <3>4. PlacesIt(b, i, d) /\ b[i].tag = l
      BY <1>2, <2>2, <3>2, <3>3, TagAssumption DEF PlacesIt
    <3>5. \A j \in Ids \ {i} : ~PlacesIt(b, j, d)
      BY <1>6, <2>2, <3>2 DEF PlacedIn, PlacesIt
    <3> QED
      BY <2>2, <3>2, <3>4, <3>5
  <2>3. CASE \E i \in Placing(d) :
                /\ Placing(d) = {i}
                /\ WroteRow(w, i, IF l = None THEN None
                                  ELSE Advanced([association[i] EXCEPT !.tag = l]))
    <3>1. PICK i \in Placing(d) :
              /\ Placing(d) = {i}
              /\ WroteRow(w, i, IF l = None THEN None
                                ELSE Advanced([association[i] EXCEPT !.tag = l]))
      BY <2>3
    <3>2. i \in Ids /\ PlacesIt(a, i, d) /\ \A j \in Ids \ {i} : ~PlacesIt(a, j, d)
      BY <1>6, <3>1 DEF PlacedIn
    <3>3. /\ b[i] = IF l = None THEN None ELSE Advanced([a[i] EXCEPT !.tag = l])
          /\ \A j \in Ids \ {i} : b[j] = a[j]
      BY <1>7, <3>1, <3>2 DEF WroteRow
    <3>4. \A j \in Ids \ {i} : ~PlacesIt(b, j, d)
      BY <3>2, <3>3 DEF PlacesIt
    <3>5. CASE l = None
      BY <3>2, <3>3, <3>4, <3>5 DEF PlacesIt
    <3>6. CASE l # None
      <4>1. a[i] \in Rows /\ a[i].target = d /\ a[i].tag \in Locations
        BY <1>7, <3>2 DEF PlacesIt, AllRows
      <4>2. a[i] \in [tag : Locations \cup {Owned}, target : Copies, quantity : {None},
                      revision : Nat \ {0}]
        BY <4>1, TagAssumption DEF Rows
      <4>3. b[i] \in Rows /\ b[i].tag = l /\ b[i].target = d
        BY <1>2, <3>3, <3>6, <4>1, <4>2, PlacedRow
      <4>4. PlacesIt(b, i, d)
        BY <1>2, <3>6, <4>3, TagAssumption DEF PlacesIt
      <4> QED
        BY <3>2, <3>3, <3>4, <3>6, <4>3, <4>4
    <3> QED
      BY <3>5, <3>6
  <2> QED
    BY <1>6, <2>1, <2>2, <2>3
<1>9. Sound(b, copy')
  <2> PICK k, m : k = copy /\ m = copy'
    OBVIOUS
  <2>1. Sound(a, k)
    BY DEF PromiseInv
  <2>2. ASSUME NEW i \in Ids, b[i] # a[i] PROVE Fits(b, m, i) /\ (a[i] # None => a[i].tag # Owned)
    <3>1. a[i] # None => a[i].tag # Owned
      BY <1>8, <2>2, TagAssumption DEF PlacesIt
    <3>2. ASSUME b[i] # None PROVE Fits(b, m, i)
      <4>1. b[i].tag \in Locations /\ b[i].target = d /\ m[d] # None
        BY <1>2, <1>3, <1>4, <1>8, <2>2, <3>2 DEF PlacesIt
      <4>2. ASSUME NEW j \in Ids \ {i}, b[j] # None, Rivals(b[i], b[j]) \/ Rivals(b[j], b[i])
            PROVE  FALSE
        <5>1. PlacesIt(b, j, d)
          BY <4>1, <4>2, TagAssumption DEF Rivals, PlacesIt
        <5> QED
          BY <1>8, <2>2, <3>2, <5>1
      <4> QED
        BY <4>1, <4>2 DEF Fits
    <3> QED
      BY <3>1, <3>2 DEF Fits
  <2>3. /\ \A c \in Copies : k[c] # None => m[c] # None
        /\ \A c \in Copies : ~(k[c] = None /\ m[c] # None)
    BY <1>4
  <2>4. Sound(b, m)
    BY <1>7, <2>1, <2>2, <2>3, SoundAfter
  <2> QED
    BY <2>4
<1>10. CopiesOf(association, copy) = copy /\ CopiesOf(association', copy') = copy'
  BY <1>9, SeenStays, CommitRecords
<1>11. PlacesOf(b) = [PlacesOf(a) EXCEPT ![d] = l] /\ IntentsOf(b) = IntentsOf(a)
  <2>1. Sound(a, copy) /\ Sound(b, copy)
    <3>1. \A c \in Copies : copy'[c] # None <=> copy[c] # None
      BY <1>4
    <3>2. \A i \in Ids : b[i] # None /\ b[i].tag \notin Intended => b[i].target \in Copies
      BY <1>7, RowKinds DEF AllRows
    <3> QED
      BY <1>9, <3>1, <3>2 DEF Sound, PromiseInv
  <2> QED
    BY <1>2, <1>7, <1>8, <2>1, PlaceChanged
<1>12. Promise!Moved(copy, copy', PlacesOf(association), PlacesOf(association'))
  <2>1. copy' = [copy EXCEPT ![d].revision = @ + 1]
    <3>1. [copy[d] EXCEPT !.revision = @ + 1] = row
      BY DEF Advanced
    <3> QED
      BY <1>4, <3>1
  <2> QED
    BY <1>2, <1>3, <1>11, <2>1 DEF Promise!Moved
<1>13. Promise!Next
  BY <1>1, <1>10, <1>11, <1>12, OtherTagsStay, CommitRecords, PromisedBy
<1> QED
  BY <1>9, <1>13 DEF Committed

LEMMA CopiesCommit ==
    ASSUME YieldInv, PromiseInv, NEW w \in Workers, Commit(w), Asked(w).op = "insertCopies"
    PROVE  Committed
<1> PICK d, p : d = Asked(w).copy /\ p = Asked(w).printing
  OBVIOUS
<1>1. Busy(w) /\ Asked(w) \in Requests /\ Written(w) /\ work[w].at = "commit"
  BY CommitRecords, BusyFacts DEF PromiseInv
<1>2. d \in Copies /\ p \in Printings
  BY <1>1, RequestAssumption
<1>3. /\ copy[d] = None /\ DOMAIN Copying(w) = {d}
      /\ Copying(w)[d] = [printing |-> p, revision |-> 1]
      /\ \E i \in Ids \ Stored : WroteRow(w, i, Row(Owned, d, None, 1))
  BY <1>1 DEF Written, CopiesWritten
<1>4. PICK i \in Ids \ Stored : WroteRow(w, i, Row(Owned, d, None, 1))
  BY <1>3
<1> PICK a, b : a = association /\ b = association'
  OBVIOUS
<1>5. /\ a[i] = None /\ b[i] = Row(Owned, d, None, 1) /\ \A j \in Ids \ {i} : b[j] = a[j]
      /\ a \in AllRows /\ b \in AllRows
  BY <1>4, CommitRecords DEF WroteRow, Stored
<1>6. b[i].tag = Owned /\ b[i].target = d /\ b[i] # None
  <2>1. Row(Owned, d, None, 1) \in Rows
    BY <1>2 DEF Row, Rows
  <2> QED
    BY <1>5, <2>1, TagAssumption DEF Row
<1>7. /\ copy' = [copy EXCEPT ![d] = [printing |-> p, revision |-> 1]]
      /\ copy'[d] # None /\ \A c \in Copies \ {d} : copy'[c] = copy[c]
  <2>1. /\ copy \in [Copies -> CopyRows \cup {None}] /\ copy' \in [Copies -> CopyRows \cup {None}]
        /\ \A c \in Copies : copy'[c] = IF c = d THEN [printing |-> p, revision |-> 1] ELSE copy[c]
    BY <1>3, CommitRecords
  <2>2. [printing |-> p, revision |-> 1] # None
    BY <1>2, TagAssumption DEF CopyRows
  <2> QED
    BY <1>2, <2>1, <2>2
<1>8. Sound(a, copy)
  BY DEF PromiseInv
<1>9. Sound(b, copy')
  <2>1. Fits(b, copy', i)
    <3>1. ASSUME NEW j \in Ids \ {i}, b[j] # None, Rivals(b[i], b[j]) \/ Rivals(b[j], b[i])
          PROVE  FALSE
      <4>1. a[j] # None /\ a[j].target = d /\ a[j].tag = Owned
        BY <1>5, <1>6, <3>1, TagAssumption DEF Rivals
      <4> QED
        BY <1>3, <1>8, <4>1, TagAssumption DEF Sound
    <3> QED
      BY <1>6, <1>7, <3>1 DEF Fits
  <2>2. Names(b, i, Owned, d)
    BY <1>6 DEF Names
  <2>3. /\ \A j \in Ids : b[j] # a[j] => Fits(b, copy', j)
        /\ \A j \in Ids : b[j] # a[j] /\ a[j] # None => a[j].tag # Owned
    BY <1>5, <2>1
  <2>4. /\ \A c \in Copies : copy[c] # None => copy'[c] # None
        /\ \A c \in Copies : copy[c] = None /\ copy'[c] # None => \E j \in Ids : Names(b, j, Owned, c)
    BY <1>3, <1>7, <2>2
  <2> QED
    BY <1>5, <1>8, <2>3, <2>4, SoundAfter
<1>10. CopiesOf(association, copy) = copy /\ CopiesOf(association', copy') = copy'
  BY <1>9, SeenStays, CommitRecords
<1>11. /\ IntentsOf(association') = IntentsOf(association)
       /\ PlacesOf(association') = PlacesOf(association)
  <2>1. /\ \A j \in Ids : \/ a[j] = b[j]
                          \/ /\ a[j] # None => a[j].tag \notin Intended
                             /\ b[j] # None => b[j].tag \notin Intended
        /\ \A j \in Ids : \/ a[j] = b[j]
                          \/ /\ a[j] # None => a[j].tag \notin Locations
                             /\ b[j] # None => b[j].tag \notin Locations
    BY <1>5, <1>6, TagAssumption
  <2> QED
    BY <2>1, IntentsStand, PlacesStand
<1>12. Promise!CopiesAdded(copy, copy')
  BY <1>2, <1>3, <1>7 DEF Promise!CopiesAdded
<1>13. Promise!Next
  BY <1>1, <1>10, <1>11, <1>12, OtherTagsStay, CommitRecords, PromisedBy
<1> QED
  BY <1>9, <1>13 DEF Committed

LEMMA Commits ==
    ASSUME YieldInv, PromiseInv, NEW w \in Workers, Commit(w) PROVE Committed
<1>1. Asked(w) \in Requests
  BY CommitRecords, BusyFacts
<1>2. Asked(w).op \in {"createTag", "correctTag", "insertAssociation", "correctAssociation",
                       "removeAssociation", "confirm", "moveCopyLocation", "correctCopy",
                       "insertCopies"}
  BY <1>1, RequestAssumption
<1>3. CASE Asked(w).op \in {"createTag", "correctTag"}
  BY <1>3, TagCommits
<1>4. CASE Asked(w).op = "insertAssociation"
  BY <1>4, InsertCommits
<1>5. CASE Asked(w).op = "correctAssociation"
  BY <1>5, CorrectCommits
<1>6. CASE Asked(w).op = "removeAssociation"
  BY <1>6, RemoveCommits
<1>7. CASE Asked(w).op = "confirm"
  BY <1>7, ConfirmCommits
<1>8. CASE Asked(w).op = "moveCopyLocation"
  BY <1>8, MoveCommits
<1>9. CASE Asked(w).op = "correctCopy"
  BY <1>9, CorrectionCommits
<1>10. CASE Asked(w).op = "insertCopies"
  BY <1>10, CopiesCommit
<1> QED
  BY <1>2, <1>3, <1>4, <1>5, <1>6, <1>7, <1>8, <1>9, <1>10

--------
(* The statements: what a transaction wrote stays the change it was asked  *)
(* for.                                                                    *)

LEMMA RowsStay ==
    ASSUME UNCHANGED association
    PROVE  /\ Stored' = Stored /\ \A t, x : Naming(t, x)' = Naming(t, x)
           /\ \A c : Placing(c)' = Placing(c)
BY DEF Stored, Naming, Placing

\* A transaction that another one's statement does not concern.
LEMMA WrittenStays ==
    ASSUME UNCHANGED <<tag, association, copy>>, NEW v \in Workers, Written(v),
           work'[v] = work[v], held'[v] = held[v]
    PROVE  Written(v)'
<1>1. /\ Asked(v)' = Asked(v) /\ Changes(v)' = Changes(v) /\ Copying(v)' = Copying(v)
      /\ Tagging(v)' = Tagging(v) /\ NextTarget(v)' = NextTarget(v)
  BY DEF Asked, Changes, Copying, Tagging, NextTarget
<1>2. TagWritten(v)'
  BY <1>1 DEF Written, TagWritten
<1>3. \A i, row : WroteRow(v, i, row)' <=> WroteRow(v, i, row)
  BY <1>1 DEF WroteRow
<1>4. AssociationWritten(v)'
  <2>1. AssociationWritten(v)
    BY DEF Written
  <2> QED
    BY <1>1, <1>3, <2>1, RowsStay DEF AssociationWritten
<1>5. ConfirmWritten(v)'
  <2>1. ConfirmWritten(v)
    BY DEF Written
  <2>2. \A i : Confirms(v, i)' <=> Confirms(v, i)
    BY <1>1, RowsStay DEF Confirms
  <2> QED
    BY <1>1, <2>1, <2>2, RowsStay DEF ConfirmWritten
<1>6. \A row : CopyWritten(v, row)' <=> CopyWritten(v, row)
  BY <1>1 DEF CopyWritten
<1>7. MoveWritten(v)'
  <2>1. MoveWritten(v)
    BY DEF Written
  <2> QED
    BY <1>1, <1>3, <1>6, <2>1, RowsStay DEF MoveWritten
<1>8. CorrectionWritten(v)'
  BY <1>1, <1>6 DEF Written, CorrectionWritten
<1>9. CopiesWritten(v)'
  <2>1. CopiesWritten(v)
    BY DEF Written
  <2> QED
    BY <1>1, <1>3, <2>1, RowsStay DEF CopiesWritten
<1> QED
  BY <1>2, <1>4, <1>5, <1>7, <1>8, <1>9 DEF Written

\* A statement of one transaction.
StatementOf(w) ==
    /\ work[w].at # "idle" /\ UNCHANGED <<tag, association, copy, loader>>
    /\ work'[w].request = Asked(w) /\ work'[w].at # "idle"
    /\ \A v \in Workers \ {w} : work'[v] = work[v] /\ held'[v] = held[v]

LEMMA StatementPromises ==
    ASSUME PromiseInv, NEW w \in Workers, StatementOf(w), Busy(w)' => Written(w)'
    PROVE  PromiseInv'
<1>1. Sound(association, copy)'
  BY DEF PromiseInv, StatementOf
<1>2. LoadsVerified'
  BY DEF PromiseInv, StatementOf, LoadsVerified
<1>3. \A v \in Workers : Asked(v)' = Asked(v) /\ (work'[v].at # "idle" => work[v].at # "idle")
  BY DEF StatementOf, Asked
<1>4. Composed'
  BY <1>3 DEF PromiseInv, Composed
<1>5. ASSUME NEW v \in Workers, v # w, Busy(v)' PROVE Written(v)'
  <2>1. Busy(v) /\ work'[v] = work[v] /\ held'[v] = held[v] /\ UNCHANGED <<tag, association, copy>>
    BY <1>5 DEF Busy, StatementOf
  <2> QED
    BY <2>1, WrittenStays DEF PromiseInv
<1> QED
  BY <1>1, <1>2, <1>4, <1>5 DEF PromiseInv

LEMMA TransactionFields ==
    ASSUME NEW t \in Transactions, NEW at, NEW written
    PROVE  LET u == [t EXCEPT !.at = at, !.written = written]
           IN  /\ u.at = at /\ u.request = t.request /\ u.written = written
               /\ u.targets = t.targets /\ u.found = t.found
BY DEF Transactions, TransactionRecords

LEMMA PlainFields ==
    ASSUME NEW t \in Transactions, NEW at
    PROVE  LET u == [t EXCEPT !.at = at]
           IN  /\ u.at = at /\ u.request = t.request /\ u.written = t.written
               /\ u.targets = t.targets /\ u.found = t.found
BY DEF Transactions, TransactionRecords

LEMMA WrittenParts ==
    ASSUME NEW wr \in Writtens, NEW f
    PROVE  /\ [wr EXCEPT !.tag = f].tag = f
           /\ [wr EXCEPT !.tag = f].association = wr.association
           /\ [wr EXCEPT !.tag = f].copy = wr.copy
           /\ [wr EXCEPT !.association = f].tag = wr.tag
           /\ [wr EXCEPT !.association = f].association = f
           /\ [wr EXCEPT !.association = f].copy = wr.copy
           /\ [wr EXCEPT !.copy = f].tag = wr.tag
           /\ [wr EXCEPT !.copy = f].association = wr.association
           /\ [wr EXCEPT !.copy = f].copy = f
           /\ [wr EXCEPT !.reference = f].tag = wr.tag
           /\ [wr EXCEPT !.reference = f].association = wr.association
           /\ [wr EXCEPT !.reference = f].copy = wr.copy
BY DEF Writtens

\* A transaction that ended wrote nothing that matters any more.
LEMMA EndPromises ==
    ASSUME YieldInv, PromiseInv, NEW w \in Workers, Busy(w), NEW outcome, Ends(w, outcome),
           UNCHANGED <<tag, association, copy, loader>>
    PROVE  PromiseInv'
<1>1. work[w] \in Transactions /\ work[w].at # "idle"
  BY BusyFacts
<1> DEFINE t == [work[w] EXCEPT !.at = "ended", !.outcome = outcome]
<1>2. t.at = "ended" /\ t.request = work[w].request
  BY <1>1 DEF Transactions, TransactionRecords
<1> HIDE DEF t
<1>3. /\ work'[w] = t /\ \A v \in Workers \ {w} : work'[v] = work[v] /\ held'[v] = held[v]
  BY DEF Ends, Becomes, YieldInv, Shapes, t
<1>4. StatementOf(w) /\ ~Busy(w)'
  BY <1>1, <1>2, <1>3 DEF StatementOf, Asked, Busy
<1> QED
  BY <1>4, StatementPromises

\* What a going transaction is, and how a statement leaves it.
LEMMA StatementFacts ==
    ASSUME YieldInv, PromiseInv, NEW w \in Workers, Busy(w), NEW t,
           work' = [work EXCEPT ![w] = t], t.request = work[w].request, t.at # "idle",
           \A v \in Workers \ {w} : held'[v] = held[v],
           UNCHANGED <<tag, association, copy, loader>>
    PROVE  /\ StatementOf(w) /\ Written(w) /\ work'[w] = t
           /\ Asked(w)' = Asked(w) /\ Asked(w) \in Requests
           /\ Stored' = Stored /\ (\A g, x : Naming(g, x)' = Naming(g, x))
           /\ \A c : Placing(c)' = Placing(c)
<1>1. /\ work'[w] = t /\ \A v \in Workers \ {w} : work'[v] = work[v] /\ held'[v] = held[v]
  BY DEF YieldInv, Shapes
<1>2. /\ work[w].at # "idle" /\ Asked(w) \in Requests
  BY BusyFacts
<1>3. StatementOf(w)
  BY <1>1, <1>2 DEF StatementOf, Asked
<1> QED
  BY <1>1, <1>2, <1>3, RowsStay DEF PromiseInv, Asked

\* Taking rows leaves the others' alone.
LEMMA OthersHold ==
    ASSUME YieldInv, NEW w \in Workers, NEW h, held' = [held EXCEPT ![w] = h]
    PROVE  held'[w] = h /\ \A v \in Workers \ {w} : held'[v] = held[v]
BY DEF YieldInv, Shapes


LEMMA OpenPromises ==
    ASSUME YieldInv, PromiseInv, NEW w \in Workers, NEW r \in Requests, Open(w, r), UNCHANGED loader
    PROVE  PromiseInv'
<1> DEFINE t == [at |-> First(r), request |-> r, written |-> NothingWritten,
                 refer |-> ReferencesOf(r),
                 targets |-> IF r.op = "confirm" THEN DOMAIN r.wanted ELSE {},
                 found |-> None, outcome |-> None]
<1>1. /\ work[w].at = "idle" /\ Admitted(r) /\ Unclaimed(r) /\ work' = [work EXCEPT ![w] = t]
      /\ UNCHANGED <<tag, association, copy, held, loader>>
  BY DEF Open, Becomes, tables
<1>2. /\ First(r) \in {"lock", "copy", "write"}
      /\ First(r) = "lock" <=> r.op \in Locking
      /\ First(r) = "copy" <=> r.op \in {"moveCopyLocation", "correctCopy"}
  BY RequestAssumption DEF First, Locking
<1>3. /\ t.at = First(r) /\ t.request = r /\ DOMAIN t.written.association = {}
      /\ DOMAIN t.written.copy = {} /\ DOMAIN t.written.tag = {}
  BY DEF NothingWritten
<1> HIDE DEF t
<1>4. /\ work'[w] = t /\ \A v \in Workers \ {w} : work'[v] = work[v] /\ held'[v] = held[v]
  BY <1>1 DEF YieldInv, Shapes
<1>5. /\ Asked(w)' = r /\ \A v \in Workers \ {w} : Asked(v)' = Asked(v)
  BY <1>3, <1>4 DEF Asked
<1>6. /\ DOMAIN Changes(w)' = {} /\ DOMAIN Copying(w)' = {} /\ DOMAIN Tagging(w)' = {}
  BY <1>3, <1>4 DEF Changes, Copying, Tagging
<1>7. TagWritten(w)'
  BY <1>1, <1>2, <1>3, <1>4, <1>5, <1>6 DEF TagWritten, Admitted
<1>8. AssociationWritten(w)' /\ ConfirmWritten(w)' /\ MoveWritten(w)' /\ CorrectionWritten(w)'
  BY <1>2, <1>3, <1>4, <1>5, <1>6
     DEF AssociationWritten, ConfirmWritten, MoveWritten, CorrectionWritten, Locking
<1>9. CopiesWritten(w)'
  BY <1>1, <1>2, <1>3, <1>4, <1>5, <1>6 DEF CopiesWritten, Admitted
<1>10. Written(w)'
  BY <1>7, <1>8, <1>9 DEF Written
<1>11. ASSUME NEW v \in Workers \ {w}, Busy(v)' PROVE Written(v)'
  <2>1. Busy(v) /\ work'[v] = work[v] /\ held'[v] = held[v]
    BY <1>4, <1>11 DEF Busy
  <2> QED
    BY <1>1, <2>1, WrittenStays DEF PromiseInv
<1>12. Composed'
  <2>1. ASSUME NEW u \in Workers, NEW v \in Workers, u # v, work'[u].at # "idle",
               work'[v].at # "idle", Asked(u)'.op = Asked(v)'.op
        PROVE  /\ Asked(v)'.op = "createTag" => Asked(u)'.tag # Asked(v)'.tag
               /\ Asked(v)'.op = "insertCopies" => Asked(u)'.copy # Asked(v)'.copy
    <3>1. CASE u # w /\ v # w
      BY <1>4, <1>5, <2>1, <3>1 DEF PromiseInv, Composed
    <3>2. CASE u = w
      BY <1>1, <1>4, <1>5, <2>1, <3>2 DEF Unclaimed
    <3>3. CASE v = w
      BY <1>1, <1>4, <1>5, <2>1, <3>3 DEF Unclaimed
    <3> QED
      BY <3>1, <3>2, <3>3
  <2> QED
    BY <2>1 DEF Composed
<1> QED
  BY <1>1, <1>10, <1>11, <1>12 DEF PromiseInv, LoadsVerified

LEMMA LockTagPromises ==
    ASSUME YieldInv, PromiseInv, NEW w \in Workers, LockTag(w), UNCHANGED loader
    PROVE  PromiseInv'
<1> DEFINE r == Asked(w)
           written == IF r.op = "insertCopies" /\ tag[Owned] = 0
                      THEN [work[w].written EXCEPT !.tag = Put(work[w].written.tag, Owned, 1)]
                      ELSE work[w].written
           t == [work[w] EXCEPT !.at = "refer", !.written = written]
<1>1. /\ work[w].at = "lock" /\ work' = [work EXCEPT ![w] = t]
      /\ \A v \in Workers \ {w} : held'[v] = held[v]
      /\ UNCHANGED <<tag, association, copy, loader>>
  BY OthersHold DEF LockTag, Takes, Writes, Becomes, tables
<1>2. Busy(w)
  BY <1>1 DEF Busy
<1>3. work[w] \in Transactions /\ work[w].written \in Writtens /\ r.op \in Locking
  BY <1>1, <1>2, BusyFacts, TransactionChanges DEF WorkerInv, Follows
<1>4. t.at = "refer" /\ t.request = work[w].request /\ t.written = written
  BY <1>3, TransactionFields
<1> HIDE DEF t
<1>5. /\ StatementOf(w) /\ Written(w) /\ work'[w] = t /\ Asked(w)' = r
  BY <1>1, <1>2, <1>4, StatementFacts
<1>6. /\ written.association = Changes(w) /\ written.copy = Copying(w)
      /\ DOMAIN written.tag \subseteq DOMAIN Tagging(w) \cup {Owned}
  BY <1>3, WrittenParts DEF Changes, Copying, Tagging, Put
<1>7. /\ Changes(w)' = Changes(w) /\ Copying(w)' = Copying(w)
      /\ DOMAIN Tagging(w)' \subseteq DOMAIN Tagging(w) \cup {Owned}
  BY <1>4, <1>5, <1>6 DEF Changes, Copying, Tagging
<1>8. TagWritten(w)'
  BY <1>3, <1>5, <1>7 DEF Written, TagWritten, Locking
<1>9. AssociationWritten(w)' /\ ConfirmWritten(w)' /\ MoveWritten(w)' /\ CorrectionWritten(w)'
  BY <1>1, <1>3, <1>4, <1>5, <1>7
     DEF Written, AssociationWritten, ConfirmWritten, MoveWritten, CorrectionWritten, Locking
<1>10. CopiesWritten(w)'
  BY <1>1, <1>4, <1>5, <1>7 DEF Written, CopiesWritten
<1> QED
  BY <1>5, <1>8, <1>9, <1>10, StatementPromises DEF Written

LEMMA StoreReferencePromises ==
    ASSUME YieldInv, PromiseInv, NEW w \in Workers, StoreReference(w), UNCHANGED loader
    PROVE  PromiseInv'
<1> DEFINE p == NextReference(w)
           written == IF p \in reference THEN work[w].written
                      ELSE [work[w].written EXCEPT !.reference = work[w].written.reference \cup {p}]
           t == Referring(work[w], work[w].refer \ {p}, written)
<1>1. /\ work[w].at = "refer" /\ work' = [work EXCEPT ![w] = t]
      /\ held' = [held EXCEPT ![w] = held[w] \cup (IF p \in reference THEN {} ELSE {ReferenceRow(p)})]
      /\ UNCHANGED <<tag, association, copy, loader>>
  BY DEF StoreReference, Takes, Becomes, tables, Referring
<1>2. Busy(w)
  BY <1>1 DEF Busy
<1>3. /\ work[w] \in Transactions /\ work[w].written \in Writtens
      /\ Asked(w).op \in Locking \cup {"correctCopy"}
  BY <1>1, <1>2, BusyFacts, TransactionChanges DEF WorkerInv, Follows
<1>4. t.at = "refer" /\ t.request = work[w].request /\ t.written = written
  BY <1>1, <1>3 DEF Referring, Transactions, TransactionRecords
<1> HIDE DEF t
<1>5. held[w] \subseteq held'[w] /\ \A v \in Workers \ {w} : held'[v] = held[v]
  BY <1>1, OthersHold
<1>6. /\ StatementOf(w) /\ Written(w) /\ work'[w] = t /\ Asked(w)' = Asked(w)
  BY <1>1, <1>2, <1>4, <1>5, StatementFacts
<1>7. written.association = Changes(w) /\ written.copy = Copying(w) /\ written.tag = Tagging(w)
  BY <1>3, WrittenParts DEF Changes, Copying, Tagging
<1>8. Changes(w)' = Changes(w) /\ Copying(w)' = Copying(w) /\ Tagging(w)' = Tagging(w)
  BY <1>4, <1>6, <1>7 DEF Changes, Copying, Tagging
<1>9. TagWritten(w)' /\ AssociationWritten(w)' /\ ConfirmWritten(w)' /\ MoveWritten(w)'
  BY <1>1, <1>3, <1>4, <1>6, <1>8
     DEF Written, TagWritten, AssociationWritten, ConfirmWritten, MoveWritten, Locking
<1>10. CorrectionWritten(w)'
  BY <1>1, <1>4, <1>5, <1>6, <1>8 DEF Written, CorrectionWritten, CopyWritten
<1>11. CopiesWritten(w)'
  BY <1>1, <1>4, <1>6, <1>8 DEF Written, CopiesWritten
<1> QED
  BY <1>6, <1>9, <1>10, <1>11, StatementPromises DEF Written

LEMMA ReferencesStoredPromises ==
    ASSUME YieldInv, PromiseInv, NEW w \in Workers, ReferencesStored(w), UNCHANGED loader
    PROVE  PromiseInv'
<1> DEFINE at == CASE Asked(w).op = "confirm" -> "read"
                   [] Asked(w).op = "correctCopy" -> "commit"
                   [] OTHER -> "write"
           t == [work[w] EXCEPT !.at = at]
<1>1. /\ work[w].at = "refer" /\ work' = [work EXCEPT ![w] = t]
      /\ UNCHANGED <<tag, association, copy, held, loader>>
  BY DEF ReferencesStored, Goes, Becomes, tables
<1>2. Busy(w)
  BY <1>1 DEF Busy
<1>3. work[w] \in Transactions /\ Asked(w).op \in Locking \cup {"correctCopy"}
  BY <1>1, <1>2, BusyFacts DEF WorkerInv, Follows
<1>4. t.at = at /\ t.request = work[w].request /\ t.written = work[w].written
  BY <1>3, PlainFields
<1>5. /\ at \in {"read", "commit", "write"} /\ (at = "commit" <=> Asked(w).op = "correctCopy")
      /\ at = "read" <=> Asked(w).op = "confirm"
  OBVIOUS
<1> HIDE DEF t, at
<1>6. /\ StatementOf(w) /\ Written(w) /\ work'[w] = t /\ Asked(w)' = Asked(w)
  BY <1>1, <1>2, <1>4, <1>5, StatementFacts
<1>7. /\ Changes(w)' = Changes(w) /\ Copying(w)' = Copying(w) /\ Tagging(w)' = Tagging(w)
      /\ work'[w].at = at
  BY <1>4, <1>6 DEF Changes, Copying, Tagging
<1>8. TagWritten(w)' /\ AssociationWritten(w)' /\ ConfirmWritten(w)' /\ MoveWritten(w)'
  BY <1>1, <1>3, <1>5, <1>6, <1>7
     DEF Written, TagWritten, AssociationWritten, ConfirmWritten, MoveWritten, Locking
<1>9. CorrectionWritten(w)'
  BY <1>1, <1>5, <1>6, <1>7 DEF Written, CorrectionWritten, CopyWritten
<1>10. CopiesWritten(w)'
  BY <1>1, <1>5, <1>6, <1>7 DEF Written, CopiesWritten
<1> QED
  BY <1>6, <1>8, <1>9, <1>10, StatementPromises DEF Written


\* A statement that only moves on.
LEMMA AtStatement ==
    ASSUME YieldInv, PromiseInv, NEW w \in Workers, Busy(w), NEW at, at # "idle", Goes(w, at),
           \A v \in Workers \ {w} : held'[v] = held[v], UNCHANGED <<tag, association, copy, loader>>
    PROVE  /\ StatementOf(w) /\ Written(w) /\ Asked(w)' = Asked(w) /\ work'[w].at = at
           /\ Changes(w)' = Changes(w) /\ Copying(w)' = Copying(w) /\ Tagging(w)' = Tagging(w)
           /\ work'[w].targets = work[w].targets /\ work'[w].found = work[w].found
<1> DEFINE t == [work[w] EXCEPT !.at = at]
<1>1. work' = [work EXCEPT ![w] = t]
  BY DEF Goes, Becomes
<1>2. /\ t.at = at /\ t.request = work[w].request /\ t.written = work[w].written
      /\ t.targets = work[w].targets /\ t.found = work[w].found
  BY BusyFacts, PlainFields
<1> HIDE DEF t
<1>3. /\ StatementOf(w) /\ Written(w) /\ work'[w] = t /\ Asked(w)' = Asked(w)
  BY <1>1, <1>2, StatementFacts
<1> QED
  BY <1>2, <1>3 DEF Changes, Copying, Tagging

\* A statement that writes one row of an association.
LEMMA RowStatement ==
    ASSUME YieldInv, PromiseInv, NEW w \in Workers, Busy(w), NEW at, at # "idle", NEW i, NEW row,
           Writes(w, at, [work[w].written EXCEPT
                             !.association = Put(work[w].written.association, i, row)]),
           \A v \in Workers \ {w} : held'[v] = held[v], UNCHANGED <<tag, association, copy, loader>>
    PROVE  /\ StatementOf(w) /\ Written(w) /\ Asked(w)' = Asked(w) /\ work'[w].at = at
           /\ Changes(w)' = Put(Changes(w), i, row)
           /\ Copying(w)' = Copying(w) /\ Tagging(w)' = Tagging(w)
           /\ DOMAIN Changes(w) = {} => WroteRow(w, i, row)'
<1> DEFINE f == Put(work[w].written.association, i, row)
           wr == [work[w].written EXCEPT !.association = f]
           t == [work[w] EXCEPT !.at = at, !.written = wr]
<1>1. work' = [work EXCEPT ![w] = t]
  BY DEF Writes, Becomes
<1> HIDE DEF f
<1>2. wr.association = f /\ wr.copy = Copying(w) /\ wr.tag = Tagging(w)
  BY TransactionChanges, WrittenParts DEF Copying, Tagging
<1> HIDE DEF wr
<1>3. t.at = at /\ t.request = work[w].request /\ t.written = wr
  BY BusyFacts, TransactionFields
<1> HIDE DEF t
<1>4. /\ StatementOf(w) /\ Written(w) /\ work'[w] = t /\ Asked(w)' = Asked(w)
  BY <1>1, <1>3, StatementFacts
<1>5. Changes(w)' = Put(Changes(w), i, row) /\ Copying(w)' = Copying(w) /\ Tagging(w)' = Tagging(w)
  BY <1>2, <1>3, <1>4 DEF Changes, Copying, Tagging, f
<1>6. DOMAIN Changes(w) = {} => DOMAIN Changes(w)' = {i} /\ (Changes(w)')[i] = row
  BY <1>5 DEF Put
<1> QED
  BY <1>3, <1>4, <1>5, <1>6 DEF WroteRow

\* A statement that writes the row of a copy.
CopyWrites(w, at, c, row) ==
    Writes(w, at, [work[w].written EXCEPT !.copy = Put(work[w].written.copy, c, row)])

LEMMA CopyStatement ==
    ASSUME YieldInv, PromiseInv, NEW w \in Workers, Busy(w), NEW at, at # "idle", NEW c, NEW row,
           CopyWrites(w, at, c, row),
           \A v \in Workers \ {w} : held'[v] = held[v], UNCHANGED <<tag, association, copy, loader>>
    PROVE  /\ StatementOf(w) /\ Written(w) /\ Asked(w)' = Asked(w) /\ work'[w].at = at
           /\ Changes(w)' = Changes(w) /\ Tagging(w)' = Tagging(w)
           /\ DOMAIN Copying(w) = {} => DOMAIN Copying(w)' = {c} /\ (Copying(w)')[c] = row
<1> DEFINE f == Put(work[w].written.copy, c, row)
           wr == [work[w].written EXCEPT !.copy = f]
           t == [work[w] EXCEPT !.at = at, !.written = wr]
<1>1. work' = [work EXCEPT ![w] = t]
  BY DEF CopyWrites, Writes, Becomes
<1> HIDE DEF f
<1>2. wr.association = Changes(w) /\ wr.copy = f /\ wr.tag = Tagging(w)
  BY TransactionChanges, WrittenParts DEF Changes, Tagging
<1> HIDE DEF wr
<1>3. t.at = at /\ t.request = work[w].request /\ t.written = wr
  BY BusyFacts, TransactionFields
<1> HIDE DEF t
<1>4. /\ StatementOf(w) /\ Written(w) /\ work'[w] = t /\ Asked(w)' = Asked(w)
  BY <1>1, <1>3, StatementFacts
<1>5. Changes(w)' = Changes(w) /\ Copying(w)' = Put(Copying(w), c, row) /\ Tagging(w)' = Tagging(w)
  BY <1>2, <1>3, <1>4 DEF Changes, Copying, Tagging, f
<1>6. DOMAIN Copying(w) = {} => DOMAIN Copying(w)' = {c} /\ (Copying(w)')[c] = row
  BY <1>5 DEF Put
<1> QED
  BY <1>3, <1>4, <1>5, <1>6

LEMMA ExplainsPromises ==
    ASSUME YieldInv, PromiseInv, NEW w \in Workers, Busy(w), Goes(w, "explain"),
           \/ work[w].at = "copy"
           \/ /\ work[w].at = "write"
              /\ Asked(w).op \in {"createTag", "correctTag", "correctAssociation", "removeAssociation"},
           UNCHANGED <<tag, association, copy, held, loader>>
    PROVE  PromiseInv'
<1>1. /\ StatementOf(w) /\ Written(w) /\ Asked(w)' = Asked(w) /\ work'[w].at = "explain"
      /\ Changes(w)' = Changes(w) /\ Copying(w)' = Copying(w) /\ Tagging(w)' = Tagging(w)
  BY AtStatement
<1>2. work[w].at = "copy" => Asked(w).op \in {"moveCopyLocation", "correctCopy"}
  BY BusyFacts DEF WorkerInv, Follows
<1>3. TagWritten(w)' /\ AssociationWritten(w)' /\ ConfirmWritten(w)' /\ MoveWritten(w)'
      /\ CorrectionWritten(w)' /\ CopiesWritten(w)'
  BY <1>1, <1>2
     DEF Written, TagWritten, AssociationWritten, ConfirmWritten, MoveWritten,
         CorrectionWritten, CopiesWritten
<1> QED
  BY <1>1, <1>3, StatementPromises DEF Written

LEMMA InsertAssociationPromises ==
    ASSUME YieldInv, PromiseInv, NEW w \in Workers, InsertAssociation(w), UNCHANGED loader
    PROVE  PromiseInv'
<1> DEFINE r == Asked(w)
           row == Row(r.tag, r.target, r.quantity, 1)
<1>1. work[w].at = "write" /\ r.op = "insertAssociation" /\ UNCHANGED <<tag, association, copy>>
  BY DEF InsertAssociation, tables
<1>2. Busy(w)
  BY <1>1 DEF Busy
<1>3. CASE Ends(w, "conflict")
  BY <1>1, <1>2, <1>3, EndPromises
<1>4. CASE /\ Naming(r.tag, r.target) = {}
           /\ Inserts(w, "commit", r.tag, r.target, r.quantity) /\ Takes(w, Needs(w))
  <2>1. /\ Writes(w, "commit", [work[w].written EXCEPT
                                  !.association = Put(work[w].written.association, issued + 1, row)])
        /\ issued < MaxIssued /\ \A v \in Workers \ {w} : held'[v] = held[v]
    BY <1>4, OthersHold DEF Inserts, Takes
  <2>2. issued + 1 \in Ids \ Stored
    BY <1>2, <2>1, BusyFacts DEF Ids
  <2> HIDE DEF row
  <2> PICK i, q, g : i = issued + 1 /\ q = row /\ g = r
    OBVIOUS
  <2>3. /\ StatementOf(w) /\ Written(w) /\ Asked(w)' = g /\ work'[w].at = "commit"
        /\ Copying(w)' = Copying(w) /\ Tagging(w)' = Tagging(w)
        /\ DOMAIN Changes(w) = {} => WroteRow(w, i, q)'
    BY <1>1, <1>2, <2>1, RowStatement
  <2>4. DOMAIN Changes(w) = {} /\ DOMAIN Copying(w) = {}
    BY <1>1, <2>3 DEF Written, AssociationWritten
  <2>5. Stored' = Stored
    BY <1>1, RowsStay
  <2>6. AssociationWritten(w)'
    <3>1. i \in Ids \ Stored' /\ WroteRow(w, i, Row(g.tag, g.target, g.quantity, 1))'
      BY <2>2, <2>3, <2>4, <2>5 DEF row
    <3>2. \A t, x : Naming(t, x)' = Naming(t, x)
      BY <1>1, RowsStay
    <3> QED
      BY <1>1, <1>4, <2>3, <2>4, <3>1, <3>2 DEF AssociationWritten
  <2>7. /\ TagWritten(w)' /\ ConfirmWritten(w)' /\ MoveWritten(w)' /\ CorrectionWritten(w)'
        /\ CopiesWritten(w)'
    BY <1>1, <2>3
       DEF Written, TagWritten, ConfirmWritten, MoveWritten, CorrectionWritten, CopiesWritten
  <2> QED
    BY <2>3, <2>6, <2>7, StatementPromises DEF Written
<1> QED
  BY <1>3, <1>4 DEF InsertAssociation

LEMMA CorrectAssociationPromises ==
    ASSUME YieldInv, PromiseInv, NEW w \in Workers, CorrectAssociation(w), UNCHANGED loader
    PROVE  PromiseInv'
<1>1. /\ work[w].at = "write" /\ Asked(w).op = "correctAssociation"
      /\ UNCHANGED <<tag, association, copy>>
  BY DEF CorrectAssociation, tables
<1>2. Busy(w)
  BY <1>1 DEF Busy
<1>3. CASE Goes(w, "key") /\ Takes(w, Needs(w))
  <2>1. \A v \in Workers \ {w} : held'[v] = held[v]
    BY <1>3, OthersHold DEF Takes
  <2>2. /\ StatementOf(w) /\ Written(w) /\ Asked(w)' = Asked(w) /\ work'[w].at = "key"
        /\ Changes(w)' = Changes(w) /\ Copying(w)' = Copying(w) /\ Tagging(w)' = Tagging(w)
    BY <1>1, <1>2, <1>3, <2>1, AtStatement
  <2>3. TagWritten(w)' /\ AssociationWritten(w)' /\ ConfirmWritten(w)' /\ MoveWritten(w)'
        /\ CorrectionWritten(w)' /\ CopiesWritten(w)'
    BY <1>1, <2>2
       DEF Written, TagWritten, AssociationWritten, ConfirmWritten, MoveWritten,
           CorrectionWritten, CopiesWritten
  <2> QED
    BY <2>2, <2>3, StatementPromises DEF Written
<1>4. CASE Goes(w, "explain") /\ UNCHANGED held
  BY <1>1, <1>2, <1>4, ExplainsPromises
<1> QED
  BY <1>3, <1>4 DEF CorrectAssociation

LEMMA ClaimKeyPromises ==
    ASSUME YieldInv, PromiseInv, NEW w \in Workers, ClaimKey(w), UNCHANGED loader
    PROVE  PromiseInv'
<1> DEFINE r == Asked(w)
           row == Advanced([association[r.id] EXCEPT !.target = r.target, !.quantity = r.quantity])
<1>1. work[w].at = "key" /\ UNCHANGED <<tag, association, copy>>
  BY DEF ClaimKey, tables
<1>2. Busy(w)
  BY <1>1 DEF Busy
<1>3. WorkerInv(w) /\ r.op = "correctAssociation"
  BY <1>1, <1>2, BusyFacts DEF WorkerInv, Follows
<1>4. CASE Ends(w, "violation")
  BY <1>1, <1>2, <1>4, EndPromises
<1>5. CASE ~NamedByAnother(r) /\ Updates(w, "commit", r.id, row) /\ Takes(w, Needs(w))
  <2>1. /\ Writes(w, "commit", [work[w].written EXCEPT
                                  !.association = Put(work[w].written.association, r.id, row)])
        /\ \A v \in Workers \ {w} : held'[v] = held[v]
    BY <1>5, OthersHold DEF Updates, Takes
  <2>2. r.id \in Stored
    <3>1. AssociationRow(r.id) \in held[w] /\ r.id \in Ids
      BY <1>1, <1>2, <1>3, BusyFacts DEF WorkerInv, ReadStill, NamedStays, Ids
    <3> QED
      BY <1>3, <3>1 DEF WorkerInv, RowsHeld
  <2> HIDE DEF row
  <2> PICK i, q, g : i = r.id /\ q = row /\ g = r
    OBVIOUS
  <2>3. /\ StatementOf(w) /\ Written(w) /\ Asked(w)' = g /\ work'[w].at = "commit"
        /\ Copying(w)' = Copying(w) /\ Tagging(w)' = Tagging(w)
        /\ DOMAIN Changes(w) = {} => WroteRow(w, i, q)'
    BY <1>1, <1>2, <2>1, RowStatement
  <2>4. DOMAIN Changes(w) = {} /\ DOMAIN Copying(w) = {}
    BY <1>1, <1>3, <2>3 DEF Written, AssociationWritten
  <2>5. /\ Stored' = Stored /\ \A t, x : Naming(t, x)' = Naming(t, x)
    BY <1>1, RowsStay
  <2>6. Naming(association[r.id].tag, r.target) \subseteq {r.id}
    BY <1>5 DEF NamedByAnother
  <2>7. AssociationWritten(w)'
    <3>1. WroteRow(w, i, q)' /\ association' = association
      BY <1>1, <2>3, <2>4
    <3>2. q = Advanced([association[g.id] EXCEPT !.target = g.target, !.quantity = g.quantity])
      BY DEF row
    <3>3. Naming(association[g.id].tag, g.target) \subseteq {g.id}
      BY <2>6
    <3>4. WroteRow(w, g.id, Advanced([association[g.id] EXCEPT !.target = g.target,
                                                               !.quantity = g.quantity]))'
      BY <3>1, <3>2 DEF WroteRow
    <3>5. Naming(association[g.id].tag, g.target)' \subseteq {g.id}
      BY <3>1, <3>3 DEF Naming, Stored
    <3> QED
      BY <1>3, <2>2, <2>3, <2>4, <2>5, <3>1, <3>4, <3>5 DEF AssociationWritten
  <2>8. /\ TagWritten(w)' /\ ConfirmWritten(w)' /\ MoveWritten(w)' /\ CorrectionWritten(w)'
        /\ CopiesWritten(w)'
    BY <1>3, <2>3
       DEF Written, TagWritten, ConfirmWritten, MoveWritten, CorrectionWritten, CopiesWritten
  <2> QED
    BY <2>3, <2>7, <2>8, StatementPromises DEF Written
<1> QED
  BY <1>4, <1>5 DEF ClaimKey

LEMMA RemoveAssociationPromises ==
    ASSUME YieldInv, PromiseInv, NEW w \in Workers, RemoveAssociation(w), UNCHANGED loader
    PROVE  PromiseInv'
<1> DEFINE r == Asked(w)
<1>1. work[w].at = "write" /\ r.op = "removeAssociation" /\ UNCHANGED <<tag, association, copy>>
  BY DEF RemoveAssociation, tables
<1>2. Busy(w)
  BY <1>1 DEF Busy
<1>3. CASE r.id \in Stored /\ Updates(w, "commit", r.id, None) /\ Takes(w, Needs(w))
  <2>1. /\ Writes(w, "commit", [work[w].written EXCEPT
                                  !.association = Put(work[w].written.association, r.id, None)])
        /\ \A v \in Workers \ {w} : held'[v] = held[v]
    BY <1>3, OthersHold DEF Updates, Takes
  <2> PICK i, g : i = r.id /\ g = r
    OBVIOUS
  <2>2. /\ StatementOf(w) /\ Written(w) /\ Asked(w)' = g /\ work'[w].at = "commit"
        /\ Copying(w)' = Copying(w) /\ Tagging(w)' = Tagging(w)
        /\ DOMAIN Changes(w) = {} => WroteRow(w, i, None)'
    BY <1>1, <1>2, <2>1, RowStatement
  <2>3. DOMAIN Changes(w) = {} /\ DOMAIN Copying(w) = {}
    BY <1>1, <2>2 DEF Written, AssociationWritten
  <2>4. Stored' = Stored
    BY <1>1, RowsStay
  <2>5. AssociationWritten(w)'
    BY <1>1, <1>3, <2>2, <2>3, <2>4 DEF AssociationWritten
  <2>6. /\ TagWritten(w)' /\ ConfirmWritten(w)' /\ MoveWritten(w)' /\ CorrectionWritten(w)'
        /\ CopiesWritten(w)'
    BY <1>1, <2>2
       DEF Written, TagWritten, ConfirmWritten, MoveWritten, CorrectionWritten, CopiesWritten
  <2> QED
    BY <2>2, <2>5, <2>6, StatementPromises DEF Written
<1>4. CASE Goes(w, "explain") /\ UNCHANGED held
  BY <1>1, <1>2, <1>4, ExplainsPromises
<1> QED
  BY <1>3, <1>4 DEF RemoveAssociation, Expected

LEMMA ExplainPromises ==
    ASSUME YieldInv, PromiseInv, NEW w \in Workers, Explain(w), UNCHANGED loader
    PROVE  PromiseInv'
<1>1. /\ work[w].at = "explain" /\ UNCHANGED <<tag, association, copy, loader>>
      /\ \E outcome : Ends(w, outcome)
  BY DEF Explain, tables
<1>2. Busy(w)
  BY <1>1 DEF Busy
<1> QED
  BY <1>1, <1>2, EndPromises

LEMMA RollBackPromises ==
    ASSUME YieldInv, PromiseInv, NEW w \in Workers, RollBack(w), UNCHANGED loader
    PROVE  PromiseInv'
BY EndPromises DEF RollBack, tables

LEMMA FindingFields ==
    ASSUME NEW t \in Transactions, NEW found
    PROVE  LET u == Finding(t, found)
           IN  /\ u.at = "add" /\ u.request = t.request /\ u.written = t.written
               /\ u.targets = t.targets /\ u.found = found
BY DEF Finding, Transactions, TransactionRecords

LEMMA AddingFields ==
    ASSUME NEW t \in Transactions, NEW targets, NEW written
    PROVE  LET u == Adding(t, targets, written)
           IN  /\ u.at = "read" /\ u.request = t.request /\ u.written = written
               /\ u.targets = targets
BY DEF Adding, Transactions, TransactionRecords

LEMMA ConfirmsStays ==
    ASSUME UNCHANGED association, NEW w \in Workers, NEW i, Confirms(w, i), Asked(w)' = Asked(w),
           (Changes(w)')[i] = Changes(w)[i], work'[w].targets \subseteq work[w].targets
    PROVE  Confirms(w, i)'
<1>1. \A t, x : Naming(t, x)' = Naming(t, x)
  BY RowsStay
<1> QED
  BY <1>1, RowsStay DEF Confirms

LEMMA ReadRequiredPromises ==
    ASSUME YieldInv, PromiseInv, NEW w \in Workers, ReadRequired(w), UNCHANGED loader
    PROVE  PromiseInv'
<1> DEFINE r == Asked(w)
           ids == Naming(r.tag, NextTarget(w))
           found == IF ids = {} THEN None ELSE association[CHOOSE i \in ids : TRUE].quantity
           t == Finding(work[w], found)
<1>1. work[w].at = "read" /\ UNCHANGED <<tag, association, copy, held, loader>>
  BY DEF ReadRequired, tables
<1>2. Busy(w)
  BY <1>1 DEF Busy
<1>3. work[w] \in Transactions /\ r.op = "confirm"
  BY <1>1, <1>2, BusyFacts DEF WorkerInv, Follows
<1>4. CASE Goes(w, "commit")
  <2>1. /\ StatementOf(w) /\ Written(w) /\ Asked(w)' = Asked(w) /\ work'[w].at = "commit"
        /\ Changes(w)' = Changes(w) /\ Copying(w)' = Copying(w) /\ Tagging(w)' = Tagging(w)
        /\ work'[w].targets = work[w].targets
    BY <1>1, <1>2, <1>4, AtStatement
  <2>2. \A i : Confirms(w, i) => Confirms(w, i)'
    BY <1>1, <2>1, ConfirmsStays
  <2>3. ConfirmWritten(w)'
    BY <1>3, <2>1, <2>2 DEF Written, ConfirmWritten
  <2>4. TagWritten(w)' /\ AssociationWritten(w)' /\ MoveWritten(w)' /\ CorrectionWritten(w)'
        /\ CopiesWritten(w)'
    BY <1>3, <2>1
       DEF Written, TagWritten, AssociationWritten, MoveWritten, CorrectionWritten, CopiesWritten
  <2> QED
    BY <2>1, <2>3, <2>4, StatementPromises DEF Written
<1>5. CASE Becomes(w, t)
  <2>1. \A i \in ids : found # None => association[i].quantity = found
    <3>1. \A i, j \in ids : i = j
      BY DEF Naming, Stored, PromiseInv, Sound, Rivals
    <3> QED
      BY <3>1
  <2> PICK q : q = found
    OBVIOUS
  <2> HIDE DEF found
  <2>2. /\ t.at = "add" /\ t.request = work[w].request /\ t.written = work[w].written
        /\ t.targets = work[w].targets /\ t.found = q
    BY <1>3, FindingFields
  <2>3. work' = [work EXCEPT ![w] = t]
    BY <1>5 DEF Becomes
  <2> HIDE DEF t
  <2>4. /\ StatementOf(w) /\ Written(w) /\ work'[w] = t /\ Asked(w)' = Asked(w)
    BY <1>1, <1>2, <2>2, <2>3, StatementFacts
  <2>5. /\ Changes(w)' = Changes(w) /\ Copying(w)' = Copying(w) /\ Tagging(w)' = Tagging(w)
        /\ NextTarget(w)' = NextTarget(w) /\ work'[w].targets = work[w].targets
        /\ work'[w].at = "add" /\ work'[w].found = q
    BY <2>2, <2>4 DEF Changes, Copying, Tagging, NextTarget
  <2>6. \A i : Confirms(w, i) => Confirms(w, i)'
    BY <1>1, <2>4, <2>5, ConfirmsStays
  <2>7. q # None => \A i \in ids' : association'[i].quantity = q
    <3>1. \A g, x : Naming(g, x)' = Naming(g, x)
      BY <1>1, RowsStay
    <3> QED
      BY <1>1, <2>1, <2>4, <2>5, <3>1
  <2>8. ConfirmWritten(w)'
    BY <1>3, <2>4, <2>5, <2>6, <2>7 DEF Written, ConfirmWritten
  <2>9. TagWritten(w)' /\ AssociationWritten(w)' /\ MoveWritten(w)' /\ CorrectionWritten(w)'
        /\ CopiesWritten(w)'
    BY <1>3, <2>4, <2>5
       DEF Written, TagWritten, AssociationWritten, MoveWritten, CorrectionWritten, CopiesWritten
  <2> QED
    BY <2>4, <2>8, <2>9, StatementPromises DEF Written
<1> QED
  BY <1>4, <1>5 DEF ReadRequired, Finding

\* A confirmation writes the row of its next target.
LEMMA AddsPromises ==
    ASSUME YieldInv, PromiseInv, NEW w \in Workers, work[w].at = "add", NEW i, NEW row,
           Added(w, i, row), \A v \in Workers \ {w} : held'[v] = held[v],
           UNCHANGED <<tag, association, copy, loader>>,
           row # None, row.tag = Asked(w).tag, row.target \in work[w].targets,
           row.target = NextTarget(w), Naming(row.tag, row.target) \subseteq {i},
           i \notin Stored => row.revision = 1,
           i \in Stored =>
              /\ association[i].tag = row.tag /\ association[i].target = row.target
              /\ row.revision = association[i].revision + 1 /\ row.quantity > association[i].quantity
    PROVE  PromiseInv'
<1> DEFINE r == Asked(w)
           f == Put(work[w].written.association, i, row)
           written == WithRows(w, f)
           targets == work[w].targets \ {NextTarget(w)}
           t == Adding(work[w], targets, written)
<1>1. Busy(w)
  BY DEF Busy
<1>2. /\ work[w] \in Transactions /\ work[w].written \in Writtens /\ r.op = "confirm"
      /\ work[w].targets \subseteq DOMAIN r.wanted
  BY <1>1, BusyFacts, TransactionChanges DEF WorkerInv, Follows, Transactions, Asked
<1>3. /\ DOMAIN f = DOMAIN Changes(w) \cup {i} /\ f[i] = row
      /\ \A j \in DOMAIN Changes(w) \ {i} : f[j] = Changes(w)[j]
  BY DEF Put, Changes
<1> HIDE DEF f
<1>4. written.association = f /\ written.copy = Copying(w) /\ written.tag = Tagging(w)
  BY <1>2, WrittenParts DEF WithRows, Copying, Tagging
<1> HIDE DEF written
<1>5. /\ t.at = "read" /\ t.request = work[w].request /\ t.written = written
      /\ t.targets = targets
  BY <1>2, AddingFields
<1>6. work' = [work EXCEPT ![w] = t]
  BY DEF Added, written, f
<1> HIDE DEF t
<1>7. /\ StatementOf(w) /\ Written(w) /\ work'[w] = t /\ Asked(w)' = r
  BY <1>1, <1>5, <1>6, StatementFacts
<1>8. /\ Changes(w)' = f /\ Copying(w)' = Copying(w) /\ Tagging(w)' = Tagging(w)
      /\ work'[w].at = "read" /\ work'[w].targets = targets
  BY <1>4, <1>5, <1>7 DEF Changes, Copying, Tagging
<1>9. ConfirmWritten(w)
  BY <1>7 DEF Written
<1>10. Confirms(w, i)'
  <2>1. \A g, x : Naming(g, x)' = Naming(g, x)
    BY RowsStay
  <2>2. Stored' = Stored /\ (Changes(w)')[i] = row
    BY <1>3, <1>8, RowsStay
  <2>3. row.target \in DOMAIN r.wanted \ targets
    BY <1>2
  <2> QED
    BY <1>7, <1>8, <2>1, <2>2, <2>3 DEF Confirms
<1>11. ASSUME NEW j \in DOMAIN Changes(w) \ {i} PROVE Confirms(w, j)'
  <2>1. Confirms(w, j) /\ (Changes(w)')[j] = Changes(w)[j] /\ work'[w].targets \subseteq work[w].targets
    BY <1>2, <1>3, <1>8, <1>9 DEF ConfirmWritten
  <2> QED
    BY <1>7, <2>1, ConfirmsStays
<1>12. \A j \in DOMAIN Changes(w) : Changes(w)[j].target \notin work[w].targets
  BY <1>2, <1>9 DEF ConfirmWritten, Confirms
<1>13. \A j, k \in DOMAIN f : f[j].target = f[k].target => j = k
  BY <1>2, <1>3, <1>9, <1>12 DEF ConfirmWritten
<1>14. ConfirmWritten(w)'
  <2>1. \A j \in DOMAIN Changes(w)' : Confirms(w, j)'
    BY <1>3, <1>8, <1>10, <1>11
  <2> QED
    BY <1>2, <1>7, <1>8, <1>9, <1>13, <2>1 DEF ConfirmWritten
<1>15. TagWritten(w)' /\ AssociationWritten(w)' /\ MoveWritten(w)' /\ CorrectionWritten(w)'
       /\ CopiesWritten(w)'
  BY <1>2, <1>7, <1>8
     DEF Written, TagWritten, AssociationWritten, MoveWritten, CorrectionWritten, CopiesWritten
<1> QED
  BY <1>7, <1>14, <1>15, StatementPromises DEF Written

LEMMA RaisedRow ==
    ASSUME NEW row \in [tag : Intended, target : Targets, quantity : 1 .. MaxQuantity,
                        revision : Nat \ {0}], NEW q \in 1 .. MaxQuantity
    PROVE  LET u == Advanced([row EXCEPT !.quantity = q])
           IN  /\ u # None /\ u.tag = row.tag /\ u.target = row.target /\ u.quantity = q
               /\ u.revision = row.revision + 1
<1>1. row.revision + 1 \in Nat \ {0}
  OBVIOUS
<1>2. Advanced([row EXCEPT !.quantity = q]) \in Rows
  BY <1>1 DEF Advanced, Rows
<1>3. LET u == Advanced([row EXCEPT !.quantity = q])
      IN  /\ u.tag = row.tag /\ u.target = row.target /\ u.quantity = q
          /\ u.revision = row.revision + 1
  BY DEF Advanced
<1> QED
  BY <1>2, <1>3, TagAssumption

LEMMA AddRequiredPromises ==
    ASSUME YieldInv, PromiseInv, NEW w \in Workers, AddRequired(w), UNCHANGED loader
    PROVE  PromiseInv'
<1> DEFINE r == Asked(w)
           x == NextTarget(w)
           ids == Naming(r.tag, x)
           quantity == (IF work[w].found = None THEN 0 ELSE work[w].found) + r.wanted[x]
<1>1. work[w].at = "add" /\ UNCHANGED <<tag, association, copy, loader>>
  BY DEF AddRequired, tables
<1>2. Busy(w)
  BY <1>1 DEF Busy
<1>3. /\ work[w] \in Transactions /\ WorkerInv(w) /\ r \in Requests /\ r.op = "confirm"
      /\ association \in [Ids -> Rows \cup {None}]
  BY <1>1, <1>2, BusyFacts DEF WorkerInv, Follows
<1>4. r.tag \in Intended
  BY <1>3, RequestAssumption
<1>5. /\ x \in work[w].targets /\ r.wanted[x] \in 1 .. MaxQuantity
      /\ work[w].found \in 1 .. MaxQuantity \cup {None}
  <2>1. /\ work[w].targets \in SUBSET Targets /\ work[w].targets # {}
        /\ work[w].targets \subseteq DOMAIN r.wanted
    BY <1>1, <1>3 DEF WorkerInv, Follows, Transactions, TransactionRecords, Asked
  <2>2. work[w].targets \in SUBSET Nat
    BY <2>1, AccountAssumption
  <2>3. x \in work[w].targets
    BY <2>1, <2>2, LeastOf DEF NextTarget
  <2>4. work[w].found \in 1 .. MaxQuantity \cup {None}
    BY <1>3 DEF Transactions, TransactionRecords
  <2> QED
    BY <1>3, <2>1, <2>3, <2>4, RequestAssumption
<1>6. quantity \in Nat /\ quantity >= 1 /\ (work[w].found # None => quantity > work[w].found)
  BY <1>5, AccountAssumption
<1>7. CASE \E outcome : Ends(w, outcome)
  BY <1>1, <1>2, <1>7, EndPromises
<1>8. CASE /\ quantity <= MaxQuantity /\ work[w].found = None /\ issued < MaxIssued
           /\ Added(w, issued + 1, Row(r.tag, x, quantity, 1)) /\ Takes(w, Needs(w))
  <2> PICK i, row : i = issued + 1 /\ row = Row(r.tag, x, quantity, 1)
    OBVIOUS
  <2>1. /\ row.tag = r.tag /\ row.target = x /\ row.revision = 1 /\ row \in Rows
    BY <1>4, <1>5, <1>6, <1>8, <1>3, AccountAssumption, BusyFacts, <1>2 DEF Row, Rows
  <2>2. row # None /\ i \notin Stored /\ ids = {}
    BY <1>1, <1>2, <1>3, <1>8, <2>1, TagAssumption, BusyFacts DEF WorkerInv, ReadStill
  <2>3. \A v \in Workers \ {w} : held'[v] = held[v]
    BY <1>8, OthersHold DEF Takes
  <2>4. Added(w, i, row)
    BY <1>8
  <2> QED
    BY <1>1, <1>5, <2>1, <2>2, <2>3, <2>4, AddsPromises
<1>9. CASE /\ quantity <= MaxQuantity /\ work[w].found # None /\ ids # {}
           /\ LET i == CHOOSE i \in ids : TRUE
              IN  Added(w, i, Advanced([association[i] EXCEPT !.quantity = quantity]))
           /\ Takes(w, Needs(w))
  <2> PICK i, q : i = (CHOOSE j \in ids : TRUE) /\ q = quantity
    OBVIOUS
  <2> PICK row : row = Advanced([association[i] EXCEPT !.quantity = q])
    OBVIOUS
  <2>1. i \in ids /\ i \in Stored /\ i \in Ids /\ association[i].tag = r.tag /\ association[i].target = x
    BY <1>9 DEF Naming, Stored
  <2>2. association[i] \in [tag : Intended, target : Targets, quantity : 1 .. MaxQuantity,
                            revision : Nat \ {0}]
    BY <1>3, <1>4, <2>1, TagAssumption DEF Rows, Stored
  <2>3. q \in 1 .. MaxQuantity
    BY <1>6, <1>9, AccountAssumption
  <2>4. /\ row # None /\ row.tag = r.tag /\ row.target = x /\ row.quantity = q
        /\ row.revision = association[i].revision + 1
    BY <2>1, <2>2, <2>3, RaisedRow
  <2>5. association[i].quantity = work[w].found
    BY <1>1, <1>2, <1>3, <1>9, <2>1 DEF PromiseInv, Written, ConfirmWritten
  <2>6. Naming(row.tag, row.target) \subseteq {i}
    <3>1. ASSUME NEW j \in Naming(row.tag, row.target) PROVE j = i
      BY <2>1, <2>4 DEF Naming, Stored, PromiseInv, Sound, Rivals
    <3> QED
      BY <3>1
  <2>7. \A v \in Workers \ {w} : held'[v] = held[v]
    BY <1>9, OthersHold DEF Takes
  <2>8. Added(w, i, row)
    BY <1>9
  <2>9. row.quantity > association[i].quantity
    BY <1>6, <1>9, <2>4, <2>5
  <2> QED
    BY <1>1, <1>5, <2>1, <2>4, <2>6, <2>7, <2>8, <2>9, AddsPromises
<1>10. \/ \E outcome : Ends(w, outcome)
       \/ /\ ~(quantity > MaxQuantity) /\ work[w].found = None /\ issued < MaxIssued
          /\ Added(w, issued + 1, Row(r.tag, x, quantity, 1)) /\ Takes(w, Needs(w))
       \/ /\ ~(quantity > MaxQuantity) /\ work[w].found # None /\ ids # {}
          /\ LET i == CHOOSE i \in ids : TRUE
             IN  Added(w, i, Advanced([association[i] EXCEPT !.quantity = quantity]))
          /\ Takes(w, Needs(w))
  BY DEF AddRequired, Becomes, Added, Adding, WithRows
<1>11. quantity > MaxQuantity \/ quantity <= MaxQuantity
  BY <1>6, AccountAssumption
<1>12. quantity <= MaxQuantity => ~(quantity > MaxQuantity)
  BY <1>6, AccountAssumption
<1>13. ~(quantity > MaxQuantity) => quantity <= MaxQuantity
  BY <1>11
<1> HIDE DEF quantity
<1> QED
  BY <1>7, <1>8, <1>9, <1>10, <1>13

LEMMA TakesRows ==
    ASSUME YieldInv, NEW w \in Workers, NEW rows, Takes(w, rows)
    PROVE  held'[w] = held[w] \cup rows /\ \A v \in Workers \ {w} : held'[v] = held[v]
BY DEF YieldInv, Shapes, Takes

LEMMA UpdateCopyPromises ==
    ASSUME YieldInv, PromiseInv, NEW w \in Workers, UpdateCopy(w), UNCHANGED loader
    PROVE  PromiseInv'
<1> DEFINE r == Asked(w)
           corrected == IF r.op = "correctCopy" THEN [copy[r.copy] EXCEPT !.printing = r.printing]
                        ELSE copy[r.copy]
           at == IF r.op = "correctCopy" THEN "refer" ELSE "write"
<1>1. work[w].at = "copy" /\ UNCHANGED <<tag, association, copy, loader>>
  BY DEF UpdateCopy, tables
<1>2. Busy(w)
  BY <1>1 DEF Busy
<1>3. r.op \in {"moveCopyLocation", "correctCopy"}
  BY <1>1, <1>2, BusyFacts DEF WorkerInv, Follows
<1>4. CASE Goes(w, "explain") /\ UNCHANGED held
  BY <1>1, <1>2, <1>4, ExplainsPromises
<1>5. CASE /\ copy[r.copy] # None /\ Takes(w, Needs(w))
           /\ Writes(w, at, [work[w].written EXCEPT
                                !.copy = Put(work[w].written.copy, r.copy, Advanced(corrected))])
  <2> PICK c, row, g : c = r.copy /\ row = Advanced(corrected) /\ g = r
    OBVIOUS
  <2>1. /\ row = IF g.op = "correctCopy" THEN Advanced([copy[c] EXCEPT !.printing = g.printing])
                 ELSE Advanced(copy[c])
    OBVIOUS
  <2>2. /\ \A v \in Workers \ {w} : held'[v] = held[v]
        /\ CopyRow(c) \in held'[w]
    <3>1. Needs(w) = {CopyRow(r.copy)}
      BY <1>1 DEF Needs
    <3> QED
      BY <1>5, <3>1, TakesRows
  <2>3. CopyWrites(w, at, c, row)
    BY <1>5 DEF CopyWrites
  <2> at # "idle"
    OBVIOUS
  <2> HIDE DEF corrected, at
  <2>4. /\ StatementOf(w) /\ Written(w) /\ Asked(w)' = g /\ work'[w].at = at
        /\ Changes(w)' = Changes(w) /\ Tagging(w)' = Tagging(w)
        /\ DOMAIN Copying(w) = {} => DOMAIN Copying(w)' = {c} /\ (Copying(w)')[c] = row
    <3>1. /\ UNCHANGED <<tag, association, copy, loader>> /\ w \in Workers
          /\ YieldInv /\ PromiseInv /\ \A v \in Workers \ {w} : held'[v] = held[v]
      BY <1>1, <2>2
    <3>2. /\ StatementOf(w) /\ Written(w) /\ Asked(w)' = Asked(w) /\ work'[w].at = at
          /\ Changes(w)' = Changes(w) /\ Tagging(w)' = Tagging(w)
          /\ DOMAIN Copying(w) = {} => DOMAIN Copying(w)' = {c} /\ (Copying(w)')[c] = row
      BY ONLY at # "idle", <1>2, <2>3, <3>1, CopyStatement
    <3> QED
      BY <3>2
  <2>5. DOMAIN Copying(w) = {}
    BY <1>1, <1>3, <2>4 DEF Written, MoveWritten, CorrectionWritten
  <2>6. CopyWritten(w, row)'
    BY <1>1, <1>5, <2>2, <2>4, <2>5 DEF CopyWritten
  <2>7. MoveWritten(w)'
    <3>1. r.op = "moveCopyLocation" => CopyWritten(w, Advanced(copy[c]))' /\ at = "write"
      BY <1>1, <2>1, <2>6 DEF CopyWritten, at
    <3> QED
      BY <1>1, <2>4, <3>1 DEF Written, MoveWritten
  <2>8. CorrectionWritten(w)'
    <3>1. r.op = "correctCopy" =>
             CopyWritten(w, Advanced([copy[c] EXCEPT !.printing = g.printing]))' /\ at = "refer"
      BY <1>1, <2>1, <2>6 DEF CopyWritten, at
    <3> QED
      BY <1>1, <2>4, <3>1 DEF Written, CorrectionWritten
  <2>9. TagWritten(w)' /\ AssociationWritten(w)' /\ ConfirmWritten(w)' /\ CopiesWritten(w)'
    BY <1>3, <2>4 DEF Written, TagWritten, AssociationWritten, ConfirmWritten, CopiesWritten
  <2> QED
    BY <2>4, <2>7, <2>8, <2>9, StatementPromises DEF Written
<1> QED
  BY <1>4, <1>5 DEF UpdateCopy

LEMMA MoveLocationPromises ==
    ASSUME YieldInv, PromiseInv, NEW w \in Workers, MoveLocation(w), UNCHANGED loader
    PROVE  PromiseInv'
<1> DEFINE r == Asked(w)
<1>1. /\ work[w].at = "write" /\ r.op = "moveCopyLocation" /\ Takes(w, Needs(w))
      /\ UNCHANGED <<tag, association, copy, loader>>
  BY DEF MoveLocation, tables
<1>2. Busy(w)
  BY <1>1 DEF Busy
<1>3. /\ \A v \in Workers \ {w} : held'[v] = held[v]
      /\ held[w] \subseteq held'[w]
  BY <1>1, TakesRows
<1>4. /\ Stored' = Stored /\ \A c : Placing(c)' = Placing(c)
  BY <1>1, RowsStay
<1> PICK g : g = r
  OBVIOUS
<1>5. SUFFICES ASSUME StatementOf(w), Written(w), Asked(w)' = g, work'[w].at = "commit",
                      Copying(w)' = Copying(w), Tagging(w)' = Tagging(w),
                      (\/ Placing(g.copy) = {} /\ g.place = None /\ DOMAIN Changes(w)' = {}
                       \/ /\ Placing(g.copy) = {} /\ g.place # None
                          /\ \E i \in Ids \ Stored : WroteRow(w, i, Row(g.place, g.copy, None, 1))'
                       \/ \E i \in Placing(g.copy) :
                             /\ Placing(g.copy) = {i}
                             /\ WroteRow(w, i, IF g.place = None THEN None
                                  ELSE Advanced([association[i] EXCEPT !.tag = g.place]))')
               PROVE  PromiseInv'
  <2>1. CASE Placing(r.copy) = {} /\ r.place = None /\ Goes(w, "commit")
    <3>1. /\ StatementOf(w) /\ Written(w) /\ Asked(w)' = Asked(w) /\ work'[w].at = "commit"
          /\ Changes(w)' = Changes(w) /\ Copying(w)' = Copying(w) /\ Tagging(w)' = Tagging(w)
      BY <1>1, <1>2, <1>3, <2>1, AtStatement
    <3>2. DOMAIN Changes(w) = {}
      BY <1>1, <3>1 DEF Written, MoveWritten
    <3> QED
      BY <1>5, <2>1, <3>1, <3>2
  <2>2. CASE /\ Placing(r.copy) = {} /\ r.place # None
             /\ Inserts(w, "commit", r.place, r.copy, None)
    <3> PICK i, row : i = issued + 1 /\ row = Row(r.place, r.copy, None, 1)
      OBVIOUS
    <3>1. /\ issued < MaxIssued
          /\ Writes(w, "commit", [work[w].written EXCEPT
                                    !.association = Put(work[w].written.association, i, row)])
      BY <2>2 DEF Inserts
    <3>2. i \in Ids \ Stored
      BY <1>2, <3>1, BusyFacts DEF Ids
    <3>3. /\ StatementOf(w) /\ Written(w) /\ Asked(w)' = g /\ work'[w].at = "commit"
          /\ Copying(w)' = Copying(w) /\ Tagging(w)' = Tagging(w)
          /\ DOMAIN Changes(w) = {} => WroteRow(w, i, row)'
      BY <1>1, <1>2, <1>3, <3>1, RowStatement
    <3>4. WroteRow(w, i, row)'
      BY <1>1, <3>3 DEF Written, MoveWritten
    <3> QED
      BY <1>5, <2>2, <3>2, <3>3, <3>4
  <2>3. CASE /\ Placing(r.copy) # {}
             /\ LET i == CHOOSE i \in Placing(r.copy) : TRUE
                IN  Updates(w, "commit", i, IF r.place = None THEN None
                                            ELSE Advanced([association[i] EXCEPT !.tag = r.place]))
    <3> PICK i : i = (CHOOSE j \in Placing(r.copy) : TRUE)
      OBVIOUS
    <3> DEFINE placed == IF g.place = None THEN None
                         ELSE Advanced([association[i] EXCEPT !.tag = g.place])
    <3> HIDE DEF placed
    <3> PICK row : row = placed
      OBVIOUS
    <3>1. i \in Placing(g.copy)
      BY <2>3
    <3>2. Placing(g.copy) = {i}
      <4>1. ASSUME NEW j \in Placing(g.copy) PROVE j = i
        BY <3>1 DEF Placing, Stored, PromiseInv, Sound, Rivals
      <4> QED
        BY <3>1, <4>1
    <3>3. Writes(w, "commit", [work[w].written EXCEPT
                                 !.association = Put(work[w].written.association, i, row)])
      BY <2>3 DEF Updates, placed
    <3>4. /\ StatementOf(w) /\ Written(w) /\ Asked(w)' = g /\ work'[w].at = "commit"
          /\ Copying(w)' = Copying(w) /\ Tagging(w)' = Tagging(w)
          /\ DOMAIN Changes(w) = {} => WroteRow(w, i, row)'
      <4>1. /\ UNCHANGED <<tag, association, copy, loader>> /\ w \in Workers
            /\ YieldInv /\ PromiseInv
        BY <1>1
      <4>2. /\ StatementOf(w) /\ Written(w) /\ Asked(w)' = Asked(w) /\ work'[w].at = "commit"
            /\ Copying(w)' = Copying(w) /\ Tagging(w)' = Tagging(w)
            /\ DOMAIN Changes(w) = {} => WroteRow(w, i, row)'
        BY ONLY <1>2, <1>3, <3>3, <4>1, RowStatement
      <4> QED
        BY <4>2
    <3>5. WroteRow(w, i, row)'
      BY <1>1, <3>4 DEF Written, MoveWritten
    <3>6. WroteRow(w, i, IF g.place = None THEN None
                         ELSE Advanced([association[i] EXCEPT !.tag = g.place]))'
      BY <1>1, <3>5 DEF WroteRow, placed
    <3> QED
      BY <1>5, <3>1, <3>2, <3>4, <3>6
  <2> QED
    BY <2>1, <2>2, <2>3 DEF MoveLocation
<1>6. CopyWritten(w, Advanced(copy[g.copy]))'
  <2>1. CopyWritten(w, Advanced(copy[g.copy]))
    BY <1>1, <1>5 DEF Written, MoveWritten
  <2> QED
    BY <1>1, <1>3, <1>5, <2>1 DEF CopyWritten
<1>7. MoveWritten(w)'
  <2>1. CopyWritten(w, Advanced(copy[g.copy]))' /\ copy' = copy /\ association' = association
    BY <1>1, <1>6
  <2> QED
    BY <1>4, <1>5, <2>1 DEF MoveWritten
<1>8. TagWritten(w)' /\ AssociationWritten(w)' /\ ConfirmWritten(w)' /\ CorrectionWritten(w)'
      /\ CopiesWritten(w)'
  BY <1>1, <1>5
     DEF Written, TagWritten, AssociationWritten, ConfirmWritten, CorrectionWritten, CopiesWritten
<1> QED
  BY <1>5, <1>7, <1>8, StatementPromises DEF Written

LEMMA InsertCopiesPromises ==
    ASSUME YieldInv, PromiseInv, NEW w \in Workers, InsertCopies(w), UNCHANGED loader
    PROVE  PromiseInv'
<1> DEFINE r == Asked(w)
           row == Row(Owned, r.copy, None, 1)
           new == [printing |-> r.printing, revision |-> 1]
           f == Put(work[w].written.association, issued + 1, row)
           k == Put(work[w].written.copy, r.copy, new)
           wr == [work[w].written EXCEPT !.copy = k, !.association = f]
           t == [work[w] EXCEPT !.at = "commit", !.written = wr]
<1>1. /\ work[w].at = "write" /\ r.op = "insertCopies" /\ issued < MaxIssued
      /\ work' = [work EXCEPT ![w] = t] /\ UNCHANGED <<tag, association, copy, held, loader>>
  BY DEF InsertCopies, Writes, Becomes, tables
<1>2. Busy(w)
  BY <1>1 DEF Busy
<1>3. issued + 1 \in Ids \ Stored
  BY <1>1, <1>2, BusyFacts DEF Ids
<1> HIDE DEF row, new, f, k
<1>4. wr.association = f /\ wr.copy = k /\ wr.tag = Tagging(w)
  <2>1. work[w].written \in Writtens
    BY <1>2, TransactionChanges
  <2> QED
    BY <2>1 DEF Tagging, Writtens
<1> HIDE DEF wr
<1>5. t.at = "commit" /\ t.request = work[w].request /\ t.written = wr
  BY <1>2, BusyFacts, TransactionFields
<1> HIDE DEF t
<1> PICK i, g, c : i = issued + 1 /\ g = r /\ c = r.copy
  OBVIOUS
<1>6. /\ StatementOf(w) /\ Written(w) /\ work'[w] = t /\ Asked(w)' = g
  BY <1>1, <1>2, <1>5, StatementFacts
<1>7. /\ DOMAIN Changes(w) = {} /\ DOMAIN Copying(w) = {} /\ copy[c] = None
  BY <1>1, <1>6 DEF Written, CopiesWritten
<1>8. /\ DOMAIN f = {i} /\ f[i] = row /\ DOMAIN k = {c} /\ k[c] = new
  BY <1>7 DEF f, k, Put, Changes, Copying
<1>9. Changes(w)' = f /\ Copying(w)' = k /\ Tagging(w)' = Tagging(w) /\ work'[w].at = "commit"
  BY <1>4, <1>5, <1>6 DEF Changes, Copying, Tagging
<1>10. WroteRow(w, i, Row(Owned, c, None, 1))'
  BY <1>8, <1>9 DEF WroteRow, row
<1>11. CopiesWritten(w)'
  <2>1. (Copying(w)')[c] = [printing |-> g.printing, revision |-> 1] /\ DOMAIN Copying(w)' = {c}
    BY <1>8, <1>9 DEF new
  <2>2. copy'[c] = None /\ Stored' = Stored
    BY <1>1, <1>7, RowsStay
  <2> QED
    BY <1>1, <1>3, <1>6, <1>9, <1>10, <2>1, <2>2 DEF CopiesWritten
<1>12. TagWritten(w)' /\ AssociationWritten(w)' /\ ConfirmWritten(w)' /\ MoveWritten(w)'
       /\ CorrectionWritten(w)'
  BY <1>1, <1>6, <1>9
     DEF Written, TagWritten, AssociationWritten, ConfirmWritten, MoveWritten, CorrectionWritten
<1> QED
  BY <1>6, <1>11, <1>12, StatementPromises DEF Written

LEMMA WriteTagPromises ==
    ASSUME YieldInv, PromiseInv, NEW w \in Workers, WriteTag(w), UNCHANGED loader
    PROVE  PromiseInv'
<1> DEFINE r == Asked(w)
           f == Put(work[w].written.tag, r.tag, tag[r.tag] + 1)
           wr == [work[w].written EXCEPT !.tag = f]
           t == [work[w] EXCEPT !.at = "commit", !.written = wr]
<1>1. /\ work[w].at = "write" /\ r.op \in {"createTag", "correctTag"}
      /\ UNCHANGED <<tag, association, copy, loader>>
  BY DEF WriteTag, tables
<1>2. Busy(w)
  BY <1>1 DEF Busy
<1>3. CASE Goes(w, "explain") /\ UNCHANGED held
  BY <1>1, <1>2, <1>3, ExplainsPromises
<1>4. CASE /\ r.op = "createTag" \/ (tag[r.tag] = r.expected /\ r.tag # Owned)
           /\ work' = [work EXCEPT ![w] = t] /\ Takes(w, Needs(w))
  <2>1. /\ \A v \in Workers \ {w} : held'[v] = held[v]
        /\ r.op = "correctTag" => TagRow(r.tag) \in held'[w]
    <3>1. r.op = "correctTag" => Needs(w) = {TagRow(r.tag)}
      BY <1>1 DEF Needs
    <3> QED
      BY <1>4, <3>1, TakesRows
  <2>2. r.tag # Owned /\ (r.op = "correctTag" => tag[r.tag] > 0)
    BY <1>1, <1>2, <1>4, BusyFacts, RequestAssumption, TagAssumption
  <2> HIDE DEF f
  <2>3. wr.association = Changes(w) /\ wr.copy = Copying(w) /\ wr.tag = f
    BY <1>2, TransactionChanges, WrittenParts DEF Changes, Copying
  <2> HIDE DEF wr
  <2>4. t.at = "commit" /\ t.request = work[w].request /\ t.written = wr
    BY <1>2, BusyFacts, TransactionFields
  <2> HIDE DEF t
  <2> PICK g : g = r
    OBVIOUS
  <2>5. /\ StatementOf(w) /\ Written(w) /\ work'[w] = t /\ Asked(w)' = g
    BY <1>1, <1>2, <1>4, <2>1, <2>4, StatementFacts
  <2>6. /\ DOMAIN Changes(w) = {} /\ DOMAIN Copying(w) = {} /\ DOMAIN Tagging(w) = {}
        /\ r.op = "createTag" => tag[r.tag] = 0
    BY <1>1, <2>5 DEF Written, TagWritten
  <2>7. DOMAIN f = {g.tag} /\ f[g.tag] = tag[g.tag] + 1
    BY <2>6 DEF f, Put, Tagging
  <2>8. /\ Changes(w)' = Changes(w) /\ Copying(w)' = Copying(w) /\ Tagging(w)' = f
        /\ work'[w].at = "commit"
    BY <2>3, <2>4, <2>5 DEF Changes, Copying, Tagging
  <2>9. TagWritten(w)'
    BY <1>1, <2>1, <2>2, <2>5, <2>6, <2>7, <2>8 DEF TagWritten
  <2>10. AssociationWritten(w)' /\ ConfirmWritten(w)' /\ MoveWritten(w)' /\ CorrectionWritten(w)'
         /\ CopiesWritten(w)'
    BY <1>1, <2>5, <2>8
       DEF AssociationWritten, ConfirmWritten, MoveWritten, CorrectionWritten, CopiesWritten
  <2> QED
    BY <2>5, <2>9, <2>10, StatementPromises DEF Written
<1> QED
  BY <1>3, <1>4 DEF WriteTag, Writes, Becomes

LEMMA ListAssociationsPromises ==
    ASSUME YieldInv, PromiseInv, NEW r \in Readers, NEW t \in Intended, ListAssociations(r, t),
           UNCHANGED loader
    PROVE  PromiseInv'
<1>1. UNCHANGED <<tag, association, copy, work, held, loader>>
  BY DEF ListAssociations, tables
<1>2. \A v \in Workers : (Busy(v)' <=> Busy(v)) /\ (Written(v) => Written(v)')
  BY <1>1, WrittenStays DEF Busy
<1> QED
  BY <1>1, <1>2 DEF PromiseInv, Composed, Asked, LoadsVerified

--------
(* Changes to the committed records: what the other transactions wrote is  *)
(* still a change of them, for they hold the rows it rests on.             *)

\* A change of the tags, and one of the copies, that a transaction does not
\* rely on.
LeavesTags(v) ==
    Asked(v).op = "createTag" \/ (Asked(v).op = "correctTag" /\ work[v].at = "commit") =>
        tag'[Asked(v).tag] = tag[Asked(v).tag]

LeavesCopies(v) ==
    /\ \A c \in Copies : CopyRow(c) \in held[v] /\ copy[c] # None =>
          /\ copy'[c] = copy[c]
          /\ \A i \in Ids : association'[i] # association[i] =>
                ~PlacesIt(association, i, c) /\ ~PlacesIt(association', i, c)
    /\ Asked(v).op = "insertCopies" => copy'[Asked(v).copy] = copy[Asked(v).copy]

LEMMA WrittenKept ==
    ASSUME YieldInv, PromiseInv, NEW v \in Workers, Busy(v), work'[v] = work[v], held'[v] = held[v],
           \A i \in Ids : Leaves(v, i), LeavesTags(v), LeavesCopies(v)
    PROVE  Written(v)'
<1> DEFINE r == Asked(v)
<1>1. /\ work[v] \in Transactions /\ r \in Requests /\ WorkerInv(v) /\ Written(v)
      /\ DOMAIN Changes(v) \subseteq Ids
  BY BusyFacts, TransactionChanges DEF PromiseInv
<1>2. /\ Asked(v)' = r /\ Changes(v)' = Changes(v) /\ Copying(v)' = Copying(v)
      /\ Tagging(v)' = Tagging(v) /\ NextTarget(v)' = NextTarget(v)
  BY DEF Asked, Changes, Copying, Tagging, NextTarget
<1>3. ASSUME NEW i \in DOMAIN Changes(v)
      PROVE  association'[i] = association[i] /\ (i \in Stored <=> i \in Stored')
  BY <1>1 DEF Leaves, Stored
<1>4. ASSUME NEW t \in Intended, TagRow(t) \in held[v], NEW x
      PROVE  /\ Naming(t, x)' \subseteq Naming(t, x)
             /\ \A i \in Naming(t, x)' : association'[i] = association[i]
  <2>1. ASSUME NEW i \in Ids, i \in Stored', association'[i].tag = t
        PROVE  association'[i] = association[i] /\ i \in Stored
    BY <1>4, <2>1 DEF Leaves, Stored
  <2> QED
    BY <2>1 DEF Naming, Stored
<1>5. ASSUME NEW i, NEW row, WroteRow(v, i, row)
      PROVE  /\ WroteRow(v, i, row)' /\ i \in DOMAIN Changes(v)
             /\ association'[i] = association[i] /\ (i \in Stored <=> i \in Stored')
  <2>1. WroteRow(v, i, row)' /\ i \in DOMAIN Changes(v)
    BY <1>2, <1>5 DEF WroteRow
  <2> QED
    BY <1>3, <2>1
<1>6. ASSUME NEW c \in Copies, CopyRow(c) \in held[v], copy[c] # None
      PROVE  /\ copy'[c] = copy[c] /\ Placing(c)' = Placing(c)
             /\ \A i \in Placing(c) : association'[i] = association[i]
  <2>1. copy'[c] = copy[c]
    BY <1>6 DEF LeavesCopies
  <2>2. \A i \in Ids : association'[i] = association[i]
                       \/ (~PlacesIt(association, i, c) /\ ~PlacesIt(association', i, c))
    BY <1>6 DEF LeavesCopies
  <2>3. Placing(c) = PlacedIn(association, c) /\ Placing(c)' = PlacedIn(association', c)
    BY SeenNow, SeenNext
  <2> QED
    BY <2>1, <2>2, <2>3 DEF PlacedIn, PlacesIt
<1>7. TagWritten(v)'
  <2>1. TagWritten(v)
    BY <1>1 DEF Written
  <2> QED
    BY <1>2, <2>1 DEF TagWritten, LeavesTags
<1>8. AssociationWritten(v)'
  <2> SUFFICES ASSUME r.op \in {"insertAssociation", "correctAssociation", "removeAssociation"}
               PROVE  AssociationWritten(v)'
    BY <1>2 DEF AssociationWritten
  <2>1. AssociationWritten(v)
    BY <1>1 DEF Written
  <2>2. CASE work[v].at # "commit"
    BY <1>2, <2>1, <2>2 DEF AssociationWritten
  <2>3. CASE work[v].at = "commit"
    <3>1. CASE r.op = "insertAssociation"
      <4>1. r.tag \in Intended /\ TagRow(r.tag) \in held[v]
        BY <1>1, <2>3, <3>1, RequestAssumption DEF WorkerInv, DomainHeld, Locked
      <4>2. Naming(r.tag, r.target) = {}
        BY <2>1, <2>3, <3>1 DEF AssociationWritten
      <4> PICK g : g = r
        OBVIOUS
      <4>3. Naming(g.tag, g.target)' = {}
        BY <1>4, <4>1, <4>2
      <4>4. PICK i \in Ids \ Stored : WroteRow(v, i, Row(g.tag, g.target, g.quantity, 1))
        BY <2>1, <2>3, <3>1 DEF AssociationWritten
      <4>5. i \in Ids \ Stored' /\ WroteRow(v, i, Row(g.tag, g.target, g.quantity, 1))'
        BY <1>5, <4>4
      <4> QED
        BY <1>2, <2>1, <2>3, <3>1, <4>3, <4>5 DEF AssociationWritten
    <3>2. CASE r.op = "correctAssociation"
      <4> PICK g, i, t, row : /\ g = r /\ i = r.id /\ t = association[r.id].tag
                              /\ row = Advanced([association[r.id] EXCEPT
                                           !.target = r.target, !.quantity = r.quantity])
        OBVIOUS
      <4>1. /\ i \in Stored /\ Naming(t, g.target) \subseteq {i} /\ WroteRow(v, i, row)
        BY <2>1, <2>3, <3>2 DEF AssociationWritten
      <4>2. t \in Intended /\ TagRow(t) \in held[v]
        BY <1>1, <2>3, <3>2, <4>1 DEF WorkerInv, NamedStays, DomainHeld, Locked
      <4>3. /\ WroteRow(v, i, row)' /\ association'[i] = association[i] /\ i \in Stored'
        BY <1>5, <4>1
      <4>4. Naming(t, g.target)' \subseteq {i}
        BY <1>4, <4>1, <4>2
      <4>5. Naming(association[g.id].tag, g.target)' \subseteq {g.id}
        BY <4>3, <4>4 DEF Naming, Stored
      <4>6. WroteRow(v, g.id, Advanced([association[g.id] EXCEPT
                         !.target = g.target, !.quantity = g.quantity]))'
        BY <4>3 DEF WroteRow
      <4> QED
        BY <1>2, <2>1, <2>3, <3>2, <4>3, <4>5, <4>6 DEF AssociationWritten
    <3>3. CASE r.op = "removeAssociation"
      <4> PICK g, i : g = r /\ i = r.id
        OBVIOUS
      <4>1. i \in Stored /\ WroteRow(v, i, None)
        BY <2>1, <2>3, <3>3 DEF AssociationWritten
      <4>2. i \in Stored' /\ WroteRow(v, i, None)'
        BY <1>5, <4>1
      <4> QED
        BY <1>2, <2>1, <2>3, <3>3, <4>2 DEF AssociationWritten
    <3> QED
      BY <3>1, <3>2, <3>3
  <2> QED
    BY <2>2, <2>3
<1>9. ConfirmWritten(v)'
  <2> SUFFICES ASSUME r.op = "confirm" PROVE ConfirmWritten(v)'
    BY <1>2 DEF ConfirmWritten
  <2>1. ConfirmWritten(v)
    BY <1>1 DEF Written
  <2>2. CASE work[v].at = "lock"
    BY <1>2, <2>1, <2>2 DEF ConfirmWritten
  <2>3. CASE work[v].at # "lock"
    <3> PICK t : t = r.tag
      OBVIOUS
    <3>1. t \in Intended /\ TagRow(t) \in held[v]
      BY <1>1, <2>3, RequestAssumption DEF WorkerInv, DomainHeld, Locked, Busy
    <3>2. ASSUME NEW i \in DOMAIN Changes(v) PROVE Confirms(v, i)'
      <4>1. Confirms(v, i)
        BY <2>1 DEF ConfirmWritten
      <4> PICK x : x = Changes(v)[i].target
        OBVIOUS
      <4>2. Naming(t, x)' \subseteq {i}
        BY <1>4, <3>1, <4>1 DEF Confirms
      <4>3. Naming(Asked(v).tag, Changes(v)[i].target)' \subseteq {i}
        BY <1>2, <4>2 DEF Naming
      <4>4. association'[i] = association[i] /\ (i \in Stored <=> i \in Stored')
        BY <1>3
      <4> QED
        BY <1>2, <4>1, <4>3, <4>4 DEF Confirms
    <3>3. ASSUME work[v].at = "add", work[v].found # None
          PROVE  \A i \in Naming(Asked(v).tag, NextTarget(v))' : association'[i].quantity = work[v].found
      <4> PICK x : x = NextTarget(v)
        OBVIOUS
      <4>1. \A i \in Naming(t, x)' : association'[i].quantity = work[v].found
        BY <1>4, <2>1, <3>1, <3>3 DEF ConfirmWritten
      <4> QED
        BY <1>2, <4>1 DEF Naming
    <3> QED
      BY <1>2, <2>1, <3>2, <3>3 DEF ConfirmWritten
  <2> QED
    BY <2>2, <2>3
<1>10. ASSUME NEW row, CopyWritten(v, row), r.copy \in Copies
       PROVE  /\ CopyWritten(v, row)' /\ copy'[r.copy] = copy[r.copy]
              /\ Placing(r.copy)' = Placing(r.copy)
              /\ \A i \in Placing(r.copy) : association'[i] = association[i]
  <2> PICK c : c = r.copy
    OBVIOUS
  <2>1. CopyRow(c) \in held[v] /\ copy[c] # None /\ c \in Copies
    BY <1>10 DEF CopyWritten
  <2>2. /\ copy'[c] = copy[c] /\ Placing(c)' = Placing(c)
        /\ \A i \in Placing(c) : association'[i] = association[i]
    BY <1>6, <2>1
  <2>3. CopyWritten(v, row)'
    BY <1>2, <1>10, <2>2 DEF CopyWritten
  <2>4. Placing(r.copy)' = Placing(c)'
    BY <1>2
  <2> QED
    BY <2>2, <2>3, <2>4
<1>11. MoveWritten(v)'
  <2> SUFFICES ASSUME r.op = "moveCopyLocation" PROVE MoveWritten(v)'
    BY <1>2 DEF MoveWritten
  <2>1. MoveWritten(v) /\ r.copy \in Copies
    BY <1>1, RequestAssumption DEF Written
  <2>2. CASE work[v].at \notin {"write", "commit"}
    BY <1>2, <2>1, <2>2 DEF MoveWritten
  <2>3. CASE work[v].at \in {"write", "commit"}
    <3> PICK g, c, row : g = r /\ c = r.copy /\ row = Advanced(copy[r.copy])
      OBVIOUS
    <3>1. CopyWritten(v, row)
      BY <2>1, <2>3 DEF MoveWritten
    <3>2. /\ copy'[c] = copy[c] /\ Placing(c)' = Placing(c) /\ CopyWritten(v, row)'
          /\ \A i \in Placing(c) : association'[i] = association[i]
      <4>1. CopyRow(c) \in held[v] /\ copy[c] # None /\ c \in Copies
        BY <2>1, <3>1 DEF CopyWritten
      <4> QED
        BY <1>6, <1>10, <2>1, <3>1, <4>1
    <3>3. CopyWritten(v, Advanced(copy[g.copy]))'
      BY <3>2 DEF CopyWritten
    <3>4. CASE work[v].at = "write"
      BY <1>2, <2>1, <3>3, <3>4 DEF MoveWritten
    <3>5. CASE work[v].at = "commit"
      <4>1. \/ Placing(c) = {} /\ g.place = None /\ DOMAIN Changes(v) = {}
            \/ /\ Placing(c) = {} /\ g.place # None
               /\ \E i \in Ids \ Stored : WroteRow(v, i, Row(g.place, c, None, 1))
            \/ \E i \in Placing(c) :
                  /\ Placing(c) = {i}
                  /\ WroteRow(v, i, IF g.place = None THEN None
                                      ELSE Advanced([association[i] EXCEPT !.tag = g.place]))
        BY <2>1, <3>5 DEF MoveWritten
      <4>2. \/ Placing(c)' = {} /\ g.place = None /\ DOMAIN Changes(v)' = {}
            \/ /\ Placing(c)' = {} /\ g.place # None
               /\ \E i \in Ids \ Stored' : WroteRow(v, i, Row(g.place, c, None, 1))'
            \/ \E i \in Placing(c)' :
                  /\ Placing(c)' = {i}
                  /\ WroteRow(v, i, IF g.place = None THEN None
                                      ELSE Advanced([association[i] EXCEPT !.tag = g.place]))'
        <5>1. CASE Placing(c) = {} /\ g.place = None /\ DOMAIN Changes(v) = {}
          BY <1>2, <3>2, <5>1
        <5>2. CASE /\ Placing(c) = {} /\ g.place # None
                   /\ \E i \in Ids \ Stored : WroteRow(v, i, Row(g.place, c, None, 1))
          <6>1. PICK i \in Ids \ Stored : WroteRow(v, i, Row(g.place, c, None, 1))
            BY <5>2
          <6>2. i \in Ids \ Stored' /\ WroteRow(v, i, Row(g.place, c, None, 1))'
            BY <1>5, <6>1
          <6> QED
            BY <3>2, <5>2, <6>2
        <5>3. ASSUME NEW i \in Placing(c), Placing(c) = {i},
                     WroteRow(v, i, IF g.place = None THEN None
                                    ELSE Advanced([association[i] EXCEPT !.tag = g.place]))
              PROVE  /\ i \in Placing(c)' /\ Placing(c)' = {i}
                     /\ WroteRow(v, i, IF g.place = None THEN None
                                    ELSE Advanced([association[i] EXCEPT !.tag = g.place]))'
          <6>1. i \in Placing(c)' /\ Placing(c)' = {i} /\ association'[i] = association[i]
            BY <3>2, <5>3
          <6> QED
            BY <1>2, <5>3, <6>1 DEF WroteRow
        <5> QED
          BY <4>1, <5>1, <5>2, <5>3
      <4>3. g.copy = c /\ Asked(v)' = g /\ work'[v].at = "commit"
        BY <1>2, <3>5
      <4> QED
        BY <3>3, <4>2, <4>3 DEF MoveWritten
    <3> QED
      BY <2>3, <3>4, <3>5
  <2> QED
    BY <2>2, <2>3
<1>12. CorrectionWritten(v)'
  <2> SUFFICES ASSUME r.op = "correctCopy" PROVE CorrectionWritten(v)'
    BY <1>2 DEF CorrectionWritten
  <2>1. CorrectionWritten(v) /\ r.copy \in Copies
    BY <1>1, RequestAssumption DEF Written
  <2>2. CASE work[v].at \notin {"refer", "commit"}
    BY <1>2, <2>1, <2>2 DEF CorrectionWritten
  <2>3. CASE work[v].at \in {"refer", "commit"}
    <3> PICK g, row : g = r /\ row = Advanced([copy[r.copy] EXCEPT !.printing = r.printing])
      OBVIOUS
    <3>1. CopyWritten(v, row)
      BY <2>1, <2>3 DEF CorrectionWritten
    <3>2. copy'[g.copy] = copy[g.copy] /\ CopyWritten(v, row)'
      BY <1>10, <2>1, <3>1
    <3>3. CopyWritten(v, Advanced([copy[g.copy] EXCEPT !.printing = g.printing]))'
      BY <3>2 DEF CopyWritten
    <3> QED
      BY <1>2, <2>1, <2>3, <3>3 DEF CorrectionWritten
  <2> QED
    BY <2>2, <2>3
<1>13. CopiesWritten(v)'
  <2> SUFFICES ASSUME r.op = "insertCopies" PROVE CopiesWritten(v)'
    BY <1>2 DEF CopiesWritten
  <2>1. CopiesWritten(v)
    BY <1>1 DEF Written
  <2> PICK g : g = r
    OBVIOUS
  <2>2. copy'[g.copy] = None
    BY <2>1 DEF CopiesWritten, LeavesCopies
  <2>3. CASE work[v].at # "commit"
    BY <1>2, <2>1, <2>2, <2>3 DEF CopiesWritten
  <2>4. CASE work[v].at = "commit"
    <3>1. PICK i \in Ids \ Stored : WroteRow(v, i, Row(Owned, g.copy, None, 1))
      BY <2>1, <2>4 DEF CopiesWritten
    <3>2. i \in Ids \ Stored' /\ WroteRow(v, i, Row(Owned, g.copy, None, 1))'
      BY <1>5, <3>1
    <3> QED
      BY <1>2, <2>1, <2>2, <2>4, <3>2 DEF CopiesWritten
  <2> QED
    BY <2>3, <2>4
<1> QED
  BY <1>7, <1>8, <1>9, <1>11, <1>12, <1>13 DEF Written

\* A commit leaves what the other transactions rely on.
LEMMA CommitLeaves ==
    ASSUME YieldInv, NEW w \in Workers, Commit(w), NEW v \in Workers \ {w}, NEW i \in Ids
    PROVE  Leaves(v, i)
<1>1. Busy(w) /\ WorkerInv(w) /\ WorkerInv(v)
  BY CommitRecords DEF YieldInv
<1>2. /\ held[v] \cap held[w] = {}
      /\ Busy(v) => DOMAIN Changes(v) \cap DOMAIN Changes(w) = {}
  BY <1>1 DEF YieldInv, Exclusive
<1> SUFFICES ASSUME association'[i] # association[i] PROVE Leaves(v, i)
  BY DEF Leaves
<1>3. i \in DOMAIN Changes(w) /\ association'[i] = Changes(w)[i]
  BY CommitRecords
<1>4. /\ i \in Stored => AssociationRow(i) \in held[w]
      /\ Changes(w)[i] # None =>
            /\ Changes(w)[i].tag \in Intended => TagRow(Changes(w)[i].tag) \in held[w]
            /\ i \in Stored /\ association[i].tag \in Intended =>
                  Changes(w)[i].tag = association[i].tag
  BY <1>1, <1>3 DEF WorkerInv, ChangesHeld
<1>5. AssociationRow(i) \notin held[v]
  BY <1>1, <1>2, <1>4 DEF WorkerInv, RowsHeld
<1>6. Busy(v) /\ Asked(v).op \in {"correctAssociation", "removeAssociation"} /\ Asked(v).id = i =>
         (i \in Stored => association[i].tag \in Intended) /\ i \in Stored
  BY <1>1, <1>3 DEF WorkerInv, NamedStays
<1> QED
  BY <1>2, <1>3, <1>4, <1>5, <1>6 DEF Leaves

LEMMA CommitLeavesTags ==
    ASSUME YieldInv, PromiseInv, NEW w \in Workers, Commit(w), NEW v \in Workers \ {w}, Busy(v)
    PROVE  LeavesTags(v)
<1> DEFINE r == Asked(w)
           q == Asked(v)
<1>1. /\ Busy(w) /\ work[w].at = "commit" /\ r \in Requests /\ q \in Requests
      /\ TagWritten(w) /\ TagWritten(v) /\ held[v] \cap held[w] = {}
  BY CommitRecords, BusyFacts DEF PromiseInv, Written, YieldInv, Exclusive
<1> SUFFICES ASSUME q.op = "createTag" \/ (q.op = "correctTag" /\ work[v].at = "commit")
             PROVE  tag'[q.tag] = tag[q.tag]
  BY DEF LeavesTags
<1>2. q.tag \in Tags /\ q.tag # Owned
  BY <1>1, RequestAssumption, TagAssumption DEF Tags, TagWritten
<1>3. q.tag \notin DOMAIN Tagging(w)
  <2>1. CASE r.op \notin {"createTag", "correctTag"}
    BY <1>1, <1>2, <2>1 DEF TagWritten
  <2>2. CASE r.op \in {"createTag", "correctTag"}
    <3>1. /\ DOMAIN Tagging(w) = {r.tag} /\ (r.op = "createTag" => tag[r.tag] = 0)
          /\ r.op = "correctTag" => tag[r.tag] > 0 /\ TagRow(r.tag) \in held[w]
      BY <1>1, <2>2 DEF TagWritten
    <3>2. /\ q.op = "createTag" => tag[q.tag] = 0
          /\ q.op = "correctTag" => tag[q.tag] > 0 /\ TagRow(q.tag) \in held[v]
      BY <1>1 DEF TagWritten
    <3>3. q.op = "createTag" /\ r.op = "createTag" => q.tag # r.tag
      BY <1>1 DEF PromiseInv, Composed, Busy
    <3> QED
      BY <1>1, <2>2, <3>1, <3>2, <3>3
  <2> QED
    BY <2>1, <2>2
<1> QED
  BY <1>2, <1>3, CommitRecords

\* What a commit changes of where copies are, and of the copies.
LEMMA CommitPlaces ==
    ASSUME YieldInv, PromiseInv, NEW w \in Workers, Commit(w), NEW c, NEW i \in Ids,
           association'[i] # association[i], PlacesIt(association, i, c) \/ PlacesIt(association', i, c)
    PROVE  Asked(w).op = "moveCopyLocation" /\ Asked(w).copy = c
<1> DEFINE r == Asked(w)
<1>1. /\ Busy(w) /\ work[w].at = "commit" /\ r \in Requests /\ WorkerInv(w) /\ Written(w)
  BY CommitRecords, BusyFacts DEF PromiseInv
<1>2. i \in DOMAIN Changes(w) /\ association'[i] = Changes(w)[i]
  BY CommitRecords
<1>3. r.op \in {"createTag", "correctTag", "insertAssociation", "correctAssociation",
                "removeAssociation", "confirm", "moveCopyLocation", "correctCopy", "insertCopies"}
  BY <1>1, RequestAssumption
<1>4. r.op \notin {"createTag", "correctTag", "correctCopy"}
  BY <1>1, <1>2 DEF Written, TagWritten, CorrectionWritten
<1>5. association \in [Ids -> Rows \cup {None}]
  BY <1>1, BusyFacts
<1>6. CASE r.op = "insertAssociation"
  <2> PICK row, j : row = Row(r.tag, r.target, r.quantity, 1) /\ j \in Ids \ Stored
                    /\ WroteRow(w, j, row)
    BY <1>1, <1>6 DEF Written, AssociationWritten
  <2>1. association[i] = None /\ association'[i] = row
    BY <1>2 DEF WroteRow, Stored
  <2>2. row.tag \notin Locations
    BY <1>1, <1>6, RequestAssumption, TagAssumption DEF Row
  <2> QED
    BY <2>1, <2>2 DEF PlacesIt
<1>7. CASE r.op \in {"correctAssociation", "removeAssociation"}
  <2>1. r.id = i /\ i \in Stored
    BY <1>1, <1>2, <1>7 DEF Written, AssociationWritten, WroteRow
  <2>2. association[i].tag \in Intended /\ (association'[i] # None => association'[i].tag = association[i].tag)
    BY <1>1, <1>2, <1>7, <2>1 DEF WorkerInv, NamedStays, ChangesHeld
  <2> QED
    BY <2>1, <2>2, TagAssumption DEF PlacesIt
<1>8. CASE r.op = "confirm"
  <2>1. Confirms(w, i) /\ r.tag \in Intended
    BY <1>1, <1>2, <1>8, RequestAssumption DEF Written, ConfirmWritten
  <2> QED
    BY <1>2, <2>1, TagAssumption DEF Confirms, PlacesIt, Stored
<1>9. CASE r.op = "insertCopies"
  <2> PICK row, j : row = Row(Owned, r.copy, None, 1) /\ j \in Ids \ Stored /\ WroteRow(w, j, row)
    BY <1>1, <1>9 DEF Written, CopiesWritten
  <2>1. association[i] = None /\ association'[i] = row
    BY <1>2 DEF WroteRow, Stored
  <2>2. row.tag \notin Locations
    BY TagAssumption DEF Row
  <2> QED
    BY <2>1, <2>2 DEF PlacesIt
<1>10. CASE r.op = "moveCopyLocation"
  <2>1. \/ /\ Placing(r.copy) = {} /\ r.place # None
           /\ \E j \in Ids \ Stored : WroteRow(w, j, Row(r.place, r.copy, None, 1))
        \/ \E j \in Placing(r.copy) :
              /\ Placing(r.copy) = {j}
              /\ WroteRow(w, j, IF r.place = None THEN None
                                ELSE Advanced([association[j] EXCEPT !.tag = r.place]))
    BY <1>1, <1>2, <1>10 DEF Written, MoveWritten
  <2>2. CASE \E j \in Ids \ Stored : WroteRow(w, j, Row(r.place, r.copy, None, 1))
    <3> PICK row, j : row = Row(r.place, r.copy, None, 1) /\ j \in Ids \ Stored /\ WroteRow(w, j, row)
      BY <2>2
    <3>1. association[i] = None /\ association'[i] = row /\ row.target = r.copy
      BY <1>2 DEF WroteRow, Stored, Row
    <3> QED
      BY <1>10, <3>1 DEF PlacesIt
  <2>3. CASE \E j \in Placing(r.copy) :
                WroteRow(w, j, IF r.place = None THEN None
                               ELSE Advanced([association[j] EXCEPT !.tag = r.place]))
    <3>1. PICK j \in Placing(r.copy) :
                  WroteRow(w, j, IF r.place = None THEN None
                                 ELSE Advanced([association[j] EXCEPT !.tag = r.place]))
      BY <2>3
    <3>2. i = j /\ association'[i] = IF r.place = None THEN None
                                     ELSE Advanced([association[i] EXCEPT !.tag = r.place])
      BY <1>2, <3>1 DEF WroteRow
    <3>3. association[i].target = r.copy /\ association[i].tag \in Locations /\ association[i] # None
      BY <3>1, <3>2 DEF Placing, Stored
    <3>4. ASSUME r.place # None PROVE association'[i].target = r.copy
      <4>1. r.place \in Locations
        BY <1>1, <1>10, <3>4, RequestAssumption
      <4>2. association[i] \in [tag : Locations \cup {Owned}, target : Copies, quantity : {None},
                                revision : Nat \ {0}]
        BY <1>5, <3>3, TagAssumption DEF Rows
      <4> QED
        BY <3>2, <3>3, <3>4, <4>1, <4>2, PlacedRow
    <3> QED
      BY <1>10, <3>2, <3>3, <3>4 DEF PlacesIt
  <2> QED
    BY <2>1, <2>2, <2>3
<1> QED
  BY <1>3, <1>4, <1>6, <1>7, <1>8, <1>9, <1>10

LEMMA CommitCopies ==
    ASSUME YieldInv, PromiseInv, NEW w \in Workers, Commit(w), NEW c \in Copies, copy'[c] # copy[c]
    PROVE  /\ Asked(w).op \in {"moveCopyLocation", "correctCopy", "insertCopies"} /\ Asked(w).copy = c
           /\ IF Asked(w).op = "insertCopies" THEN copy[c] = None
              ELSE copy[c] # None /\ CopyRow(c) \in held[w]
<1> DEFINE r == Asked(w)
<1>1. /\ Busy(w) /\ work[w].at = "commit" /\ r \in Requests /\ Written(w)
  BY CommitRecords, BusyFacts DEF PromiseInv
<1>2. c \in DOMAIN Copying(w)
  BY CommitRecords
<1>3. r.op \in {"moveCopyLocation", "correctCopy", "insertCopies"}
  <2>1. r.op \notin {"createTag", "correctTag", "confirm", "insertAssociation",
                     "correctAssociation", "removeAssociation"}
    BY <1>1, <1>2 DEF Written, TagWritten, AssociationWritten, ConfirmWritten
  <2> QED
    BY <1>1, <2>1, RequestAssumption
<1> QED
  BY <1>1, <1>2, <1>3 DEF Written, MoveWritten, CorrectionWritten, CopiesWritten, CopyWritten

LEMMA CommitLeavesCopies ==
    ASSUME YieldInv, PromiseInv, NEW w \in Workers, Commit(w), NEW v \in Workers \ {w}, Busy(v)
    PROVE  LeavesCopies(v)
<1>1. /\ Busy(w) /\ work[w].at = "commit" /\ Asked(w) \in Requests /\ Asked(v) \in Requests
      /\ Written(w) /\ Written(v) /\ held[v] \cap held[w] = {}
  BY CommitRecords, BusyFacts DEF PromiseInv, YieldInv, Exclusive
<1>2. ASSUME NEW c \in Copies, CopyRow(c) \in held[v], copy[c] # None PROVE copy'[c] = copy[c]
  BY <1>1, <1>2, CommitCopies
<1>3. ASSUME NEW c \in Copies, CopyRow(c) \in held[v], copy[c] # None, NEW i \in Ids,
             association'[i] # association[i]
      PROVE  ~PlacesIt(association, i, c) /\ ~PlacesIt(association', i, c)
  <2> SUFFICES ASSUME PlacesIt(association, i, c) \/ PlacesIt(association', i, c) PROVE FALSE
    OBVIOUS
  <2>1. Asked(w).op = "moveCopyLocation" /\ Asked(w).copy = c
    BY <1>3, CommitPlaces
  <2>2. CopyRow(c) \in held[w]
    BY <1>1, <2>1 DEF Written, MoveWritten, CopyWritten
  <2> QED
    BY <1>1, <1>3, <2>2
<1>4. ASSUME Asked(v).op = "insertCopies" PROVE copy'[Asked(v).copy] = copy[Asked(v).copy]
  <2> PICK c : c = Asked(v).copy
    OBVIOUS
  <2>1. c \in Copies /\ copy[c] = None
    BY <1>1, <1>4, RequestAssumption DEF Written, CopiesWritten
  <2>2. ASSUME copy'[c] # copy[c] PROVE FALSE
    <3>1. Asked(w).op = "insertCopies" /\ Asked(w).copy = c
      BY <2>1, <2>2, CommitCopies
    <3> QED
      BY <1>1, <1>4, <3>1 DEF PromiseInv, Composed, Busy
  <2> QED
    BY <2>2
<1> QED
  BY <1>2, <1>3, <1>4 DEF LeavesCopies

LEMMA CommitPromises ==
    ASSUME YieldInv, PromiseInv, NEW w \in Workers, Commit(w), UNCHANGED loader
    PROVE  PromiseInv'
<1> DEFINE t == [work[w] EXCEPT !.at = "ended", !.outcome = "done"]
<1>1. Busy(w) /\ work[w] \in Transactions /\ work[w].at # "idle" /\ Sound(association', copy')
  BY CommitRecords, BusyFacts, Commits DEF Committed
<1>2. t.at = "ended" /\ t.request = work[w].request
  BY <1>1 DEF Transactions, TransactionRecords
<1> HIDE DEF t
<1>3. /\ work'[w] = t /\ \A v \in Workers \ {w} : work'[v] = work[v] /\ held'[v] = held[v]
  BY DEF Commit, Ends, Becomes, YieldInv, Shapes, t
<1>4. /\ ~Busy(w)' /\ \A v \in Workers : Asked(v)' = Asked(v) /\ (work'[v].at # "idle" => work[v].at # "idle")
  BY <1>1, <1>2, <1>3 DEF Busy, Asked
<1>5. Composed'
  BY <1>4 DEF PromiseInv, Composed
<1>6. ASSUME NEW v \in Workers, Busy(v)' PROVE Written(v)'
  <2>1. v \in Workers \ {w} /\ Busy(v)
    BY <1>3, <1>4, <1>6 DEF Busy
  <2>2. /\ \A i \in Ids : Leaves(v, i)
        /\ LeavesTags(v) /\ LeavesCopies(v)
    BY <2>1, CommitLeaves, CommitLeavesTags, CommitLeavesCopies
  <2> QED
    BY <1>3, <2>1, <2>2, WrittenKept
<1> QED
  BY <1>1, <1>5, <1>6 DEF PromiseInv, LoadsVerified

--------
(* The batches of a load add records, and change none.                     *)

\* A finite set as a sequence: every member of it, once.
LEMMA SetEnumerated ==
    ASSUME NEW S, IsFiniteSet(S)
    PROVE  /\ \A i, j \in 1 .. Len(SetToSeq(S)) : SetToSeq(S)[i] = SetToSeq(S)[j] => i = j
           /\ \A x \in S : \E i \in 1 .. Len(SetToSeq(S)) : SetToSeq(S)[i] = x
<1> PICK n, s : n = Cardinality(S) /\ s = SetToSeq(S)
  OBVIOUS
<1>1. /\ n \in Nat /\ ExistsBijection(1 .. n, S) /\ s \in [1 .. n -> S] /\ Len(s) = n
  BY FS_CardinalityType, SetAsSequence
<1>2. \E f \in [1 .. n -> S] : IsInjective(f)
  BY <1>1 DEF ExistsBijection, Bijection, Injection, IsInjective
<1>3. SetToSeq(S) = CHOOSE f \in [1 .. n -> S] : IsInjective(f)
  BY DEF SetToSeq
<1>4. IsInjective(s)
  BY <1>2, <1>3
<1>5. s \in Injection(1 .. n, S)
  BY <1>1, <1>4 DEF Injection, IsInjective
<1>6. IsFiniteSet(1 .. n) /\ Cardinality(1 .. n) = n
  BY <1>1, FS_Interval
<1>7. s \in Surjection(1 .. n, S)
  BY <1>5, <1>6, FS_Injection
<1>8. \A x \in S : \E i \in 1 .. n : s[i] = x
  BY <1>7 DEF Surjection
<1>9. \A i, j \in 1 .. n : s[i] = s[j] => i = j
  BY <1>1, <1>4 DEF IsInjective
<1> QED
  BY <1>1, <1>8, <1>9

\* The rows that come are those of the batch, each under an identity of its own.
LEMMA RowsCome ==
    ASSUME YieldInv, NEW S \in SUBSET Rows, IsFiniteSet(S), Associate(SetToSeq(S))
    PROVE  /\ association \in AllRows /\ association' \in AllRows
           /\ \A i \in Ids : association'[i] # association[i] =>
                 association[i] = None /\ association'[i] \in S /\ i > issued
           /\ \A i, j \in Ids : association'[i] # association[i] /\ association'[j] # association[j]
                                /\ association'[i] = association'[j] => i = j
           /\ \A row \in S : \E i \in Ids : association'[i] = row /\ association'[i] # association[i]
<1> PICK s : s = SetToSeq(S)
  OBVIOUS
<1>1. /\ association \in [Ids -> Rows \cup {None}] /\ issued \in Nat /\ MaxIssued \in Nat
      /\ \A i \in Ids : association[i] # None => i <= issued
  BY AccountAssumption DEF YieldInv, Shapes, Stored
<1>2. /\ s \in Seq(S) /\ Len(s) \in Nat /\ s \in [1 .. Len(s) -> S]
  BY SetAsSequence
<1>3. /\ \A i, j \in 1 .. Len(s) : s[i] = s[j] => i = j
      /\ \A x \in S : \E i \in 1 .. Len(s) : s[i] = x
  BY SetEnumerated
<1>4. /\ issued + Len(s) <= MaxIssued
      /\ association' = [i \in Ids |-> IF i \in issued + 1 .. issued + Len(s)
                                       THEN s[i - issued] ELSE association[i]]
  BY DEF Associate
<1>5. ASSUME NEW i \in Ids
      PROVE  \/ association'[i] = association[i] /\ i \notin issued + 1 .. issued + Len(s)
             \/ /\ i \in issued + 1 .. issued + Len(s) /\ i - issued \in 1 .. Len(s)
                /\ association[i] = None /\ association'[i] = s[i - issued] /\ i > issued
  BY <1>1, <1>2, <1>4 DEF Ids
<1>6. ASSUME NEW i \in Ids, association'[i] # association[i]
      PROVE  /\ association[i] = None /\ association'[i] \in S /\ i > issued
             /\ i - issued \in 1 .. Len(s) /\ association'[i] = s[i - issued]
  BY <1>2, <1>5, <1>6
<1>7. association' \in AllRows
  <2>1. \A i \in Ids : association'[i] \in Rows \cup {None}
    BY <1>1, <1>6
  <2> QED
    BY <1>4, <2>1 DEF AllRows
<1>8. ASSUME NEW i \in Ids, NEW j \in Ids, association'[i] # association[i],
             association'[j] # association[j], association'[i] = association'[j]
      PROVE  i = j
  <2>1. i - issued = j - issued
    BY <1>3, <1>6, <1>8
  <2> QED
    BY <1>1, <2>1 DEF Ids
<1>9. ASSUME NEW row \in S
      PROVE  \E i \in Ids : association'[i] = row /\ association'[i] # association[i]
  <2>1. PICK k \in 1 .. Len(s) : s[k] = row
    BY <1>3
  <2> PICK i : i = issued + k
    OBVIOUS
  <2>2. i \in Ids /\ i \in issued + 1 .. issued + Len(s) /\ i - issued = k
    BY <1>1, <1>2, <1>4 DEF Ids
  <2>3. association[i] = None /\ association'[i] = row
    BY <1>5, <2>1, <2>2
  <2>4. row # None
    BY TagAssumption
  <2> QED
    BY <2>2, <2>3, <2>4
<1> QED
  BY <1>1, <1>6, <1>7, <1>8, <1>9 DEF AllRows

\* What a batch brings fits what is there.
Brings(S) ==
    /\ \A r, s \in S : Rivals(r, s) => r = s
    /\ \A r \in S, i \in Ids : association[i] # None => ~Rivals(r, association[i])
    /\ \A r \in S : r.tag \notin Intended => copy[r.target] = None /\ copy'[r.target] # None
    /\ \A c \in Copies : copy[c] # None => copy'[c] = copy[c]
    /\ \A c \in Copies : copy[c] = None /\ copy'[c] # None =>
          \E r \in S : r.tag = Owned /\ r.target = c

LEMMA BroughtSound ==
    ASSUME YieldInv, PromiseInv, NEW S \in SUBSET Rows, IsFiniteSet(S), Associate(SetToSeq(S)),
           Brings(S)
    PROVE  Sound(association', copy')
<1>1. /\ association \in AllRows /\ association' \in AllRows
      /\ \A i \in Ids : association'[i] # association[i] =>
            association[i] = None /\ association'[i] \in S
      /\ \A i, j \in Ids : association'[i] # association[i] /\ association'[j] # association[j]
                           /\ association'[i] = association'[j] => i = j
      /\ \A row \in S : \E i \in Ids : association'[i] = row /\ association'[i] # association[i]
  BY RowsCome
<1>2. ASSUME NEW i \in Ids, association'[i] # association[i] PROVE Fits(association', copy', i)
  <2>1. association'[i] \in S
    BY <1>1, <1>2
  <2>2. ASSUME NEW j \in Ids \ {i}, association'[j] # None,
               Rivals(association'[i], association'[j]) \/ Rivals(association'[j], association'[i])
        PROVE  FALSE
    <3>1. Rivals(association'[i], association'[j])
      BY <2>2 DEF Rivals
    <3>2. CASE association'[j] = association[j]
      BY <2>1, <2>2, <3>1, <3>2 DEF Brings
    <3>3. CASE association'[j] # association[j]
      <4>1. association'[j] \in S
        BY <1>1, <3>3
      <4>2. association'[i] = association'[j]
        BY <2>1, <3>1, <4>1 DEF Brings
      <4> QED
        BY <1>1, <1>2, <2>2, <3>3, <4>2
    <3> QED
      BY <3>2, <3>3
  <2>3. association'[i].tag \notin Intended => copy'[association'[i].target] # None
    BY <2>1 DEF Brings
  <2> QED
    BY <2>2, <2>3 DEF Fits
<1>3. ASSUME NEW c \in Copies, copy[c] = None, copy'[c] # None
      PROVE  \E i \in Ids : Names(association', i, Owned, c)
  <2>1. PICK row \in S : row.tag = Owned /\ row.target = c
    BY <1>3 DEF Brings
  <2>2. PICK i \in Ids : association'[i] = row
    BY <1>1
  <2>3. association'[i] # None
    BY <2>2, TagAssumption
  <2> QED
    BY <2>1, <2>2, <2>3 DEF Names
<1>4. Sound(association, copy) /\ \A c \in Copies : copy[c] # None => copy'[c] # None
  BY DEF PromiseInv, Brings
<1>5. /\ \A i \in Ids : association'[i] # association[i] => Fits(association', copy', i)
      /\ \A i \in Ids : association'[i] # association[i] /\ association[i] # None =>
            association[i].tag # Owned
      /\ \A c \in Copies : copy[c] = None /\ copy'[c] # None =>
            \E i \in Ids : Names(association', i, Owned, c)
  BY <1>1, <1>2, <1>3
<1> PICK a, b, k, m : a = association /\ b = association' /\ k = copy /\ m = copy'
  OBVIOUS
<1>6. /\ a \in AllRows /\ b \in AllRows /\ Sound(a, k)
      /\ \A c \in Copies : k[c] # None => m[c] # None
      /\ \A i \in Ids : b[i] # a[i] => Fits(b, m, i)
      /\ \A i \in Ids : b[i] # a[i] /\ a[i] # None => a[i].tag # Owned
      /\ \A c \in Copies : k[c] = None /\ m[c] # None => \E i \in Ids : Names(b, i, Owned, c)
  BY <1>1, <1>4, <1>5
<1>7. Sound(b, m)
  BY ONLY <1>6, SoundAfter
<1> QED
  BY <1>7

\* A step that adds records is one of the promise, told by what it sees.
LEMMA LoadedBy ==
    ASSUME revision' = revision + 1,
           \A t \in Intended \cup Locations : tag[t] > 0 => tag'[t] = tag[t],
           \A t \in Intended, x \in Targets : IntentIn(association, t, x) # None =>
               IntentIn(association', t, x) = IntentIn(association, t, x),
           \A c \in Copies : OwnedIn(association, copy, c) # None =>
               /\ OwnedIn(association', copy', c) = OwnedIn(association, copy, c)
               /\ PlaceIn(association', c) = PlaceIn(association, c)
    PROVE  Promise!Next
<1>1. /\ [t \in Intended \cup Locations |-> tag[t]] = LabelsOf(tag)
      /\ [t \in Intended \cup Locations |-> tag'[t]] = LabelsOf(tag')
  BY DEF LabelsOf
<1>2. /\ [t \in Intended |-> [x \in Targets |-> Intent(t, x)]] = IntentsOf(association)
      /\ [t \in Intended |-> [x \in Targets |-> Intent(t, x)']] = IntentsOf(association')
  BY SeenNow, SeenNext DEF IntentsOf
<1>3. /\ [c \in Copies |-> OwnedCopy(c)] = CopiesOf(association, copy)
      /\ [c \in Copies |-> OwnedCopy(c)'] = CopiesOf(association', copy')
  BY SeenNow, SeenNext DEF CopiesOf
<1>4. /\ [c \in Copies |-> Place(c)] = PlacesOf(association)
      /\ [c \in Copies |-> Place(c)'] = PlacesOf(association')
  BY SeenNow, SeenNext DEF PlacesOf
<1>5. \A t \in Intended \cup Locations : LabelsOf(tag)[t] > 0 => LabelsOf(tag')[t] = LabelsOf(tag)[t]
  BY DEF LabelsOf
<1>6. \A t \in Intended, x \in Targets :
          IntentsOf(association)[t][x] # None =>
              IntentsOf(association')[t][x] = IntentsOf(association)[t][x]
  BY DEF IntentsOf
<1>7. \A c \in Copies : CopiesOf(association, copy)[c] # None =>
          /\ CopiesOf(association', copy')[c] = CopiesOf(association, copy)[c]
          /\ PlacesOf(association')[c] = PlacesOf(association)[c]
  BY DEF CopiesOf, PlacesOf
<1>8. Promise!Loaded
  BY <1>1, <1>2, <1>3, <1>4, <1>5, <1>6, <1>7 DEF Promise!Loaded
<1> QED
  BY <1>8 DEF Promise!Next, Promise!OneChange

\* What a batch brings is added to what is seen.
LEMMA BroughtPromised ==
    ASSUME YieldInv, PromiseInv, NEW S \in SUBSET Rows, IsFiniteSet(S), Associate(SetToSeq(S)),
           Brings(S), revision' = revision + 1,
           \A t \in Intended \cup Locations : tag[t] > 0 => tag'[t] = tag[t]
    PROVE  Promise!Next
<1>1. /\ \A i \in Ids : association'[i] # association[i] =>
            association[i] = None /\ association'[i] \in S
      /\ Sound(association, copy) /\ Sound(association', copy')
  BY RowsCome, BroughtSound DEF PromiseInv
<1> PICK a, b, k, m : a = association /\ b = association' /\ k = copy /\ m = copy'
  OBVIOUS
<1>2. \A i \in Ids : b[i] # a[i] => a[i] = None /\ b[i] \in S
  BY <1>1
<1>3. Sound(a, k) /\ Sound(b, m)
  BY <1>1
<1>4. ASSUME NEW t \in Intended, NEW x \in Targets, IntentIn(a, t, x) # None
      PROVE  IntentIn(b, t, x) = IntentIn(a, t, x)
  <2>1. PICK i \in Ids : Names(a, i, t, x)
    BY <1>4, IntentNone
  <2>2. b[i] = a[i] /\ Names(b, i, t, x)
    BY <1>2, <2>1 DEF Names
  <2>3. IntentIn(a, t, x) = [quantity |-> a[i].quantity, revision |-> a[i].revision]
    BY <1>3, <2>1, IntentNamed
  <2>4. IntentIn(b, t, x) = [quantity |-> b[i].quantity, revision |-> b[i].revision]
    BY <1>3, <2>2, IntentNamed
  <2> QED
    BY <2>2, <2>3, <2>4
<1>5. ASSUME NEW c \in Copies, OwnedIn(a, k, c) # None
      PROVE  OwnedIn(b, m, c) = OwnedIn(a, k, c) /\ PlaceIn(b, c) = PlaceIn(a, c)
  <2>1. OwnedIn(a, k, c) = k[c] /\ OwnedIn(b, m, c) = m[c]
    BY <1>3, OwnedSeen
  <2>2. m[c] = k[c]
    BY <1>5, <2>1 DEF Brings
  <2>3. ASSUME NEW i \in Ids, a[i] # b[i], PlacesIt(a, i, c) \/ PlacesIt(b, i, c) PROVE FALSE
    <3>1. a[i] = None /\ b[i] \in S /\ b[i].tag \in Locations /\ b[i].target = c
      BY <1>2, <2>3 DEF PlacesIt
    <3>2. k[c] = None
      BY <3>1, TagAssumption DEF Brings
    <3> QED
      BY <1>5, <2>1, <3>2
  <2>4. \A i \in Ids : a[i] = b[i] \/ (~PlacesIt(a, i, c) /\ ~PlacesIt(b, i, c))
    BY <2>3
  <2>5. PlaceIn(b, c) = PlaceIn(a, c)
    BY <2>4, PlaceStands
  <2> QED
    BY <2>1, <2>2, <2>5
<1> QED
  BY <1>4, <1>5, LoadedBy

\* What a batch brings leaves what the requests rely on.
LEMMA BroughtPromises ==
    ASSUME YieldInv, PromiseInv, NEW S \in SUBSET Rows, IsFiniteSet(S), Associate(SetToSeq(S)),
           Brings(S), LoadsVerified', UNCHANGED <<held, work>>,
           \A v \in Workers, r \in S : r.tag \in Intended => TagRow(r.tag) \notin held[v],
           \A v \in Workers : Busy(v) =>
               /\ LeavesTags(v)
               /\ Asked(v).op = "insertCopies" => copy'[Asked(v).copy] = copy[Asked(v).copy]
    PROVE  PromiseInv'
<1>1. /\ issued \in Nat
      /\ \A i \in Ids : association'[i] # association[i] =>
            association[i] = None /\ association'[i] \in S /\ i > issued
  BY RowsCome, AccountAssumption DEF YieldInv, Shapes
<1>2. Sound(association', copy')
  BY BroughtSound
<1>3. Composed'
  BY DEF PromiseInv, Composed, Asked
<1>4. ASSUME NEW v \in Workers, Busy(v) PROVE Written(v)'
  <2>1. WorkerInv(v)
    BY DEF YieldInv
  <2>2. ASSUME NEW i \in Ids PROVE Leaves(v, i)
    <3> SUFFICES ASSUME association'[i] # association[i] PROVE Leaves(v, i)
      BY DEF Leaves
    <3>1. /\ association[i] = None /\ association'[i] \in S /\ i \notin Stored
          /\ ~(i <= issued) /\ i \notin 1 .. issued
      BY <1>1 DEF Stored, Ids
    <3>2. AssociationRow(i) \notin held[v]
      BY <2>1, <3>1 DEF WorkerInv, RowsHeld
    <3>3. i \notin DOMAIN Changes(v)
      BY <1>4, <2>1, <3>1 DEF WorkerInv, ChangesHeld
    <3>4. ~(Asked(v).op \in {"correctAssociation", "removeAssociation"} /\ Asked(v).id = i)
      BY <1>4, <2>1, <3>1 DEF WorkerInv, NamedStays
    <3> QED
      BY <3>1, <3>2, <3>3, <3>4 DEF Leaves
  <2>3. LeavesCopies(v)
    <3>1. \A c \in Copies : copy[c] # None => copy'[c] = copy[c]
      BY DEF Brings
    <3>2. ASSUME NEW c \in Copies, copy[c] # None, NEW i \in Ids,
                 association'[i] # association[i]
          PROVE  ~PlacesIt(association, i, c) /\ ~PlacesIt(association', i, c)
      <4>1. association[i] = None /\ association'[i] \in S
        BY <1>1, <3>2
      <4>2. association'[i].tag \in Locations => copy[association'[i].target] = None
        BY <4>1, TagAssumption DEF Brings
      <4> QED
        BY <3>2, <4>1, <4>2 DEF PlacesIt
    <3> QED
      BY <1>4, <3>1, <3>2 DEF LeavesCopies
  <2> QED
    BY <1>4, <2>2, <2>3, WrittenKept
<1>5. \A v \in Workers : Busy(v)' => Busy(v)
  BY DEF Busy
<1> QED
  BY <1>2, <1>3, <1>4, <1>5 DEF PromiseInv

\* The records a step sees, and what it leaves.
UnseenStep == UNCHANGED <<tag, association, copy, revision>>

LEMMA TagsBatchPromised ==
    ASSUME YieldInv, PromiseInv, NEW p \in Plans, NEW b \in BatchesMade(p), Insertable(b),
           b.kind = "tags", WriteBatch(b), UNCHANGED <<held, work>>, LoadsVerified'
    PROVE  PromiseInv' /\ Promise!Next
<1>1. /\ tag' = Over([t \in b.records |-> 1], tag) /\ revision' = revision + 1
      /\ UNCHANGED <<association, copy>> /\ \A t \in b.records : tag[t] = 0
  BY DEF WriteBatch, Insertable, Advance
<1>2. b.records \in SUBSET p.tags /\ b.records \in SUBSET Tags
  BY PlanAssumption DEF BatchesMade, CopyBatches
<1>3. \A t \in Tags : tag'[t] = IF t \in b.records THEN 1 ELSE tag[t]
  <2>1. tag = [t \in Tags |-> tag[t]]
    BY DEF YieldInv, Shapes
  <2> QED
    BY <1>1, <1>2, <2>1 DEF Over
<1>4. Promise!Next
  <2>1. \A t \in Intended \cup Locations : tag[t] > 0 => tag'[t] = tag[t]
    BY <1>1, <1>3 DEF Tags
  <2> QED
    BY <1>1, <2>1, LoadedBy
<1>5. ASSUME NEW v \in Workers, Busy(v) PROVE Written(v)'
  <2>1. Asked(v) \in Requests /\ TagWritten(v)
    BY <1>5, BusyFacts DEF PromiseInv, Written
  <2> PICK r : r = Asked(v)
    OBVIOUS
  <2>2. LeavesTags(v)
    <3>1. ASSUME r.op = "createTag" PROVE tag'[r.tag] = tag[r.tag]
      <4>1. r.tag \in Tags /\ r.tag \notin p.tags
        BY <2>1, <3>1, RequestAssumption, FreshAssumption DEF Tags
      <4> QED
        BY <1>2, <1>3, <4>1
    <3>2. ASSUME r.op = "correctTag", work[v].at = "commit" PROVE tag'[r.tag] = tag[r.tag]
      <4>1. r.tag \in Tags /\ tag[r.tag] > 0
        BY <2>1, <3>2, RequestAssumption DEF TagWritten
      <4> QED
        BY <1>1, <1>3, <4>1
    <3> QED
      BY <3>1, <3>2 DEF LeavesTags
  <2>3. (\A i \in Ids : Leaves(v, i)) /\ LeavesCopies(v)
    BY <1>1 DEF Leaves, LeavesCopies
  <2> QED
    BY <1>5, <2>2, <2>3, WrittenKept
<1>6. Sound(association', copy') /\ Composed'
  BY <1>1 DEF PromiseInv, Composed, Asked
<1>7. \A v \in Workers : Busy(v)' => Busy(v)
  BY DEF Busy
<1>8. PromiseInv'
  BY <1>5, <1>6, <1>7 DEF PromiseInv
<1> QED
  BY <1>4, <1>8

LEMMA CopiesBatchPromised ==
    ASSUME YieldInv, PromiseInv, NEW p \in Plans, NEW b \in BatchesMade(p), Insertable(b),
           b.kind = "copies", WriteBatch(b), UNCHANGED <<held, work>>, LoadsVerified'
    PROVE  PromiseInv' /\ Promise!Next
<1> PICK S, D : S = RowsBrought(b) /\ D = DOMAIN b.records
  OBVIOUS
<1>1. /\ tag' = [tag EXCEPT ![Owned] = IF tag[Owned] = 0 THEN 1 ELSE tag[Owned]]
      /\ copy' = Over([c \in DOMAIN b.records |-> [printing |-> b.records[c], revision |-> 1]], copy)
      /\ Associate(SetToSeq(S)) /\ revision' = revision + 1
  BY DEF WriteBatch, Advance, RowsBrought
<1>2. /\ \A c \in D : copy[c] = None
      /\ \A m, n \in b.memberships : m[2] = n[2] => m = n
  BY DEF Insertable
<1>3. /\ D \subseteq Copies /\ D \subseteq DOMAIN p.copies /\ b.memberships \subseteq Locations \X D
      /\ IsFiniteSet(S) /\ S \in SUBSET Rows /\ \A row \in S : row.tag \notin Intended
  BY CopiesBatch
<1>4. \A c \in Copies : (c \in D => copy'[c] # None) /\ (c \notin D => copy'[c] = copy[c])
  <2>1. copy' = Over([c \in DOMAIN b.records |-> [printing |-> b.records[c], revision |-> 1]], copy)
    BY <1>1
  <2>2. \A c \in Copies : (c \in DOMAIN b.records => copy'[c] # None)
                        /\ (c \notin DOMAIN b.records => copy'[c] = copy[c])
    BY <2>1, CopiesCome
  <2> QED
    BY <2>2
<1>5. ASSUME NEW row \in S
      PROVE  /\ row.target \in D
             /\ \/ row.tag = Owned /\ row = Row(Owned, row.target, None, 1)
                \/ /\ row.tag \in Locations
                   /\ \E m \in b.memberships : m[2] = row.target /\ row = Row(m[1], m[2], None, 1)
  <2>1. CASE \E c \in D : row = Row(Owned, c, None, 1)
    BY <2>1 DEF Row
  <2>2. CASE \E m \in b.memberships : row = Row(m[1], m[2], None, 1)
    <3>1. PICK m \in b.memberships : row = Row(m[1], m[2], None, 1)
      BY <2>2
    <3>2. m[1] \in Locations /\ m[2] \in D
      BY <1>3
    <3>3. row.target = m[2] /\ row.tag = m[1]
      BY <3>1 DEF Row
    <3> QED
      BY <3>1, <3>2, <3>3
  <2> QED
    BY <2>1, <2>2 DEF RowsBrought
<1>6. ASSUME NEW r \in S, NEW s \in S, Rivals(r, s) PROVE r = s
  <2>1. r.target = s.target /\ (r.tag = s.tag \/ (r.tag \in Locations /\ s.tag \in Locations))
    BY <1>6 DEF Rivals
  <2>2. CASE r.tag = Owned
    BY <1>5, <2>1, <2>2, TagAssumption
  <2>3. CASE r.tag \in Locations
    <3>1. PICK m \in b.memberships : m[2] = r.target /\ r = Row(m[1], m[2], None, 1)
      BY <1>5, <2>3, TagAssumption
    <3>2. s.tag \in Locations
      BY <2>1, <2>3
    <3>3. PICK n \in b.memberships : n[2] = s.target /\ s = Row(n[1], n[2], None, 1)
      BY <1>5, <3>2, TagAssumption
    <3>4. m = n
      BY <1>2, <2>1, <3>1, <3>3
    <3> QED
      BY <3>1, <3>3, <3>4
  <2> QED
    BY <1>5, <2>2, <2>3
<1>7. ASSUME NEW r \in S, NEW i \in Ids, association[i] # None, Rivals(r, association[i]) PROVE FALSE
  <2>1. copy[r.target] = None /\ r.tag \notin Intended
    BY <1>2, <1>3, <1>5
  <2>2. association[i].target = r.target /\ association[i].tag \notin Intended
    BY <1>7, <2>1, TagAssumption DEF Rivals
  <2> QED
    BY <1>7, <2>1, <2>2 DEF PromiseInv, Sound
<1>8. ASSUME NEW c \in Copies, copy[c] = None, copy'[c] # None
      PROVE  \E r \in S : r.tag = Owned /\ r.target = c
  <2>1. c \in D
    BY <1>4, <1>8
  <2>2. Row(Owned, c, None, 1) \in S
    BY <2>1 DEF RowsBrought
  <2> QED
    BY <2>2 DEF Row
<1>9. Brings(S)
  <2>1. \A r \in S : copy[r.target] = None /\ copy'[r.target] # None
    BY <1>2, <1>3, <1>4, <1>5
  <2>2. \A c \in Copies : copy[c] # None => copy'[c] = copy[c]
    BY <1>2, <1>4
  <2> QED
    BY <1>6, <1>7, <1>8, <2>1, <2>2 DEF Brings
<1>10. \A t \in Tags : t # Owned => tag'[t] = tag[t]
  BY <1>1 DEF YieldInv, Shapes
<1>11. ASSUME NEW v \in Workers, Busy(v)
       PROVE  /\ LeavesTags(v)
              /\ Asked(v).op = "insertCopies" => copy'[Asked(v).copy] = copy[Asked(v).copy]
  <2> PICK r : r = Asked(v)
    OBVIOUS
  <2>1. r \in Requests /\ TagWritten(v)
    BY <1>11, BusyFacts DEF PromiseInv, Written
  <2>2. ASSUME r.op = "createTag" \/ (r.op = "correctTag" /\ work[v].at = "commit")
        PROVE  tag'[r.tag] = tag[r.tag]
    <3>1. r.tag \in Tags /\ r.tag # Owned
      BY <2>1, <2>2, RequestAssumption, TagAssumption DEF TagWritten, Tags
    <3> QED
      BY <1>10, <3>1
  <2>3. ASSUME r.op = "insertCopies" PROVE copy'[r.copy] = copy[r.copy]
    <3>1. r.copy \in Copies /\ r.copy \notin DOMAIN p.copies
      BY <2>1, <2>3, RequestAssumption, FreshAssumption
    <3> QED
      BY <1>3, <1>4, <3>1
  <2> QED
    BY <2>2, <2>3 DEF LeavesTags
<1>12. PromiseInv'
  BY <1>1, <1>3, <1>9, <1>11, BroughtPromises
<1>13. Promise!Next
  <2>1. \A t \in Intended \cup Locations : tag[t] > 0 => tag'[t] = tag[t]
    BY <1>10, TagAssumption DEF Tags
  <2> QED
    BY <1>1, <1>3, <1>9, <2>1, BroughtPromised
<1> QED
  BY <1>12, <1>13

LEMMA AssociationsBatchPromised ==
    ASSUME YieldInv, PromiseInv, NEW p \in Plans, Verified(p), NEW b \in BatchesMade(p), Insertable(b),
           b.kind = "associations", WriteBatch(b), UNCHANGED <<held, work>>, LoadsVerified'
    PROVE  PromiseInv' /\ Promise!Next
<1> PICK S : S = b.records
  OBVIOUS
<1>1. Associate(SetToSeq(S)) /\ UNCHANGED <<tag, copy>> /\ revision' = revision + 1
  BY DEF WriteBatch, Advance
<1>2. /\ S \in SUBSET p.associations /\ S \in SUBSET Rows /\ IsFiniteSet(p.associations)
  BY PlanAssumption DEF BatchesMade, CopyBatches
<1>3. IsFiniteSet(S) /\ \A r \in S : r.tag \in Intended
  BY <1>2, FS_Subset DEF Verified
<1>4. /\ \A r \in S : Naming(r.tag, r.target) = {}
      /\ \A r, s \in S : r.tag = s.tag /\ r.target = s.target => r = s
      /\ \A r \in S, v \in Workers : TagRow(r.tag) \notin held[v]
  <2>1. \A r \in S : TagRow(r.tag) \in RowsOf(b)
    BY DEF RowsOf
  <2> QED
    BY <2>1 DEF Insertable
<1>5. Brings(S)
  <2>1. \A r, s \in S : Rivals(r, s) => r = s
    BY <1>3, <1>4, TagAssumption DEF Rivals
  <2>2. ASSUME NEW r \in S, NEW i \in Ids, association[i] # None, Rivals(r, association[i]) PROVE FALSE
    <3>1. association[i].tag = r.tag /\ association[i].target = r.target
      BY <1>3, <2>2, TagAssumption DEF Rivals
    <3>2. i \in Naming(r.tag, r.target)
      BY <2>2, <3>1 DEF Naming, Stored
    <3> QED
      BY <1>4, <3>2
  <2> QED
    BY <1>1, <1>3, <2>1, <2>2 DEF Brings
<1>6. PromiseInv'
  BY <1>1, <1>2, <1>3, <1>4, <1>5, BroughtPromises DEF LeavesTags
<1>7. Promise!Next
  BY <1>1, <1>2, <1>3, <1>5, BroughtPromised
<1> QED
  BY <1>6, <1>7

\* A step that changes no record and nothing a request wrote.
LEMMA UnseenPromised ==
    ASSUME PromiseInv, UNCHANGED <<tag, association, copy, held, work>>, LoadsVerified'
    PROVE  PromiseInv'
<1>1. ASSUME NEW v \in Workers, Busy(v)' PROVE Written(v)'
  <2>1. Busy(v) /\ work'[v] = work[v] /\ held'[v] = held[v]
    BY <1>1 DEF Busy
  <2> QED
    BY <2>1, WrittenStays DEF PromiseInv
<1>2. Sound(association', copy') /\ Composed'
  BY DEF PromiseInv, Composed, Asked
<1> QED
  BY <1>1, <1>2 DEF PromiseInv

LEMMA BatchPromised ==
    ASSUME YieldInv, PromiseInv, NEW p \in Plans, Verified(p), NEW b \in BatchesMade(p), Insertable(b),
           WriteBatch(b), UNCHANGED <<held, work>>, LoadsVerified'
    PROVE  PromiseInv' /\ (Promise!Next \/ UnseenStep)
<1>1. CASE b.kind = "tags"
  BY <1>1, TagsBatchPromised
<1>2. CASE b.kind = "copies"
  BY <1>2, CopiesBatchPromised
<1>3. CASE b.kind = "associations"
  BY <1>3, AssociationsBatchPromised
<1>4. CASE UNCHANGED <<tag, association, copy, revision>>
  BY <1>4, UnseenPromised DEF UnseenStep
<1> QED
  BY <1>1, <1>2, <1>3, <1>4 DEF WriteBatch

\* A load verifies its plan before it starts.
LEMMA LoadingVerified ==
    ASSUME LoadersInv, LoadsVerified, NEW l \in Loaders, Loading(l) PROVE LoadsVerified'
<1>1. ASSUME NEW next, NEW at \in {"start", "apply"}, NEW known,
             loader[l].at \in {"recorded", "start", "apply"}, Proceeds(l, at, known, next)
      PROVE  LoadsVerified'
  BY <1>1 DEF LoadersInv, LoadsVerified, Proceeds
<1>2. ASSUME NEW outcome, Ended(l, outcome) PROVE LoadsVerified'
  BY <1>2 DEF LoadersInv, LoadsVerified, Ended
<1>3. ASSUME NEW p \in Plans, Load(l, p) PROVE LoadsVerified'
  BY <1>3 DEF LoadersInv, LoadsVerified, Load
<1>4. CASE ReadRecorded(l)
  BY <1>1, <1>2, <1>4 DEF ReadRecorded
<1>5. CASE Start(l)
  BY <1>1, <1>2, <1>5 DEF Start
<1>6. CASE Skip(l)
  BY <1>1, <1>6 DEF Skip, Following
<1>7. CASE ApplyBatch(l)
  BY <1>1, <1>2, <1>7 DEF ApplyBatch, Following
<1>8. CASE Complete(l)
  BY <1>2, <1>8 DEF Complete
<1>9. CASE Interrupt(l)
  BY <1>2, <1>9 DEF Interrupt
<1> QED
  BY <1>3, <1>4, <1>5, <1>6, <1>7, <1>8, <1>9 DEF Loading

LEMMA LoadingPromised ==
    ASSUME YieldInv, LoadersInv, PromiseInv, NEW l \in Loaders, Loading(l)
    PROVE  PromiseInv' /\ (Promise!Next \/ UnseenStep)
<1>1. LoadsVerified'
  BY LoadingVerified DEF PromiseInv
<1>2. CASE UNCHANGED vars
  BY <1>1, <1>2, UnseenPromised DEF vars, UnseenStep
<1>3. CASE ApplyBatch(l) /\ ~UNCHANGED vars
  <2> DEFINE n == loader[l].next
             p == loader[l].plan
             b == Batches(l)[n]
  <2>1. /\ loader[l].at = "apply" /\ n <= Len(Batches(l)) /\ Insertable(b) /\ WriteBatch(b)
        /\ UNCHANGED <<held, work>>
    BY <1>3 DEF ApplyBatch
  <2>2. p \in Plans /\ n \in Nat \ {0} /\ Verified(p)
    BY <2>1 DEF LoadersInv, PromiseInv, LoadsVerified
  <2>3. Batches(l) \in Seq(BatchesMade(p))
    BY <2>2, BatchesMadeOf DEF Batches
  <2>4. b \in BatchesMade(p)
    BY <2>1, <2>2, <2>3
  <2> HIDE DEF n, p, b
  <2> QED
    BY <1>1, <2>1, <2>2, <2>4, BatchPromised
<1> QED
  BY <1>2, <1>3
     DEF Loading, Load, ReadRecorded, Start, Skip, ApplyBatch, Complete, Interrupt

LEMMA StepPromises ==
    ASSUME YieldInv, PromiseInv, NEW w \in Workers, Step(w), UNCHANGED loader
    PROVE  PromiseInv'
<1>1. CASE LockTag(w)
  BY <1>1, LockTagPromises
<1>2. CASE StoreReference(w)
  BY <1>2, StoreReferencePromises
<1>3. CASE ReferencesStored(w)
  BY <1>3, ReferencesStoredPromises
<1>4. CASE InsertAssociation(w)
  BY <1>4, InsertAssociationPromises
<1>5. CASE CorrectAssociation(w)
  BY <1>5, CorrectAssociationPromises
<1>6. CASE ClaimKey(w)
  BY <1>6, ClaimKeyPromises
<1>7. CASE RemoveAssociation(w)
  BY <1>7, RemoveAssociationPromises
<1>8. CASE Explain(w)
  BY <1>8, ExplainPromises
<1>9. CASE ReadRequired(w)
  BY <1>9, ReadRequiredPromises
<1>10. CASE AddRequired(w)
  BY <1>10, AddRequiredPromises
<1>11. CASE UpdateCopy(w)
  BY <1>11, UpdateCopyPromises
<1>12. CASE MoveLocation(w)
  BY <1>12, MoveLocationPromises
<1>13. CASE InsertCopies(w)
  BY <1>13, InsertCopiesPromises
<1>14. CASE WriteTag(w)
  BY <1>14, WriteTagPromises
<1>15. CASE Commit(w)
  BY <1>15, CommitPromises
<1> QED
  BY <1>1, <1>2, <1>3, <1>4, <1>5, <1>6, <1>7, <1>8, <1>9, <1>10, <1>11, <1>12, <1>13,
       <1>14, <1>15 DEF Step

LEMMA NextPromises ==
    ASSUME YieldInv, PromiseInv, Next, UNCHANGED loader PROVE PromiseInv'
<1>1. CASE \E w \in Workers, r \in Requests : Open(w, r)
  BY <1>1, OpenPromises
<1>2. CASE \E w \in Workers : Step(w)
  BY <1>2, StepPromises
<1>3. CASE \E w \in Workers : RollBack(w)
  BY <1>3, RollBackPromises
<1>4. CASE \E r \in Readers, t \in Intended : ListAssociations(r, t)
  BY <1>4, ListAssociationsPromises
<1> QED
  BY <1>1, <1>2, <1>3, <1>4 DEF Next

\* The records an account starts with are sound.
LEMMA HeldSound ==
    ASSUME NEW account \in Accounts, Holds(account) PROVE Sound(association, copy)
<1> PICK s : s = account.association
  OBVIOUS
<1>1. /\ s \in Seq(Rows) /\ Len(s) \in Nat /\ Len(s) <= MaxIssued /\ DOMAIN s = 1 .. Len(s)
      /\ MaxIssued \in Nat /\ copy = account.copy
  BY AccountsAssumption, AccountAssumption DEF Holds
<1>2. \A i \in Ids : association[i] = IF i \in DOMAIN s THEN s[i] ELSE None
  BY DEF Holds
<1>3. \A i \in Ids : association[i] # None => i \in DOMAIN s /\ association[i] = s[i]
  BY <1>2
<1>4. \A i \in DOMAIN s : i \in Ids /\ association[i] = s[i] /\ s[i] \in Rows
  BY <1>1, <1>2 DEF Ids
<1>5. /\ \A i, j \in DOMAIN s :
             s[i].target = s[j].target
             /\ (s[i].tag = s[j].tag \/ {s[i].tag, s[j].tag} \subseteq Locations) => i = j
      /\ \A i \in DOMAIN s : s[i].tag \notin Intended => copy[s[i].target] # None
      /\ \A c \in Copies : copy[c] # None => \E i \in DOMAIN s : s[i].tag = Owned /\ s[i].target = c
  BY <1>1, AccountsAssumption
<1>6. ASSUME NEW i \in Ids, NEW j \in Ids, association[i] # None, association[j] # None,
             Rivals(association[i], association[j])
      PROVE  i = j
  BY <1>3, <1>5, <1>6 DEF Rivals
<1>7. ASSUME NEW c \in Copies, copy[c] # None PROVE \E i \in Ids : Names(association, i, Owned, c)
  <2>1. PICK i \in DOMAIN s : s[i].tag = Owned /\ s[i].target = c
    BY <1>5, <1>7
  <2>2. association[i] # None
    BY <1>4, TagAssumption
  <2> QED
    BY <1>4, <2>1, <2>2 DEF Names
<1>8. \A i \in Ids : association[i] # None /\ association[i].tag \notin Intended =>
          copy[association[i].target] # None
  BY <1>3, <1>5
<1> QED
  BY <1>6, <1>7, <1>8 DEF Sound

LEMMA PromiseInit ==
    ASSUME LoadInit PROVE PromiseInv
<1>1. Sound(association, copy)
  BY HeldSound DEF LoadInit, Init
<1>2. /\ \A w \in Workers : work[w].at = "idle"
      /\ \A l \in Loaders : loader[l].at = "idle"
  BY DEF LoadInit, Init, Idle, Resting
<1> QED
  BY <1>1, <1>2 DEF PromiseInv, Composed, LoadsVerified, Busy

\* A step that changes none of the records is none of the promise.
LEMMA UnseenStutters ==
    ASSUME UnseenStep PROVE UNCHANGED Promise!records
<1>1. \A t, x : Intent(t, x)' = Intent(t, x)
  BY SeenNow, SeenNext DEF UnseenStep
<1>2. \A c : Place(c)' = Place(c) /\ OwnedCopy(c)' = OwnedCopy(c)
  BY SeenNow, SeenNext DEF UnseenStep
<1> QED
  BY <1>1, <1>2 DEF UnseenStep, Promise!records

\* A request's statements change no record before its commit.
LEMMA StatementsUnseen ==
    ASSUME Next PROVE UnseenStep \/ \E w \in Workers : Commit(w)
<1>1. ASSUME NEW w \in Workers, Step(w), ~Commit(w) PROVE UnseenStep
  BY <1>1 DEF Step, LockTag, StoreReference, ReferencesStored, InsertAssociation,
     CorrectAssociation, ClaimKey, RemoveAssociation, Explain, ReadRequired, AddRequired,
     UpdateCopy, MoveLocation, InsertCopies, WriteTag, tables, UnseenStep
<1>2. ASSUME NEW w \in Workers, (\E r \in Requests : Open(w, r)) \/ RollBack(w) PROVE UnseenStep
  BY <1>2 DEF Open, RollBack, tables, UnseenStep
<1>3. ASSUME NEW r \in Readers, NEW t \in Intended, ListAssociations(r, t) PROVE UnseenStep
  BY <1>3 DEF ListAssociations, tables, UnseenStep
<1> QED
  BY <1>1, <1>2, <1>3 DEF Next

LEMMA NextPromised ==
    ASSUME YieldInv, PromiseInv, Next PROVE Promise!Next \/ UnseenStep
BY StatementsUnseen, Commits DEF Committed

\* A target is named once by a tag and a copy is owned and in one place at
\* most, at any time; and what an open transaction wrote is the change it was
\* asked for, of the records as they are (organization.ts, copies.ts,
\* imports/confirmation.ts, migration.ts).
THEOREM PromiseInductive == LoadSpec => [](YieldInv /\ LoadersInv /\ PromiseInv)
<1>1. LoadInit => PromiseInv
  BY PromiseInit
<1>2. YieldInv /\ LoadersInv /\ PromiseInv /\ [LoadNext]_loadVars => PromiseInv'
  <2> SUFFICES ASSUME YieldInv, LoadersInv, PromiseInv, [LoadNext]_loadVars PROVE PromiseInv'
    OBVIOUS
  <2>1. CASE Next /\ UNCHANGED loading
    BY <2>1, NextPromises DEF loading
  <2>2. CASE \E l \in Loaders : Loading(l)
    BY <2>2, LoadingPromised
  <2>3. CASE UNCHANGED loadVars
    BY <2>3, UnseenPromised DEF loadVars, vars, loading, LoadsVerified, PromiseInv
  <2> QED
    BY <2>1, <2>2, <2>3 DEF LoadNext
<1> QED
  BY <1>1, <1>2, YieldInductive, PTL DEF LoadSpec

\* The records implement PrivateRecords: however the statements of requests
\* and the batches of loads interleave, each commit is one change of the
\* account's records, as they are when it commits, under a private revision
\* of its own, and nothing else changes what a reader sees.
THEOREM KeepsThePromise == LoadSpec => KeepsPromise
<1>1. YieldInv /\ LoadersInv /\ PromiseInv /\ [LoadNext]_loadVars => [Promise!Next]_(Promise!records)
  <2> SUFFICES ASSUME YieldInv, LoadersInv, PromiseInv, [LoadNext]_loadVars
               PROVE  Promise!Next \/ UnseenStep
    BY UnseenStutters
  <2>1. CASE Next /\ UNCHANGED loading
    BY <2>1, NextPromised
  <2>2. CASE \E l \in Loaders : Loading(l)
    BY <2>2, LoadingPromised
  <2>3. CASE UNCHANGED loadVars
    BY <2>3 DEF loadVars, vars, UnseenStep
  <2> QED
    BY <2>1, <2>2, <2>3 DEF LoadNext
<1> QED
  BY <1>1, PromiseInductive, PTL DEF LoadSpec, KeepsPromise, Promise!Spec

--------
(* The batches of a plan: every one brings something, and no two bring the  *)
(* same.                                                                    *)

\* The records of a batch by their identities, and the table they go to.
Carried(b) == IF b.kind = "copies" THEN DOMAIN b.records ELSE b.records
Table(b) == IF b.kind \in {"sessions", "entries"} THEN "imported" ELSE b.kind
Apart(b, c) == Table(b) = Table(c) => Carried(b) \cap Carried(c) = {}
Separate(s) == \A i, j \in DOMAIN s : i # j => Apart(s[i], s[j])

LEMMA Multiples ==
    ASSUME NEW m \in Nat, NEW n \in Nat, NEW b \in Nat, m <= n PROVE m * b <= n * b
<1>1. n = m + (n - m) /\ n - m \in Nat
  OBVIOUS
<1> DEFINE d == n - m
<1>2. (m + d) * b = m * b + d * b /\ d * b \in Nat
  BY <1>1
<1> QED
  BY <1>1, <1>2

\* Rounding up.
LEMMA GroupsNeeded ==
    ASSUME NEW l \in Nat, NEW b \in Nat \ {0}
    PROVE  LET k == (l + b - 1) \div b
           IN  k \in Nat /\ k * b <= l + b - 1
<1>1. l + b - 1 \in Nat
  OBVIOUS
<1> DEFINE a == l + b - 1
<1>2. a \in Nat
  BY <1>1
<1> HIDE DEF a
<1>3. a \div b \in Nat /\ a = b * (a \div b) + (a % b) /\ a % b \in Nat
  BY <1>2
<1> QED
  BY <1>3 DEF a

LEMMA ChunksApart ==
    ASSUME NEW S, IsFiniteSet(S)
    PROVE  /\ \A n \in DOMAIN Chunks(S) : Chunks(S)[n] # {}
           /\ \A m, n \in DOMAIN Chunks(S) : m # n => Chunks(S)[m] \cap Chunks(S)[n] = {}
<1> PICK s, B : s = SetToSeq(S) /\ B = BatchRecords
  OBVIOUS
<1> DEFINE l == Len(s)
           k == (l + B - 1) \div B
           last(n) == Min({n * B, l})
<1>1. /\ l \in Nat /\ B \in Nat \ {0}
      /\ \A i, j \in 1 .. l : s[i] = s[j] => i = j
  BY SetAsSequence, SetEnumerated, LoadAssumption
<1>2. /\ Chunks(S) = [n \in 1 .. k |-> {s[i] : i \in (n - 1) * B + 1 .. last(n)}]
  BY DEF Chunks
<1>3. k \in Nat /\ k * B <= l + B - 1
  BY <1>1, GroupsNeeded
<1> HIDE DEF l, k
<1>4. ASSUME NEW n \in 1 .. k
      PROVE  /\ n * B \in Nat /\ (n - 1) * B \in Nat /\ n * B = (n - 1) * B + B
             /\ last(n) \in Nat /\ last(n) <= l /\ last(n) <= n * B
             /\ (n - 1) * B + 1 <= last(n)
  <2>1. n \in Nat /\ n - 1 \in Nat /\ n <= k
    BY <1>3
  <2>2. n * B \in Nat /\ (n - 1) * B \in Nat /\ n * B = (n - 1) * B + B
    BY <1>1, <2>1
  <2>3. n * B <= k * B
    BY <1>1, <1>3, <2>1, Multiples
  <2> PICK a, c, e : a = n * B /\ c = (n - 1) * B /\ e = k * B
    OBVIOUS
  <2>4. {a, l} \in SUBSET Nat /\ {a, l} # {}
    BY <1>1, <2>2
  <2>5. Min({a, l}) \in {a, l} /\ Min({a, l}) <= a /\ Min({a, l}) <= l
    BY <2>4, LeastOf
  <2>6. c + 1 <= l /\ c + 1 <= a
    <3>1. a \in Nat /\ c \in Nat /\ a = c + B /\ a <= e /\ e <= l + B - 1 /\ e \in Nat
      BY <1>1, <1>3, <2>2, <2>3
    <3> QED
      BY <1>1, <3>1
  <2>7. Min({a, l}) \in Nat /\ c + 1 <= Min({a, l})
    BY <1>1, <2>2, <2>5, <2>6
  <2> QED
    BY <2>2, <2>5, <2>7
<1>5. ASSUME NEW n \in 1 .. k PROVE Chunks(S)[n] # {}
  <2> PICK c, d : c = (n - 1) * B /\ d = last(n)
    OBVIOUS
  <2>1. c + 1 \in c + 1 .. d
    <3>1. c \in Nat /\ d \in Nat /\ c + 1 <= d
      BY <1>4
    <3> QED
      BY ONLY <3>1
  <2>2. Chunks(S)[n] = {s[i] : i \in c + 1 .. d}
    BY <1>2
  <2>3. s[c + 1] \in {s[i] : i \in c + 1 .. d}
    BY ONLY <2>1
  <2> QED
    BY ONLY <2>2, <2>3
<1>6. ASSUME NEW m \in 1 .. k, NEW n \in 1 .. k, m < n PROVE Chunks(S)[m] \cap Chunks(S)[n] = {}
  <2>1. m * B <= (n - 1) * B
    <3>1. m \in Nat /\ n - 1 \in Nat /\ m <= n - 1
      BY <1>3, <1>6
    <3> QED
      BY <1>1, <3>1, Multiples
  <2> PICK a, b, c, d, e : a = (m - 1) * B /\ b = last(m) /\ c = (n - 1) * B /\ d = last(n) /\ e = m * B
    OBVIOUS
  <2>2. /\ a \in Nat /\ b \in Nat /\ c \in Nat /\ d \in Nat /\ e \in Nat
        /\ b <= l /\ d <= l /\ b <= e /\ e <= c
    BY <1>4, <2>1
  <2>3. /\ Chunks(S)[m] = {s[i] : i \in a + 1 .. b} /\ Chunks(S)[n] = {s[i] : i \in c + 1 .. d}
    BY <1>2
  <2>4. ASSUME NEW i \in a + 1 .. b, NEW j \in c + 1 .. d PROVE s[i] # s[j]
    <3>1. i \in 1 .. l /\ j \in 1 .. l /\ i # j
      BY <1>1, <2>2
    <3> QED
      BY <1>1, <3>1
  <2>5. ASSUME NEW x \in Chunks(S)[m], x \in Chunks(S)[n] PROVE FALSE
    <3>1. PICK i \in a + 1 .. b : x = s[i]
      BY ONLY <2>3, <2>5
    <3>2. PICK j \in c + 1 .. d : x = s[j]
      BY ONLY <2>3, <2>5
    <3> QED
      BY ONLY <2>4, <3>1, <3>2
  <2> QED
    BY <2>5
<1>7. DOMAIN Chunks(S) = 1 .. k
  BY <1>2
<1>8. \A m, n \in 1 .. k : m # n => m < n \/ n < m
  BY <1>3
<1> QED
  BY <1>5, <1>6, <1>7, <1>8

GroupsOf(kind, S) == {b \in [kind : {kind}, records : SUBSET S] : b.records # {}}
CopyGroups(p) == {b \in CopyBatches(p) : DOMAIN b.records # {}}

LEMMA GroupsSeparate ==
    ASSUME NEW S, IsFiniteSet(S), NEW kind, kind # "copies"
    PROVE  /\ Batch(kind, Chunks(S)) \in Seq(GroupsOf(kind, S))
           /\ Separate(Batch(kind, Chunks(S)))
<1> PICK c, g : c = Chunks(S) /\ g = Batch(kind, c)
  OBVIOUS
<1>1. /\ c \in Seq(SUBSET S) /\ (\A n \in DOMAIN c : c[n] # {})
      /\ \A m, n \in DOMAIN c : m # n => c[m] \cap c[n] = {}
  BY ChunksOf, ChunksApart
<1>2. Len(c) \in Nat /\ c \in [1 .. Len(c) -> SUBSET S] /\ DOMAIN c = 1 .. Len(c)
  BY <1>1
<1>3. g = [n \in 1 .. Len(c) |-> [kind |-> kind, records |-> c[n]]]
  BY <1>2 DEF Batch
<1>4. \A n \in 1 .. Len(c) : g[n] \in GroupsOf(kind, S) /\ g[n].kind = kind /\ g[n].records = c[n]
  BY <1>1, <1>2, <1>3 DEF GroupsOf
<1>5. g \in Seq(GroupsOf(kind, S))
  <2> PICK G : G = GroupsOf(kind, S)
    OBVIOUS
  <2>1. g = [n \in 1 .. Len(c) |-> g[n]]
    BY <1>3
  <2>2. g \in [1 .. Len(c) -> G]
    BY ONLY <1>4, <2>1, G = GroupsOf(kind, S)
  <2>3. g \in Seq(G)
    BY ONLY <1>2, <2>2
  <2> QED
    BY ONLY <2>3, G = GroupsOf(kind, S)
<1>6. Separate(g)
  <2>1. DOMAIN g = DOMAIN c
    BY <1>2, <1>3
  <2> QED
    BY <1>1, <1>2, <1>4, <2>1 DEF Separate, Apart, Carried
<1> QED
  BY <1>5, <1>6

LEMMA CopiesSeparate ==
    ASSUME NEW p \in Plans
    PROVE  LET c == Chunks(DOMAIN p.copies)
               g == [n \in DOMAIN c |->
                        [kind |-> "copies", records |-> [x \in c[n] |-> p.copies[x]],
                         memberships |-> {at \in p.placed : at[2] \in c[n]}]]
           IN  g \in Seq(CopyGroups(p)) /\ Separate(g)
<1> DEFINE D == DOMAIN p.copies
           made(C) == [kind |-> "copies", records |-> [x \in C |-> p.copies[x]],
                       memberships |-> {at \in p.placed : at[2] \in C}]
<1>1. IsFiniteSet(D) /\ \A x \in D : p.copies[x] \in Printings
  BY PlanAssumption
<1> PICK c, g : c = Chunks(D) /\ g = [n \in DOMAIN c |-> made(c[n])]
  OBVIOUS
<1>2. /\ c \in Seq(SUBSET D) /\ (\A n \in DOMAIN c : c[n] # {})
      /\ \A m, n \in DOMAIN c : m # n => c[m] \cap c[n] = {}
  BY <1>1, ChunksOf, ChunksApart
<1>3. Len(c) \in Nat /\ c \in [1 .. Len(c) -> SUBSET D] /\ DOMAIN c = 1 .. Len(c)
  BY <1>2
<1>4. ASSUME NEW C \in SUBSET D, C # {} PROVE made(C) \in CopyGroups(p)
  <2>1. [x \in C |-> p.copies[x]] \in Partial(D, Printings)
    <3>1. [x \in C |-> p.copies[x]] \in [C -> Printings]
      BY <1>1
    <3> QED
      BY <3>1 DEF Partial
  <2>2. {at \in p.placed : at[2] \in C} \in SUBSET p.placed
    OBVIOUS
  <2>3. \A m \in made(C).memberships : m[2] \in DOMAIN made(C).records
    OBVIOUS
  <2>4. DOMAIN made(C).records = C
    OBVIOUS
  <2>5. made(C) \in CopyBatches(p)
    BY <2>1, <2>2, <2>3 DEF CopyBatches
  <2> QED
    BY <1>4, <2>4, <2>5 DEF CopyGroups
<1>5. \A n \in 1 .. Len(c) :
          g[n] \in CopyGroups(p) /\ g[n].kind = "copies" /\ DOMAIN g[n].records = c[n]
  <2> TAKE n \in 1 .. Len(c)
  <2>1. g[n] = made(c[n]) /\ c[n] \in SUBSET D /\ c[n] # {}
    BY <1>2, <1>3
  <2>2. made(c[n]).kind = "copies" /\ DOMAIN made(c[n]).records = c[n]
    OBVIOUS
  <2> HIDE DEF made
  <2> QED
    BY <1>4, <2>1, <2>2
<1>6. DOMAIN g = 1 .. Len(c)
  BY <1>3
<1>7. g \in Seq(CopyGroups(p))
  <2>1. g = [n \in 1 .. Len(c) |-> g[n]]
    BY <1>3
  <2>2. g \in [1 .. Len(c) -> CopyGroups(p)]
    BY ONLY <1>5, <2>1
  <2> QED
    BY ONLY <1>3, <2>2
<1>8. Separate(g)
  BY <1>2, <1>3, <1>5, <1>6 DEF Separate, Apart, Carried
<1> QED
  BY <1>7, <1>8

\* Batches that go to other tables, or bring other records, may follow.
LEMMA BatchesFollow ==
    ASSUME NEW A, NEW B, NEW s \in Seq(A), NEW t \in Seq(B), Separate(s), Separate(t),
           \A a \in A, b \in B : Apart(a, b)
    PROVE  s \o t \in Seq(A \cup B) /\ Separate(s \o t)
<1> PICK m, n, u : m = Len(s) /\ n = Len(t) /\ u = s \o t
  OBVIOUS
<1>1. /\ m \in Nat /\ n \in Nat /\ Len(u) = m + n
      /\ \A i \in 1 .. m : u[i] = s[i] /\ s[i] \in A
      /\ \A i \in m + 1 .. m + n : u[i] = t[i - m] /\ t[i - m] \in B
      /\ DOMAIN s = 1 .. m /\ DOMAIN t = 1 .. n /\ DOMAIN u = 1 .. m + n
  BY ConcatProperties
<1>2. u \in Seq(A \cup B)
  <2>1. s \in Seq(A \cup B) /\ t \in Seq(A \cup B)
    OBVIOUS
  <2> QED
    BY <2>1
<1>3. ASSUME NEW i \in 1 .. m + n, NEW j \in 1 .. m + n, i < j PROVE Apart(u[i], u[j])
  <2>1. CASE j <= m
    <3>1. i \in 1 .. m /\ j \in 1 .. m /\ i # j
      BY <1>1, <1>3, <2>1
    <3> QED
      BY <1>1, <3>1 DEF Separate
  <2>2. CASE m < i
    <3>1. /\ i \in m + 1 .. m + n /\ j \in m + 1 .. m + n
          /\ i - m \in 1 .. n /\ j - m \in 1 .. n /\ i - m # j - m
      BY <1>1, <1>3, <2>2
    <3>2. u[i] = t[i - m] /\ u[j] = t[j - m]
      BY <1>1, <3>1
    <3>3. \A a, b \in 1 .. n : a # b => Apart(t[a], t[b])
      BY <1>1 DEF Separate
    <3> QED
      BY ONLY <3>1, <3>2, <3>3
  <2>3. CASE i <= m /\ m < j
    <3>1. i \in 1 .. m /\ j \in m + 1 .. m + n
      BY <1>1, <1>3, <2>3
    <3> QED
      BY <1>1, <3>1
  <2> QED
    BY <1>1, <2>1, <2>2, <2>3
<1>4. ASSUME NEW i \in 1 .. m + n, NEW j \in 1 .. m + n, i # j PROVE Apart(u[i], u[j])
  <2>1. i < j \/ j < i
    BY <1>1, <1>4
  <2> QED
    BY <1>3, <2>1 DEF Apart
<1> QED
  BY <1>1, <1>2, <1>4 DEF Separate

LEMMA BatchesApart ==
    ASSUME NEW p \in Plans
    PROVE  /\ BatchesOf[p] \in Seq(BatchesMade(p)) /\ Separate(BatchesOf[p])
           /\ \A n \in DOMAIN BatchesOf[p] : Carried(BatchesOf[p][n]) # {}
<1> DEFINE G1 == GroupsOf("tags", p.tags)
           G2 == CopyGroups(p)
           G3 == GroupsOf("associations", p.associations)
           G4 == GroupsOf("sessions", p.sessions)
           G5 == GroupsOf("entries", p.pending)
           c == Chunks(DOMAIN p.copies)
           g1 == Batch("tags", Chunks(p.tags))
           g2 == [n \in DOMAIN c |->
                        [kind |-> "copies", records |-> [x \in c[n] |-> p.copies[x]],
                         memberships |-> {at \in p.placed : at[2] \in c[n]}]]
           g3 == Batch("associations", Chunks(p.associations))
           g4 == Batch("sessions", Chunks(p.sessions))
           g5 == Batch("entries", Chunks(p.pending))
<1>1. /\ IsFiniteSet(p.tags) /\ IsFiniteSet(p.associations)
      /\ IsFiniteSet(p.sessions) /\ IsFiniteSet(p.pending) /\ p.sessions \cap p.pending = {}
  BY PlanAssumption, KindsAssumption
<1>2. /\ g1 \in Seq(G1) /\ Separate(g1) /\ g3 \in Seq(G3) /\ Separate(g3)
      /\ g4 \in Seq(G4) /\ Separate(g4) /\ g5 \in Seq(G5) /\ Separate(g5)
  BY <1>1, GroupsSeparate
<1>3. g2 \in Seq(G2) /\ Separate(g2)
  BY CopiesSeparate
<1>4. BatchesOf[p] = g1 \o g2 \o g3 \o g4 \o g5
  BY DEF BatchesOf, MigrationBatches
<1> HIDE DEF g1, g2, g3, g4, g5
<1>5. /\ \A a \in G1 : Table(a) = "tags" /\ Carried(a) # {}
      /\ \A a \in G2 : Table(a) = "copies" /\ Carried(a) # {}
      /\ \A a \in G3 : Table(a) = "associations" /\ Carried(a) # {}
      /\ \A a \in G4 : Table(a) = "imported" /\ Carried(a) \subseteq p.sessions /\ Carried(a) # {}
      /\ \A a \in G5 : Table(a) = "imported" /\ Carried(a) \subseteq p.pending /\ Carried(a) # {}
  <2>1. /\ \A a \in G1 : Table(a) = "tags" /\ Carried(a) # {}
        /\ \A a \in G3 : Table(a) = "associations" /\ Carried(a) # {}
    BY DEF GroupsOf, Table, Carried
  <2>2. \A a \in G2 : Table(a) = "copies" /\ Carried(a) # {}
    BY DEF CopyGroups, CopyBatches, Table, Carried
  <2>3. \A a \in G4 : Table(a) = "imported" /\ Carried(a) \subseteq p.sessions /\ Carried(a) # {}
    BY DEF GroupsOf, Table, Carried
  <2>4. \A a \in G5 : Table(a) = "imported" /\ Carried(a) \subseteq p.pending /\ Carried(a) # {}
    BY DEF GroupsOf, Table, Carried
  <2> QED
    BY <2>1, <2>2, <2>3, <2>4
<1>6. G1 \subseteq BatchesMade(p) /\ G2 \subseteq BatchesMade(p) /\ G3 \subseteq BatchesMade(p)
      /\ G4 \subseteq BatchesMade(p) /\ G5 \subseteq BatchesMade(p)
  BY DEF BatchesMade, GroupsOf, CopyGroups
<1> HIDE DEF G1, G2, G3, G4, G5
<1>7. g1 \o g2 \in Seq(G1 \cup G2) /\ Separate(g1 \o g2)
  <2>1. \A a \in G1, b \in G2 : Apart(a, b)
    BY <1>5 DEF Apart
  <2> QED
    BY <1>2, <1>3, <2>1, BatchesFollow
<1>8. g1 \o g2 \o g3 \in Seq(G1 \cup G2 \cup G3) /\ Separate(g1 \o g2 \o g3)
  <2>1. \A a \in G1 \cup G2, b \in G3 : Apart(a, b)
    BY <1>5 DEF Apart
  <2> QED
    BY <1>2, <1>7, <2>1, BatchesFollow
<1>9. g1 \o g2 \o g3 \o g4 \in Seq(G1 \cup G2 \cup G3 \cup G4) /\ Separate(g1 \o g2 \o g3 \o g4)
  <2>1. \A a \in G1 \cup G2 \cup G3, b \in G4 : Apart(a, b)
    BY <1>5 DEF Apart
  <2> QED
    BY <1>2, <1>8, <2>1, BatchesFollow
<1>10. /\ g1 \o g2 \o g3 \o g4 \o g5 \in Seq(G1 \cup G2 \cup G3 \cup G4 \cup G5)
       /\ Separate(g1 \o g2 \o g3 \o g4 \o g5)
  <2>1. \A a \in G1 \cup G2 \cup G3 \cup G4, b \in G5 : Apart(a, b)
    BY <1>1, <1>5 DEF Apart
  <2> QED
    BY <1>2, <1>9, <2>1, BatchesFollow
<1> DEFINE G == G1 \cup G2 \cup G3 \cup G4 \cup G5
<1>11. /\ \A b \in G : b \in BatchesMade(p) /\ Carried(b) # {}
       /\ BatchesOf[p] \in Seq(G) /\ Separate(BatchesOf[p])
  BY <1>4, <1>5, <1>6, <1>10
<1> HIDE DEF G
<1>12. \A n \in DOMAIN BatchesOf[p] : BatchesOf[p][n] \in G
  BY <1>11
<1> QED
  BY <1>11, <1>12, BatchesMadeOf

--------
(* What a request does to the records leaves a load what it found.          *)

\* What is there stays there.
Grows ==
    /\ \A t \in Tags : tag[t] > 0 => tag'[t] > 0
    /\ \A c \in Copies : copy[c] # None => copy'[c] # None
    /\ imported \subseteq imported'

\* Nothing of a plan came.
Spares(p) ==
    /\ \A t \in p.tags : tag[t] = 0 => tag'[t] = 0
    /\ \A c \in DOMAIN p.copies : copy[c] = None => copy'[c] = None

LEMMA BatchRecordsOf ==
    ASSUME NEW p \in Plans, NEW b \in BatchesMade(p)
    PROVE  /\ b.kind \in {"tags", "copies", "associations", "sessions", "entries"}
           /\ b.kind = "tags" => b.records \subseteq p.tags /\ p.tags \subseteq Tags
           /\ b.kind = "copies" => DOMAIN b.records \subseteq DOMAIN p.copies
                                   /\ DOMAIN p.copies \subseteq Copies
           /\ b.kind = "sessions" => b.records \subseteq p.sessions
           /\ b.kind = "entries" => b.records \subseteq p.pending
<1>1. p.tags \subseteq Tags /\ DOMAIN p.copies \subseteq Copies
  BY PlanAssumption
<1>2. b.kind = "copies" => DOMAIN b.records \subseteq DOMAIN p.copies
  BY DEF BatchesMade, CopyBatches, Partial
<1>3. b.kind = "tags" => b.records \subseteq p.tags
  BY DEF BatchesMade, CopyBatches
<1>4. /\ b.kind = "sessions" => b.records \subseteq p.sessions
      /\ b.kind = "entries" => b.records \subseteq p.pending
  BY DEF BatchesMade, CopyBatches
<1>5. b.kind \in {"tags", "copies", "associations", "sessions", "entries"}
  BY DEF BatchesMade, CopyBatches
<1> QED
  BY <1>1, <1>2, <1>3, <1>4, <1>5

LEMMA PresentStays ==
    ASSUME NEW p \in Plans, NEW b \in BatchesMade(p), Grows, Present(b) PROVE Present(b)'
<1>1. CASE b.kind = "tags"
  BY <1>1, BatchRecordsOf DEF Present, Grows
<1>2. CASE b.kind = "copies"
  BY <1>2, BatchRecordsOf DEF Present, Grows
<1>3. CASE b.kind = "associations"
  BY <1>3 DEF Present
<1>4. CASE b.kind \in {"sessions", "entries"}
  BY <1>4 DEF Present, Grows
<1> QED
  BY <1>1, <1>2, <1>3, <1>4, BatchRecordsOf

LEMMA AbsentStays ==
    ASSUME NEW p \in Plans, NEW b \in BatchesMade(p), Spares(p), UNCHANGED imported, Absent(b)
    PROVE  Absent(b)'
<1>1. CASE b.kind = "tags"
  BY <1>1, BatchRecordsOf DEF Absent, Spares
<1>2. CASE b.kind = "copies"
  BY <1>2, BatchRecordsOf DEF Absent, Spares
<1>3. CASE b.kind = "associations"
  BY <1>3 DEF Absent
<1>4. CASE b.kind \in {"sessions", "entries"}
  BY <1>4 DEF Absent
<1> QED
  BY <1>1, <1>2, <1>3, <1>4, BatchRecordsOf

LEMMA BatchAt ==
    ASSUME NEW p \in Plans
    PROVE  /\ Len(BatchesOf[p]) \in Nat /\ DOMAIN BatchesOf[p] = 1 .. Len(BatchesOf[p])
           /\ \A n \in 1 .. Len(BatchesOf[p]) : BatchesOf[p][n] \in BatchesMade(p)
<1>1. BatchesOf[p] \in Seq(BatchesMade(p))
  BY BatchesMadeOf
<1> QED
  BY <1>1

LEMMA AgreesStays ==
    ASSUME NEW s \in Snapshots, migration[s] # None, LoadingAgrees(s),
           UNCHANGED <<migration, receipt, imported>>, Grows, \A p \in Plans : Spares(p)
    PROVE  LoadingAgrees(s)'
<1> DEFINE p == migration[s].plan
           k == Count(s)
<1>1. p \in Plans /\ k \in 0 .. Len(BatchesOf[p]) /\ Len(BatchesOf[p]) \in Nat
  BY BatchAt DEF LoadingAgrees, Migrations
<1>2. \A n \in 1 .. Len(BatchesOf[p]) : BatchesOf[p][n] \in BatchesMade(p)
  BY <1>1, BatchAt
<1>3. ASSUME NEW n \in 1 .. k PROVE Present(BatchesOf[p][n])'
  <2>1. n \in 1 .. Len(BatchesOf[p]) /\ Present(BatchesOf[p][n])
    BY <1>1, <1>3 DEF LoadingAgrees
  <2>2. BatchesOf[p][n] \in BatchesMade(p)
    BY <1>2, <2>1
  <2> PICK b : b = BatchesOf[p][n]
    OBVIOUS
  <2>3. Present(b)'
    BY <1>1, <2>1, <2>2, PresentStays
  <2>4. (BatchesOf[p][n])' = b
    OBVIOUS
  <2> QED
    BY <2>3, <2>4
<1>4. ASSUME NEW n \in k + 1 .. Len(BatchesOf[p]) PROVE Absent(BatchesOf[p][n])'
  <2>1. n \in 1 .. Len(BatchesOf[p]) /\ Absent(BatchesOf[p][n])
    BY <1>1, <1>4 DEF LoadingAgrees
  <2>2. BatchesOf[p][n] \in BatchesMade(p)
    BY <1>2, <2>1
  <2> PICK b : b = BatchesOf[p][n]
    OBVIOUS
  <2>3. Absent(b)'
    BY <1>1, <2>1, <2>2, AbsentStays
  <2> QED
    BY <2>3
<1>5. Count(s)' = k /\ UNCHANGED <<migration, receipt>>
  BY DEF Count
<1> QED
  BY <1>3, <1>4, <1>5 DEF LoadingAgrees

LEMMA RecordsStayHeld ==
    ASSUME Grows, migration' = migration, RecordsHeld PROVE RecordsHeld'
BY DEF RecordsHeld, Grows

LEMMA CommitGrows ==
    ASSUME YieldInv, PromiseInv, NEW w \in Workers, AsksOfRecords(w), Commit(w), UNCHANGED imported
    PROVE  Grows /\ \A p \in Plans : Spares(p)
<1> DEFINE r == Asked(w)
<1>1. /\ Busy(w) /\ work[w].at = "commit"
      /\ \A c \in Copies : copy'[c] = IF c \in DOMAIN Copying(w) THEN Copying(w)[c] ELSE copy[c]
      /\ \A t \in Tags : tag'[t] = IF t \in DOMAIN Tagging(w) THEN Tagging(w)[t] ELSE tag[t]
  BY CommitRecords
<1>2. work[w].written \in Writtens /\ r \in Requests /\ Written(w)
  BY <1>1, TransactionChanges, BusyFacts DEF PromiseInv
<1>3. \A c \in DOMAIN Copying(w) : Copying(w)[c] # None
  <2>1. Copying(w) \in Partial(Copies, CopyRows)
    BY <1>2 DEF Writtens, Copying
  <2> QED
    BY <2>1, TagAssumption DEF Partial
<1>4. Grows
  BY <1>1, <1>3 DEF Grows, AsksOfRecords
<1>5. ASSUME NEW p \in Plans, NEW t \in p.tags, tag[t] = 0 PROVE tag'[t] = 0
  <2>1. t \in Tags /\ t # Owned
    BY PlanAssumption, KindsAssumption
  <2>2. t \notin DOMAIN Tagging(w)
    <3>1. CASE r.op \notin {"createTag", "correctTag"}
      BY <1>2, <2>1, <3>1 DEF Written, TagWritten
    <3>2. CASE r.op = "createTag"
      BY <1>1, <1>2, <3>2, FreshAssumption DEF Written, TagWritten
    <3>3. CASE r.op = "correctTag"
      BY <1>1, <1>2, <1>5, <3>3 DEF Written, TagWritten
    <3> QED
      BY <3>1, <3>2, <3>3
  <2> QED
    BY <1>1, <1>5, <2>1, <2>2
<1>6. ASSUME NEW p \in Plans, NEW c \in DOMAIN p.copies, copy[c] = None PROVE copy'[c] = None
  <2>1. c \in Copies
    BY PlanAssumption
  <2>2. c \notin DOMAIN Copying(w)
    <3>1. CASE r.op \in {"createTag", "correctTag"}
      BY <1>2, <3>1 DEF Written, TagWritten
    <3>2. CASE r.op \in {"insertAssociation", "correctAssociation", "removeAssociation"}
      BY <1>2, <3>2 DEF Written, AssociationWritten
    <3>3. CASE r.op = "confirm"
      BY <1>2, <3>3 DEF Written, ConfirmWritten
    <3>4. CASE r.op = "moveCopyLocation"
      BY <1>1, <1>2, <1>6, <3>4 DEF Written, MoveWritten, CopyWritten
    <3>5. CASE r.op = "correctCopy"
      BY <1>1, <1>2, <1>6, <3>5 DEF Written, CorrectionWritten, CopyWritten
    <3>6. CASE r.op = "insertCopies"
      BY <1>1, <1>2, <3>6, FreshAssumption DEF Written, CopiesWritten
    <3> QED
      BY <1>2, <3>1, <3>2, <3>3, <3>4, <3>5, <3>6, RequestFacts
  <2> QED
    BY <1>1, <1>6, <2>1, <2>2
<1> QED
  BY <1>4, <1>5, <1>6 DEF Spares

\* An association is stored of a tag or a copy that is there.
LEMMA CommitHeld ==
    ASSUME YieldInv, PromiseInv, NEW w \in Workers, AsksOfRecords(w), Commit(w),
           UNCHANGED <<imported, migration>>, Stored # {} => RecordsHeld
    PROVE  (Stored # {} => RecordsHeld)'
<1> DEFINE r == Asked(w)
<1>1. /\ Busy(w) /\ work[w].at = "commit"
      /\ \A i \in Ids : association'[i] = IF i \in DOMAIN Changes(w) THEN Changes(w)[i]
                                          ELSE association[i]
      /\ \A c \in Copies : copy'[c] = IF c \in DOMAIN Copying(w) THEN Copying(w)[c] ELSE copy[c]
  BY CommitRecords
<1>2. r \in Requests /\ Written(w) /\ DOMAIN Changes(w) \in SUBSET Ids
  BY <1>1, TransactionChanges, BusyFacts DEF PromiseInv
<1>3. Grows
  BY CommitGrows
<1>4. CASE Stored # {}
  BY <1>3, <1>4, RecordsStayHeld
<1>5. CASE Stored = {} /\ DOMAIN Changes(w) = {}
  BY <1>1, <1>5 DEF Stored
<1>6. CASE Stored = {} /\ DOMAIN Changes(w) # {}
  <2>1. CASE r.op \in {"createTag", "correctTag"}
    BY <1>2, <1>6, <2>1 DEF Written, TagWritten
  <2>2. CASE r.op \in {"insertAssociation", "confirm"}
    <3>1. r.tag \in Tags /\ tag[r.tag] > 0
      BY <1>2, <2>2, RequestAssumption DEF AsksOfRecords, Tags
    <3> QED
      BY <1>3, <3>1 DEF RecordsHeld, Grows
  <2>3. CASE r.op \in {"correctAssociation", "removeAssociation"}
    BY <1>1, <1>2, <1>6, <2>3 DEF Written, AssociationWritten
  <2>4. CASE r.op \in {"moveCopyLocation", "correctCopy"}
    <3>1. r.copy \in Copies /\ copy[r.copy] # None
      BY <1>1, <1>2, <2>4, RequestAssumption DEF Written, MoveWritten, CorrectionWritten, CopyWritten
    <3> QED
      BY <1>3, <3>1 DEF RecordsHeld, Grows
  <2>5. CASE r.op = "insertCopies"
    <3>1. r.copy \in Copies /\ r.printing \in Printings
      BY <1>2, <2>5, RequestAssumption
    <3>2. copy'[r.copy] = [printing |-> r.printing, revision |-> 1]
      BY <1>1, <1>2, <2>5, <3>1 DEF Written, CopiesWritten
    <3>3. copy'[r.copy] # None
      BY <3>1, <3>2, TagAssumption DEF CopyRows
    <3> QED
      BY <3>1, <3>3 DEF RecordsHeld
  <2> QED
    BY <1>2, <2>1, <2>2, <2>3, <2>4, <2>5, RequestFacts
<1> QED
  BY <1>4, <1>5, <1>6

\* A statement asks for the same, and writes no tag but one that is then there.
LEMMA StepTags ==
    ASSUME YieldInv, PromiseInv, NEW w \in Workers, Busy(w), AsksOfRecords(w), Step(w) \/ RollBack(w)
    PROVE  /\ Asked(w)' = Asked(w) /\ \A v \in Workers \ {w} : work'[v] = work[v]
           /\ Busy(w)' => \A t \in DOMAIN Tagging(w)' : Tagging(w)'[t] > 0
<1> DEFINE Same == /\ Asked(w)' = Asked(w) /\ \A v \in Workers \ {w} : work'[v] = work[v]
                   /\ Busy(w)' => \A t \in DOMAIN Tagging(w)' : Tagging(w)'[t] > 0
<1>1. /\ work[w] \in Transactions /\ work = [v \in Workers |-> work[v]]
      /\ work[w].written \in Writtens /\ Asked(w) \in Requests
  BY TransactionChanges, BusyFacts DEF YieldInv, Shapes
<1>2. ASSUME NEW t, Becomes(w, t), t.request = work[w].request,
             t.at # "ended" => \A x \in DOMAIN t.written.tag : t.written.tag[x] > 0
      PROVE  Same
  <2>1. work'[w] = t /\ \A v \in Workers \ {w} : work'[v] = work[v]
    BY <1>1, <1>2 DEF Becomes
  <2> QED
    BY <1>2, <2>1 DEF Asked, Tagging, Busy
<1>3. \A x \in DOMAIN work[w].written.tag : work[w].written.tag[x] > 0
  BY DEF AsksOfRecords, Tagging
<1>4. ASSUME NEW at, Goes(w, at)
      PROVE  Same
  <2> DEFINE t == [work[w] EXCEPT !.at = at]
  <2>1. t.request = work[w].request /\ t.written = work[w].written
    BY <1>1, PlainFields
  <2>2. Becomes(w, t)
    BY <1>4 DEF Goes
  <2> HIDE DEF t
  <2> QED
    BY <1>2, <1>3, <2>1, <2>2
<1>5. ASSUME NEW outcome, Ends(w, outcome)
      PROVE  Same
  <2> DEFINE t == [work[w] EXCEPT !.at = "ended", !.outcome = outcome]
  <2>1. t.at = "ended" /\ t.request = work[w].request
    BY <1>1 DEF Transactions, TransactionRecords
  <2>2. Becomes(w, t)
    BY <1>5 DEF Ends
  <2> HIDE DEF t
  <2> QED
    BY <1>2, <2>1, <2>2
<1>6. ASSUME NEW at, NEW written, Writes(w, at, written),
             \A x \in DOMAIN written.tag : written.tag[x] > 0
      PROVE  Same
  <2> DEFINE t == [work[w] EXCEPT !.at = at, !.written = written]
  <2>1. t.request = work[w].request /\ t.written = written
    BY <1>1, TransactionFields
  <2>2. Becomes(w, t)
    BY <1>6 DEF Writes
  <2> HIDE DEF t
  <2> QED
    BY <1>2, <1>6, <2>1, <2>2
<1>7. ASSUME NEW at, NEW i, NEW row, Updates(w, at, i, row) PROVE Same
  <2> DEFINE f == Put(work[w].written.association, i, row)
  <2>1. Writes(w, at, [work[w].written EXCEPT !.association = f])
    BY <1>7 DEF Updates
  <2> HIDE DEF f
  <2>2. [work[w].written EXCEPT !.association = f].tag = work[w].written.tag
    BY <1>1, WrittenParts
  <2> QED
    BY <1>3, <1>6, <2>1, <2>2
<1>8. ASSUME NEW at, NEW t, NEW x, NEW quantity, Inserts(w, at, t, x, quantity) PROVE Same
  <2> DEFINE f == Put(work[w].written.association, issued + 1, Row(t, x, quantity, 1))
  <2>1. Writes(w, at, [work[w].written EXCEPT !.association = f])
    BY <1>8 DEF Inserts
  <2> HIDE DEF f
  <2>2. [work[w].written EXCEPT !.association = f].tag = work[w].written.tag
    BY <1>1, WrittenParts
  <2> QED
    BY <1>3, <1>6, <2>1, <2>2
<1>9. ASSUME NEW at, NEW t, Writes(w, at, [work[w].written EXCEPT !.tag = Put(@, t, 1)]) \/
                            (Writes(w, at, [work[w].written EXCEPT !.tag = Put(@, t, tag[t] + 1)])
                             /\ t \in Tags)
      PROVE Same
  <2>1. PICK q : q > 0 /\ Writes(w, at, [work[w].written EXCEPT !.tag = Put(@, t, q)])
    <3>1. CASE Writes(w, at, [work[w].written EXCEPT !.tag = Put(@, t, 1)])
      BY <3>1
    <3>2. CASE Writes(w, at, [work[w].written EXCEPT !.tag = Put(@, t, tag[t] + 1)]) /\ t \in Tags
      <4>1. tag[t] \in Nat
        BY <3>2 DEF YieldInv, Shapes
      <4>2. tag[t] + 1 > 0
        BY <4>1
      <4> QED
        BY <3>2, <4>2
    <3> QED
      BY <1>9, <3>1, <3>2
  <2> DEFINE f == Put(work[w].written.tag, t, q)
  <2>2. Writes(w, at, [work[w].written EXCEPT !.tag = f])
    BY <2>1
  <2>3. \A x \in DOMAIN f : f[x] > 0
    BY <1>3, <2>1 DEF Put
  <2> HIDE DEF f
  <2>4. [work[w].written EXCEPT !.tag = f].tag = f
    BY <1>1, WrittenParts
  <2> QED
    BY <1>6, <2>2, <2>3, <2>4
<1> HIDE DEF Same
<1>10. CASE LockTag(w)
  <2>1. CASE Asked(w).op = "insertCopies" /\ tag[Owned] = 0
    <3>1. Writes(w, "refer", [work[w].written EXCEPT !.tag = Put(@, Owned, 1)])
      BY <1>10, <2>1 DEF LockTag
    <3> QED
      BY <1>9, <3>1 DEF Same
  <2>2. CASE ~(Asked(w).op = "insertCopies" /\ tag[Owned] = 0)
    <3>1. Writes(w, "refer", work[w].written)
      BY <1>10, <2>2 DEF LockTag
    <3> QED
      BY <1>3, <1>6, <3>1 DEF Same
  <2> QED
    BY <2>1, <2>2
<1>11. CASE StoreReference(w)
  <2> DEFINE p == NextReference(w)
             written == IF p \in reference THEN work[w].written
                        ELSE [work[w].written EXCEPT !.reference = @ \cup {p}]
             t == [work[w] EXCEPT !.refer = @ \ {p}, !.written = written]
  <2>1. Becomes(w, t)
    BY <1>11 DEF StoreReference
  <2>2. written.tag = work[w].written.tag
    BY <1>1, WrittenParts
  <2> HIDE DEF written
  <2>3. t.request = work[w].request /\ t.written = written
    BY <1>1 DEF Transactions, TransactionRecords
  <2> HIDE DEF t
  <2> QED
    BY <1>2, <1>3, <2>1, <2>2, <2>3 DEF Same
<1>12. CASE ReferencesStored(w)
  BY <1>4, <1>12 DEF ReferencesStored, Same
<1>13. CASE InsertAssociation(w)
  BY <1>5, <1>8, <1>13 DEF InsertAssociation, Same
<1>14. CASE CorrectAssociation(w)
  BY <1>4, <1>14 DEF CorrectAssociation, Same
<1>15. CASE ClaimKey(w)
  BY <1>5, <1>7, <1>15 DEF ClaimKey, Same
<1>16. CASE RemoveAssociation(w)
  BY <1>4, <1>7, <1>16 DEF RemoveAssociation, Same
<1>17. CASE Explain(w)
  BY <1>5, <1>17 DEF Explain, Same
<1>18. CASE ReadRequired(w)
  <2>1. ASSUME NEW found, Becomes(w, [work[w] EXCEPT !.at = "add", !.found = found]) PROVE Same
    <3> DEFINE t == [work[w] EXCEPT !.at = "add", !.found = found]
    <3>1. t.request = work[w].request /\ t.written = work[w].written
      BY <1>1 DEF Transactions, TransactionRecords
    <3> HIDE DEF t
    <3> QED
      BY <1>2, <1>3, <2>1, <3>1 DEF Same, t
  <2> QED
    BY <1>4, <1>18, <2>1 DEF ReadRequired, Same
<1>19. CASE AddRequired(w)
  <2>1. ASSUME NEW x, NEW i, NEW row,
               Becomes(w, [work[w] EXCEPT !.at = "read", !.targets = @ \ {x},
                   !.written = [work[w].written EXCEPT !.association = Put(@, i, row)]])
        PROVE  Same
    <3> DEFINE f == Put(work[w].written.association, i, row)
               written == [work[w].written EXCEPT !.association = f]
               t == [work[w] EXCEPT !.at = "read", !.targets = @ \ {x}, !.written = written]
    <3>1. Becomes(w, t)
      BY <2>1
    <3> HIDE DEF f
    <3>2. written.tag = work[w].written.tag
      BY <1>1, WrittenParts
    <3> HIDE DEF written
    <3>3. t.request = work[w].request /\ t.written = written
      BY <1>1 DEF Transactions, TransactionRecords
    <3> HIDE DEF t
    <3> QED
      BY <1>2, <1>3, <3>1, <3>2, <3>3 DEF Same
  <2> QED
    BY <1>5, <1>19, <2>1 DEF AddRequired, Same
<1>20. CASE UpdateCopy(w)
  <2>1. ASSUME NEW at, NEW c, NEW row, Writes(w, at, [work[w].written EXCEPT !.copy = Put(@, c, row)])
        PROVE  Same
    <3> DEFINE f == Put(work[w].written.copy, c, row)
    <3>1. Writes(w, at, [work[w].written EXCEPT !.copy = f])
      BY <2>1
    <3> HIDE DEF f
    <3>2. [work[w].written EXCEPT !.copy = f].tag = work[w].written.tag
      BY <1>1, WrittenParts
    <3> QED
      BY <1>3, <1>6, <3>1, <3>2 DEF Same
  <2> QED
    BY <1>4, <1>20, <2>1 DEF UpdateCopy, Same
<1>21. CASE MoveLocation(w)
  BY <1>4, <1>7, <1>8, <1>21 DEF MoveLocation, Same
<1>22. CASE InsertCopies(w)
  <2> DEFINE r == Asked(w)
             f == Put(work[w].written.copy, r.copy, [printing |-> r.printing, revision |-> 1])
             g == Put(work[w].written.association, issued + 1, Row(Owned, r.copy, None, 1))
             written == [work[w].written EXCEPT !.copy = f, !.association = g]
  <2>1. Writes(w, "commit", written)
    BY <1>22 DEF InsertCopies
  <2> HIDE DEF f, g
  <2>2. written.tag = work[w].written.tag
    BY <1>1 DEF Writtens
  <2> HIDE DEF written
  <2> QED
    BY <1>3, <1>6, <2>1, <2>2 DEF Same
<1>23. CASE WriteTag(w)
  <2>1. Asked(w).tag \in Tags
    BY <1>1, <1>23, RequestAssumption DEF WriteTag, Tags
  <2> QED
    BY <1>4, <1>9, <1>23, <2>1 DEF WriteTag, Same
<1>24. CASE Commit(w)
  BY <1>5, <1>24 DEF Commit, Same
<1>25. CASE RollBack(w)
  BY <1>5, <1>25 DEF RollBack, Same
<1> QED
  BY <1>10, <1>11, <1>12, <1>13, <1>14, <1>15, <1>16, <1>17, <1>18, <1>19, <1>20, <1>21, <1>22,
       <1>23, <1>24, <1>25 DEF Step, Same

LEMMA NextGrows ==
    ASSUME YieldInv, PromiseInv, WholeInv, Next, UNCHANGED loading
    PROVE  Grows /\ (\A p \in Plans : Spares(p)) /\ (Stored # {} => RecordsHeld)'
<1>1. CASE UnseenStep
  <2>1. Grows /\ \A p \in Plans : Spares(p)
    BY <1>1 DEF UnseenStep, loading, Grows, Spares
  <2> QED
    BY <1>1, <2>1, RecordsStayHeld DEF UnseenStep, loading, Stored, WholeInv
<1>2. ASSUME NEW w \in Workers, Commit(w) PROVE Grows /\ \A p \in Plans : Spares(p)
  <2>1. Busy(w) /\ AsksOfRecords(w)
    BY <1>2, CommitRecords DEF WholeInv
  <2> QED
    BY <1>2, <2>1, CommitGrows DEF loading
<1>3. ASSUME NEW w \in Workers, Commit(w) PROVE (Stored # {} => RecordsHeld)'
  <2>1. Busy(w) /\ AsksOfRecords(w)
    BY <1>3, CommitRecords DEF WholeInv
  <2> QED
    BY <1>3, <2>1, CommitHeld DEF loading, WholeInv
<1> QED
  BY <1>1, <1>2, <1>3, StatementsUnseen

\* What a request adds to is there, for every transaction alike.
LEMMA AsksStay ==
    ASSUME YieldInv, NEW w \in Workers, Busy(w), AsksOfRecords(w), Grows, Asked(w)' = Asked(w),
           Busy(w)' => \A t \in DOMAIN Tagging(w)' : Tagging(w)'[t] > 0, Busy(w)'
    PROVE  AsksOfRecords(w)'
<1>1. Asked(w) \in Requests
  BY BusyFacts
<1>2. Asked(w).op \in {"insertAssociation", "confirm"} => Asked(w).tag \in Tags
  BY <1>1, RequestAssumption DEF Tags
<1>3. Asked(w).op \in {"insertAssociation", "confirm"} => tag'[Asked(w).tag] > 0
  BY <1>2 DEF AsksOfRecords, Grows
<1> QED
  BY <1>3 DEF AsksOfRecords

LEMMA NextAsks ==
    ASSUME YieldInv, PromiseInv, WholeInv, Next, UNCHANGED loading
    PROVE  (\A w \in Workers : Busy(w) => AsksOfRecords(w))'
<1>1. Grows
  BY NextGrows
<1>2. ASSUME NEW v \in Workers, work'[v] = work[v], Busy(v)' PROVE AsksOfRecords(v)'
  <2>1. Busy(v) /\ Asked(v)' = Asked(v) /\ Tagging(v)' = Tagging(v)
    BY <1>2 DEF Busy, Asked, Tagging
  <2>2. AsksOfRecords(v)
    BY <2>1 DEF WholeInv
  <2> QED
    BY <1>1, <1>2, <2>1, <2>2, AsksStay DEF AsksOfRecords
<1>3. ASSUME NEW w \in Workers, NEW r \in Requests, Open(w, r), NEW v \in Workers, Busy(v)'
      PROVE  AsksOfRecords(v)'
  <2>1. CASE v # w
    <3>1. work'[v] = work[v]
      BY <1>3, <2>1 DEF Open, Becomes, YieldInv, Shapes
    <3> QED
      BY <1>2, <1>3, <3>1
  <2>2. CASE v = w
    <3> DEFINE t == [at |-> First(r), request |-> r, written |-> NothingWritten,
                     refer |-> ReferencesOf(r),
                     targets |-> IF r.op = "confirm" THEN DOMAIN r.wanted ELSE {},
                     found |-> None, outcome |-> None]
    <3>1. Admitted(r) /\ work' = [work EXCEPT ![w] = t] /\ tag' = tag
      BY <1>3 DEF Open, Becomes, tables
    <3>2. t.request = r /\ DOMAIN t.written.tag = {}
      BY DEF NothingWritten
    <3> HIDE DEF t
    <3>3. work'[w] = t
      BY <3>1 DEF YieldInv, Shapes
    <3>4. Asked(w)' = r /\ DOMAIN Tagging(w)' = {}
      BY <3>2, <3>3 DEF Asked, Tagging
    <3>5. r.op \in {"insertAssociation", "confirm"} => tag'[r.tag] > 0
      BY <3>1 DEF Admitted
    <3> QED
      BY <2>2, <3>4, <3>5 DEF AsksOfRecords
  <2> QED
    BY <2>1, <2>2
<1>4. ASSUME NEW w \in Workers, Step(w) \/ RollBack(w), NEW v \in Workers, Busy(v)'
      PROVE  AsksOfRecords(v)'
  <2>1. Busy(w)
    BY <1>4 DEF RollBack, Step, LockTag, StoreReference, ReferencesStored, InsertAssociation,
       CorrectAssociation, ClaimKey, RemoveAssociation, Explain, ReadRequired, AddRequired,
       UpdateCopy, MoveLocation, InsertCopies, WriteTag, Commit, Busy
  <2>2. AsksOfRecords(w)
    BY <2>1 DEF WholeInv
  <2>3. /\ Asked(w)' = Asked(w) /\ \A u \in Workers \ {w} : work'[u] = work[u]
        /\ Busy(w)' => \A t \in DOMAIN Tagging(w)' : Tagging(w)'[t] > 0
    BY <1>4, <2>1, <2>2, StepTags
  <2>4. CASE v = w
    BY <1>1, <1>4, <2>1, <2>2, <2>3, <2>4, AsksStay
  <2>5. CASE v # w
    BY <1>2, <1>4, <2>3, <2>5
  <2> QED
    BY <2>4, <2>5
<1>5. ASSUME NEW r \in Readers, NEW t \in Intended, ListAssociations(r, t), NEW v \in Workers, Busy(v)'
      PROVE  AsksOfRecords(v)'
  BY <1>2, <1>5 DEF ListAssociations
<1> QED
  BY <1>3, <1>4, <1>5 DEF Next

--------
(* Loads beside one another.                                                *)

\* Migrations and what is recorded of them only go on, and an account that
\* holds records takes no further migration.
Onward ==
    /\ \A s \in Snapshots : migration[s] # None =>
          /\ migration'[s] # None /\ migration'[s].plan = migration[s].plan
          /\ migration[s].state = "completed" => migration'[s].state = "completed"
    /\ RecordsHeld => RecordsHeld' /\ \A s \in Snapshots : migration[s] = None => migration'[s] = None
    /\ \A s \in Snapshots : Count(s) \in Nat /\ Count(s)' \in Nat /\ Count(s) <= Count(s)'

LEMMA LoaderStays ==
    ASSUME NEW l \in Loaders, LoaderAgrees(l), Onward, loader'[l] = loader[l]
    PROVE  LoaderAgrees(l)'
<1> PICK s : s = Snapshot(l)
  OBVIOUS
<1>1. Snapshot(l)' = s /\ (loader[l].at # "idle" => s \in Snapshots)
  BY KindsAssumption DEF LoaderAgrees, Snapshot
<1>2. /\ loader[l].at # "idle" /\ RecordedInput(l) => RecordedInput(l)'
      /\ loader[l].at # "idle" /\ OtherInput(l) => OtherInput(l)'
  BY <1>1 DEF RecordedInput, OtherInput, Onward
<1>3. ASSUME loader[l].at = "apply"
      PROVE  /\ RecordedInput(l)' /\ loader[l].next \in 1 .. Count(s)' + 1
             /\ loader[l].known \subseteq 1 .. Count(s)'
  <2>1. /\ RecordedInput(l) /\ loader[l].next \in 1 .. Count(s) + 1
        /\ loader[l].known \subseteq 1 .. Count(s)
    BY <1>3 DEF LoaderAgrees
  <2>2. Count(s) \in Nat /\ Count(s)' \in Nat /\ Count(s) <= Count(s)'
    BY <1>1, <1>3 DEF Onward
  <2> QED
    BY <1>2, <1>3, <2>1, <2>2
<1>4. loader[l].at = "ended" /\ loader[l].outcome = "loaded" =>
         RecordedInput(l)' /\ migration'[s].state = "completed"
  BY <1>1, <1>2 DEF LoaderAgrees, Onward, RecordedInput
<1>5. loader[l].at = "ended" /\ loader[l].outcome = "conflict" =>
         OtherInput(l)' \/ (migration'[s] = None /\ RecordsHeld')
  BY <1>1, <1>2 DEF LoaderAgrees, Onward
<1>6. (Count(Snapshot(l)))' = Count(s)'
  BY <1>1 DEF Count
<1>7. /\ loader[l].at \in {"idle", "recorded", "start", "apply", "ended"}
      /\ loader[l].at # "idle" => loader[l].plan \in Plans
  BY DEF LoaderAgrees
<1> QED
  BY <1>1, <1>3, <1>4, <1>5, <1>6, <1>7 DEF LoaderAgrees

LEMMA NextWhole ==
    ASSUME YieldInv, PromiseInv, WholeInv, Next, UNCHANGED loading PROVE WholeInv'
<1>1. Grows /\ (\A p \in Plans : Spares(p)) /\ (Stored # {} => RecordsHeld)'
  BY NextGrows
<1>2. UNCHANGED <<migration, receipt, imported, loader>>
  BY DEF loading
<1>3. \A s \in Snapshots : migration[s] # None => LoadingAgrees(s)'
  BY <1>1, <1>2, AgreesStays DEF WholeInv
<1>4. RecordsHeld => RecordsHeld'
  BY <1>1, <1>2, RecordsStayHeld
<1>5. \A l \in Loaders : LoaderAgrees(l) => LoaderAgrees(l)'
  BY <1>2, <1>4 DEF LoaderAgrees, RecordedInput, OtherInput, Count, Snapshot
<1>6. (\A w \in Workers : Busy(w) => AsksOfRecords(w))'
  BY NextAsks
<1> QED
  BY <1>1, <1>2, <1>3, <1>5, <1>6 DEF WholeInv

LEMMA Counted ==
    ASSUME NEW p \in Plans, NEW k \in Nat
    PROVE  Cardinality(Receipts(p, k)) = k /\ {r.index : r \in Receipts(p, k)} = 1 .. k
<1> DEFINE f == [n \in 1 .. k |-> [index |-> n, batch |-> BatchesOf[p][n]]]
           S == Receipts(p, k)
<1>1. \A n \in 1 .. k : f[n].index = n /\ f[n] \in S
  BY DEF Receipts
<1>2. \A r \in S : \E n \in 1 .. k : r = f[n]
  BY DEF Receipts
<1>3. DOMAIN f = 1 .. k /\ f = [n \in 1 .. k |-> f[n]]
  OBVIOUS
<1> HIDE DEF f, S
<1>4. f \in Bijection(1 .. k, S)
  <2>1. f \in [1 .. k -> S]
    BY <1>1, <1>3
  <2>2. \A m, n \in 1 .. k : f[m] = f[n] => m = n
    BY <1>1
  <2> QED
    BY <1>2, <2>1, <2>2 DEF Bijection, Injection, Surjection, IsInjective
<1>5. Cardinality(S) = k
  BY <1>4, FS_CountingElements DEF ExistsBijection
<1>6. {r.index : r \in S} = 1 .. k
  BY <1>1, <1>2
<1> QED
  BY <1>5, <1>6 DEF S

LEMMA RecordedFirst ==
    ASSUME WholeInv, NEW s \in Snapshots
    PROVE  /\ Count(s) \in Nat /\ Recorded(s) = 1 .. Count(s)
           /\ migration[s] # None => migration[s].plan \in Plans /\ LoadingAgrees(s)
<1>1. CASE migration[s] = None
  <2>1. receipt[s] = {}
    BY <1>1 DEF WholeInv
  <2>2. Count(s) = 0
    BY <2>1, FS_EmptySet DEF Count
  <2>3. Recorded(s) = {}
    BY <2>1 DEF Recorded
  <2> QED
    BY <1>1, <2>2, <2>3
<1>2. CASE migration[s] # None
  <2> PICK p, k : p = migration[s].plan /\ k = Count(s)
    OBVIOUS
  <2>1. LoadingAgrees(s)
    BY <1>2 DEF WholeInv
  <2>2. p \in Plans /\ k \in Nat /\ receipt[s] = Receipts(p, k)
    BY <2>1, BatchAt DEF LoadingAgrees, Migrations
  <2>3. Recorded(s) = 1 .. k
    BY <2>2, Counted DEF Recorded
  <2> QED
    BY <2>1, <2>2, <2>3
<1> QED
  BY <1>1, <1>2

\* A loader's step that leaves what is stored to an argument of its own.
LEMMA LoaderWhole ==
    ASSUME YieldInv, WholeInv, NEW l \in Loaders, NEW t, loader' = [loader EXCEPT ![l] = t],
           UNCHANGED work, Grows, Onward, LoaderAgrees(l)',
           migration' = [s \in Snapshots |-> migration'[s]],
           receipt' = [s \in Snapshots |-> receipt'[s]],
           \A s \in Snapshots : migration'[s] = None => receipt'[s] = {},
           \A s \in Snapshots : migration'[s] # None => LoadingAgrees(s)',
           \A s, u \in Snapshots : migration'[s] # None /\ migration'[u] # None => s = u,
           (Stored # {} => RecordsHeld)'
    PROVE  WholeInv'
<1>1. loader = [m \in Loaders |-> loader[m]]
  BY DEF WholeInv
<1>2. loader' = [m \in Loaders |-> loader'[m]] /\ \A m \in Loaders \ {l} : loader'[m] = loader[m]
  BY <1>1
<1>3. ASSUME NEW m \in Loaders PROVE LoaderAgrees(m)'
  <2>1. CASE m = l
    BY <2>1
  <2>2. CASE m # l
    <3>1. LoaderAgrees(m) /\ loader'[m] = loader[m]
      BY <1>2, <2>2 DEF WholeInv
    <3> QED
      BY <3>1, LoaderStays
  <2> QED
    BY <2>1, <2>2
<1>4. ASSUME NEW w \in Workers, Busy(w)' PROVE AsksOfRecords(w)'
  <2>1. Busy(w) /\ Asked(w)' = Asked(w) /\ Tagging(w)' = Tagging(w)
    BY <1>4 DEF Busy, Asked, Tagging
  <2>2. AsksOfRecords(w)
    BY <2>1 DEF WholeInv
  <2> QED
    BY <1>4, <2>1, <2>2, AsksStay DEF AsksOfRecords
<1> QED
  BY <1>2, <1>3, <1>4 DEF WholeInv

LEMMA SameOnward ==
    ASSUME WholeInv, UNCHANGED <<migration, receipt>>, RecordsHeld => RecordsHeld' PROVE Onward
<1>1. \A s \in Snapshots : Count(s) \in Nat /\ Count(s)' = Count(s)
  BY RecordedFirst DEF Count
<1> QED
  BY <1>1 DEF Onward

\* A loader's step that stores nothing.
LEMMA LoaderAlone ==
    ASSUME YieldInv, WholeInv, NEW l \in Loaders, NEW t, loader' = [loader EXCEPT ![l] = t],
           UNCHANGED <<vars, migration, receipt, imported>>, LoaderAgrees(l)'
    PROVE  WholeInv'
<1>1. Grows /\ \A p \in Plans : Spares(p)
  BY DEF vars, Grows, Spares
<1>2. RecordsHeld => RecordsHeld'
  BY <1>1, RecordsStayHeld
<1>3. Onward
  BY <1>2, SameOnward
<1>4. \A s \in Snapshots : migration'[s] # None => LoadingAgrees(s)'
  BY <1>1, AgreesStays DEF WholeInv
<1>5. (Stored # {} => RecordsHeld)' /\ UNCHANGED work
  BY <1>2 DEF WholeInv, Stored, vars
<1>6. /\ migration' = [s \in Snapshots |-> migration'[s]] /\ receipt' = [s \in Snapshots |-> receipt'[s]]
      /\ \A s \in Snapshots : migration'[s] = None => receipt'[s] = {}
      /\ \A s, u \in Snapshots : migration'[s] # None /\ migration'[u] # None => s = u
  BY DEF WholeInv
<1> QED
  BY <1>1, <1>3, <1>4, <1>5, <1>6, LoaderWhole

LEMMA ProceedsTo ==
    ASSUME WholeInv, NEW l \in Loaders, NEW at \in {"start", "apply"}, NEW known, NEW next,
           Proceeds(l, at, known, next), loader[l].at \in {"recorded", "start", "apply"}
    PROVE  /\ loader'[l].at = at /\ loader'[l].plan = loader[l].plan /\ loader[l].plan \in Plans
           /\ loader'[l].known = known /\ loader'[l].next = next /\ Snapshot(l)' = Snapshot(l)
           /\ Snapshot(l) \in Snapshots /\ Batches(l) = BatchesOf[loader[l].plan]
<1>1. LoaderAgrees(l) /\ loader = [m \in Loaders |-> loader[m]]
  BY DEF WholeInv
<1> QED
  BY <1>1, KindsAssumption DEF Proceeds, Snapshot, LoaderAgrees, Batches

LEMMA EndedAs ==
    ASSUME WholeInv, NEW l \in Loaders, NEW outcome,
           Ended(l, outcome), loader[l].at \in {"recorded", "start", "apply"}
    PROVE  /\ loader'[l].at = "ended" /\ loader'[l].plan = loader[l].plan /\ loader[l].plan \in Plans
           /\ loader'[l].outcome = outcome /\ Snapshot(l)' = Snapshot(l) /\ Snapshot(l) \in Snapshots
<1>1. LoaderAgrees(l) /\ loader = [m \in Loaders |-> loader[m]]
  BY DEF WholeInv
<1> QED
  BY <1>1, KindsAssumption DEF Ended, Snapshot, LoaderAgrees

\* What a load that ends reports, with the migrations as they are.
LEMMA EndsAgrees ==
    ASSUME YieldInv, WholeInv, NEW l \in Loaders, NEW outcome, Ended(l, outcome),
           loader[l].at \in {"recorded", "start", "apply"},
           UNCHANGED <<vars, migration, receipt, imported>>,
           outcome = "loaded" => RecordedInput(l) /\ migration[Snapshot(l)].state = "completed",
           outcome = "conflict" => OtherInput(l) \/ (migration[Snapshot(l)] = None /\ RecordsHeld)
    PROVE  WholeInv'
<1>1. /\ loader'[l].at = "ended" /\ loader'[l].plan = loader[l].plan /\ loader[l].plan \in Plans
      /\ loader'[l].outcome = outcome /\ Snapshot(l)' = Snapshot(l)
  BY EndedAs
<1>2. RecordsHeld => RecordsHeld'
  BY DEF RecordsHeld, vars
<1>3. LoaderAgrees(l)'
  BY <1>1, <1>2 DEF LoaderAgrees, RecordedInput, OtherInput
<1> QED
  BY <1>3, LoaderAlone DEF Ended

LEMMA ProceedsAgrees ==
    ASSUME YieldInv, WholeInv, NEW l \in Loaders, NEW at \in {"start", "apply"}, NEW known, NEW next,
           Proceeds(l, at, known, next), loader[l].at \in {"recorded", "start", "apply"},
           UNCHANGED <<vars, migration, receipt, imported>>,
           at = "apply" => /\ RecordedInput(l) /\ next \in 1 .. Count(Snapshot(l)) + 1
                           /\ known \subseteq 1 .. Count(Snapshot(l))
    PROVE  WholeInv'
<1>1. /\ loader'[l].at = at /\ loader'[l].plan = loader[l].plan /\ loader[l].plan \in Plans
      /\ loader'[l].known = known /\ loader'[l].next = next /\ Snapshot(l)' = Snapshot(l)
  BY ProceedsTo
<1>2. (Count(Snapshot(l)))' = Count(Snapshot(l))
  BY <1>1 DEF Count
<1>3. LoaderAgrees(l)'
  BY <1>1, <1>2 DEF LoaderAgrees, RecordedInput
<1> QED
  BY <1>3, LoaderAlone DEF Proceeds

LEMMA LoadBegins ==
    ASSUME YieldInv, WholeInv, NEW l \in Loaders, NEW p \in Plans, Load(l, p) PROVE WholeInv'
<1>1. loader = [m \in Loaders |-> loader[m]]
  BY DEF WholeInv
<1>2. loader'[l].at = "recorded" /\ loader'[l].plan = p
  BY <1>1 DEF Load
<1>3. LoaderAgrees(l)'
  BY <1>2 DEF LoaderAgrees
<1> QED
  BY <1>3, LoaderAlone DEF Load

LEMMA ReadRecordedWhole ==
    ASSUME YieldInv, WholeInv, NEW l \in Loaders, ReadRecorded(l) PROVE WholeInv'
<1>1. loader[l].at = "recorded" /\ UNCHANGED <<vars, migration, receipt, imported>>
  BY DEF ReadRecorded
<1>2. CASE OtherInput(l)
  BY <1>1, <1>2, EndsAgrees DEF ReadRecorded
<1>3. CASE ~OtherInput(l) /\ RecordedInput(l) /\ migration[Snapshot(l)].state = "completed"
  <2>1. Ended(l, IF Whole(l) THEN "loaded" ELSE "unavailable")
    BY <1>3 DEF ReadRecorded
  <2> QED
    BY <1>1, <1>3, <2>1, EndsAgrees
<1>4. CASE ~OtherInput(l) /\ ~(RecordedInput(l) /\ migration[Snapshot(l)].state = "completed")
  BY <1>1, <1>4, ProceedsAgrees DEF ReadRecorded
<1> QED
  BY <1>2, <1>3, <1>4

LEMMA SkipWhole ==
    ASSUME YieldInv, WholeInv, NEW l \in Loaders, Skip(l) PROVE WholeInv'
<1>1. /\ loader[l].at = "apply" /\ loader[l].next \in loader[l].known
      /\ Proceeds(l, "apply", loader[l].known, loader[l].next + 1)
      /\ UNCHANGED <<vars, migration, receipt, imported>>
  BY DEF Skip, Following
<1>2. LoaderAgrees(l)
  BY DEF WholeInv
<1>3. Snapshot(l) \in Snapshots
  BY <1>1, ProceedsTo
<1>4. Count(Snapshot(l)) \in Nat
  BY <1>3, RecordedFirst
<1>5. /\ RecordedInput(l) /\ loader[l].next + 1 \in 1 .. Count(Snapshot(l)) + 1
      /\ loader[l].known \subseteq 1 .. Count(Snapshot(l))
  BY <1>1, <1>2, <1>4 DEF LoaderAgrees
<1> QED
  BY <1>1, <1>5, ProceedsAgrees

LEMMA InterruptWhole ==
    ASSUME YieldInv, WholeInv, NEW l \in Loaders, Interrupt(l) PROVE WholeInv'
BY EndsAgrees DEF Interrupt

\* A load completes with every batch recorded.
LEMMA CompleteWhole ==
    ASSUME YieldInv, WholeInv, NEW l \in Loaders, Complete(l) PROVE WholeInv'
<1> PICK s, p, k : s = Snapshot(l) /\ p = loader[l].plan /\ k = Count(s)
  OBVIOUS
<1> DEFINE outcome == IF Whole(l) THEN "loaded" ELSE "unavailable"
<1>1. /\ loader[l].at = "apply" /\ loader[l].next > Len(BatchesOf[p])
      /\ migration' = [migration EXCEPT ![s].state = "completed"]
      /\ Ended(l, outcome) /\ UNCHANGED <<vars, receipt, imported>>
  BY DEF Complete, Batches
<1>2. /\ loader'[l].at = "ended" /\ loader'[l].plan = p /\ p \in Plans
      /\ loader'[l].outcome = outcome /\ Snapshot(l)' = s /\ s \in Snapshots
  BY <1>1, EndedAs
<1>3. LoaderAgrees(l) /\ migration = [u \in Snapshots |-> migration[u]]
  BY DEF WholeInv
<1>4. migration[s] # None /\ migration[s].plan = p /\ loader[l].next \in 1 .. k + 1
  BY <1>1, <1>3 DEF LoaderAgrees, RecordedInput
<1>5. LoadingAgrees(s) /\ k \in Nat
  BY <1>2, <1>4, RecordedFirst
<1>6. k = Len(BatchesOf[p])
  <2>1. k \in 0 .. Len(BatchesOf[p]) /\ Len(BatchesOf[p]) \in Nat
    BY <1>2, <1>4, <1>5, BatchAt DEF LoadingAgrees
  <2> QED
    BY <1>1, <1>4, <2>1
<1>7. /\ migration'[s] = [migration[s] EXCEPT !.state = "completed"]
      /\ \A u \in Snapshots \ {s} : migration'[u] = migration[u]
      /\ migration' = [u \in Snapshots |-> migration'[u]]
  BY <1>1, <1>2, <1>3
<1>8. /\ migration'[s] \in Migrations /\ migration'[s].plan = p /\ migration'[s].state = "completed"
      /\ migration'[s] # None
  <2>1. migration[s] \in Migrations
    BY <1>5 DEF LoadingAgrees
  <2>2. migration'[s] \in Migrations /\ migration'[s].plan = p /\ migration'[s].state = "completed"
    BY <1>4, <1>7, <2>1 DEF Migrations
  <2> QED
    BY <2>2, KindsAssumption DEF Migrations
<1>9. Grows /\ \A q \in Plans : Spares(q)
  BY <1>1 DEF vars, Grows, Spares
<1>10. RecordsHeld'
  BY <1>2, <1>8 DEF RecordsHeld
<1>11. Onward
  <2>1. \A u \in Snapshots : Count(u) \in Nat /\ Count(u)' = Count(u)
    BY <1>1, RecordedFirst DEF Count
  <2>2. ASSUME NEW u \in Snapshots, migration[u] # None
        PROVE  /\ migration'[u] # None /\ migration'[u].plan = migration[u].plan
               /\ migration[u].state = "completed" => migration'[u].state = "completed"
    <3>1. CASE u = s
      BY <1>4, <1>8, <3>1
    <3>2. CASE u # s
      BY <1>7, <2>2, <3>2
    <3> QED
      BY <3>1, <3>2
  <2>3. \A u \in Snapshots : migration[u] = None => migration'[u] = None
    BY <1>4, <1>7
  <2> QED
    BY <1>10, <2>1, <2>2, <2>3 DEF Onward
<1>12. ASSUME NEW n \in 1 .. k PROVE Present(BatchesOf[p][n])'
  <2> PICK b : b = BatchesOf[p][n]
    OBVIOUS
  <2>1. Present(b)
    BY <1>4, <1>5, <1>12 DEF LoadingAgrees
  <2>2. b \in BatchesMade(p)
    BY <1>2, <1>6, <1>12, BatchAt
  <2> QED
    BY <1>2, <1>9, <2>1, <2>2, PresentStays
<1>13. LoadingAgrees(s)'
  <2>1. Count(s)' = k /\ receipt'[s] = Receipts(p, k) /\ p.snapshot = s
    BY <1>1, <1>4, <1>5 DEF LoadingAgrees, Count
  <2>2. k \in 0 .. Len(BatchesOf[p]) /\ k + 1 .. Len(BatchesOf[p]) = {}
    BY <1>5, <1>6
  <2> QED
    BY <1>6, <1>8, <1>12, <2>1, <2>2 DEF LoadingAgrees
<1>14. ASSUME NEW u \in Snapshots, migration'[u] # None PROVE LoadingAgrees(u)' /\ u = s
  <2>1. migration[u] # None
    BY <1>4, <1>7, <1>14
  <2>2. u = s
    BY <1>2, <1>4, <2>1 DEF WholeInv
  <2> QED
    BY <1>13, <2>2
<1>15. \A u \in Snapshots : migration'[u] = None => receipt'[u] = {}
  BY <1>1, <1>7, <1>8 DEF WholeInv
<1>16. LoaderAgrees(l)'
  BY <1>2, <1>8 DEF LoaderAgrees, RecordedInput
<1>17. receipt' = [u \in Snapshots |-> receipt'[u]] /\ UNCHANGED work
  BY <1>1 DEF WholeInv, vars
<1>18. /\ (Stored # {} => RecordsHeld)'
       /\ \A u, v \in Snapshots : migration'[u] # None /\ migration'[v] # None => u = v
  BY <1>10, <1>14
<1> QED
  BY <1>1, <1>7, <1>9, <1>11, <1>14, <1>15, <1>16, <1>17, <1>18, LoaderWhole DEF Ended

\* A load begins in an account that holds nothing, so that nothing of its
\* plan is there.
LEMMA BeginsAgrees ==
    ASSUME YieldInv, WholeInv, NEW l \in Loaders, Start(l), migration[Snapshot(l)] = None,
           ~AccountHoldsRecords
    PROVE  WholeInv'
<1> PICK s, p : s = Snapshot(l) /\ p = loader[l].plan
  OBVIOUS
<1>1. /\ loader[l].at = "start" /\ migration' = [migration EXCEPT ![s] = [plan |-> p, state |-> "loading"]]
      /\ Proceeds(l, "apply", {}, 1) /\ UNCHANGED <<vars, receipt, imported>>
  BY DEF Start
<1>2. /\ loader'[l].at = "apply" /\ loader'[l].plan = p /\ p \in Plans
      /\ loader'[l].known = {} /\ loader'[l].next = 1 /\ Snapshot(l)' = s /\ s \in Snapshots
  BY <1>1, ProceedsTo
<1>3. /\ migration'[s] = [plan |-> p, state |-> "loading"]
      /\ \A u \in Snapshots \ {s} : migration'[u] = None /\ migration[u] = None
      /\ migration' = [u \in Snapshots |-> migration'[u]]
  BY <1>1, <1>2 DEF WholeInv, AccountHoldsRecords
<1>4. migration'[s] \in Migrations /\ migration'[s] # None /\ p.snapshot = s
  BY <1>2, <1>3, KindsAssumption DEF Migrations, Snapshot
<1>5. /\ receipt[s] = {} /\ Count(s) = 0 /\ Count(s)' = 0
  <2>1. receipt[s] = {} /\ receipt'[s] = {}
    BY <1>1, <1>2 DEF WholeInv
  <2> QED
    BY <2>1, FS_EmptySet DEF Count
<1>6. Grows /\ ~RecordsHeld /\ RecordsHeld'
  <2>1. Grows
    BY <1>1 DEF vars, Grows
  <2>2. ~RecordsHeld
    BY DEF RecordsHeld, AccountHoldsRecords
  <2>3. RecordsHeld'
    BY <1>2, <1>4 DEF RecordsHeld
  <2> QED
    BY <2>1, <2>2, <2>3
<1>7. Onward
  <2>1. \A u \in Snapshots : Count(u) \in Nat /\ Count(u)' = Count(u)
    BY <1>1, RecordedFirst DEF Count
  <2>2. \A u \in Snapshots : migration[u] = None
    BY <1>3
  <2> QED
    BY <1>6, <2>1, <2>2 DEF Onward
<1>8. ASSUME NEW n \in 1 .. Len(BatchesOf[p]) PROVE Absent(BatchesOf[p][n])'
  <2> PICK b : b = BatchesOf[p][n]
    OBVIOUS
  <2>1. b \in BatchesMade(p)
    BY <1>2, <1>8, BatchAt
  <2>2. /\ \A t \in Tags : tag'[t] = 0
        /\ \A c \in Copies : copy'[c] = None
        /\ imported' = {}
    <3>1. /\ \A t \in Tags : tag[t] \in Nat /\ ~(tag[t] > 0)
          /\ \A c \in Copies : copy[c] = None
          /\ imported = {} /\ UNCHANGED <<tag, copy, imported>>
      BY <1>1 DEF AccountHoldsRecords, YieldInv, Shapes, vars
    <3> QED
      BY <3>1
  <2>3. Absent(b)'
    BY <1>2, <2>1, <2>2, BatchRecordsOf DEF Absent
  <2> QED
    BY <2>3
<1>9. LoadingAgrees(s)'
  <2>1. Count(s)' \in 0 .. Len(BatchesOf[p]) /\ 1 .. Count(s)' = {} /\ Count(s)' + 1 = 1
    BY <1>2, <1>5, BatchAt
  <2>2. receipt'[s] = Receipts(p, Count(s)')
    <3>1. Receipts(p, 0) = {}
      BY DEF Receipts
    <3> QED
      BY <1>1, <1>5, <3>1
  <2>3. migration'[s].plan = p /\ migration'[s].state # "completed"
    BY <1>3
  <2> QED
    BY <1>4, <1>8, <2>1, <2>2, <2>3 DEF LoadingAgrees
<1>10. LoaderAgrees(l)'
  <2>1. (Count(Snapshot(l)))' = 0
    BY <1>2, <1>5 DEF Count
  <2>2. RecordedInput(l)'
    BY <1>2, <1>3, <1>4 DEF RecordedInput
  <2> QED
    BY <1>2, <2>1, <2>2 DEF LoaderAgrees
<1>11. /\ \A u \in Snapshots : migration'[u] # None => u = s /\ LoadingAgrees(u)'
       /\ \A u \in Snapshots : migration'[u] = None => receipt'[u] = {}
       /\ receipt' = [u \in Snapshots |-> receipt'[u]] /\ UNCHANGED work
  BY <1>1, <1>3, <1>4, <1>9 DEF WholeInv, vars
<1>12. /\ (Stored # {} => RecordsHeld)'
       /\ \A u, v \in Snapshots : migration'[u] # None /\ migration'[v] # None => u = v
  BY <1>6, <1>11
<1> QED
  BY <1>1, <1>3, <1>6, <1>7, <1>10, <1>11, <1>12, LoaderWhole DEF Proceeds

LEMMA StartWhole ==
    ASSUME YieldInv, WholeInv, NEW l \in Loaders, Start(l) PROVE WholeInv'
<1> PICK s : s = Snapshot(l)
  OBVIOUS
<1>1. loader[l].at = "start"
  BY DEF Start
<1>2. CASE migration[s] = None /\ ~AccountHoldsRecords
  BY <1>2, BeginsAgrees
<1>3. CASE ~(migration[s] = None /\ ~AccountHoldsRecords)
  <2>1. /\ UNCHANGED <<vars, migration, receipt, imported>>
        /\ IF ~RecordedInput(l) THEN Ended(l, "conflict")
           ELSE IF migration[s].state = "loading" THEN Proceeds(l, "apply", Recorded(s), 1)
           ELSE Ended(l, IF Whole(l) THEN "loaded" ELSE "unavailable")
    BY <1>3 DEF Start
  <2>2. CASE ~RecordedInput(l)
    <3>1. migration[s] = None => RecordsHeld
      BY <1>3 DEF AccountHoldsRecords, RecordsHeld, WholeInv
    <3>2. OtherInput(l) \/ (migration[s] = None /\ RecordsHeld)
      BY <2>2, <3>1 DEF OtherInput, RecordedInput
    <3> QED
      BY <1>1, <2>1, <2>2, <3>2, EndsAgrees
  <2>3. CASE RecordedInput(l) /\ migration[s].state = "loading"
    <3>1. Proceeds(l, "apply", Recorded(s), 1)
      BY <2>1, <2>3
    <3>2. s \in Snapshots
      BY <1>1, <3>1, ProceedsTo
    <3>3. Count(s) \in Nat /\ Recorded(s) = 1 .. Count(s)
      BY <3>2, RecordedFirst
    <3>4. 1 \in 1 .. Count(s) + 1
      BY <3>3
    <3> QED
      BY <1>1, <2>1, <2>3, <3>1, <3>3, <3>4, ProceedsAgrees
  <2>4. CASE RecordedInput(l) /\ migration[s].state # "loading"
    <3>1. Ended(l, IF Whole(l) THEN "loaded" ELSE "unavailable")
      BY <2>1, <2>4
    <3>2. s \in Snapshots /\ migration[s] # None
      BY <1>1, <2>4, <3>1, EndedAs DEF RecordedInput
    <3>3. migration[s].state = "completed"
      BY <2>4, <3>2, RecordedFirst DEF LoadingAgrees, Migrations
    <3> QED
      BY <1>1, <2>1, <2>4, <3>1, <3>3, EndsAgrees
  <2> QED
    BY <2>2, <2>3, <2>4
<1> QED
  BY <1>2, <1>3

--------
(* A batch.                                                                 *)

\* A batch stores all its records, and none that another batch brings.
LEMMA BatchBrings ==
    ASSUME YieldInv, NEW p \in Plans, NEW b \in BatchesMade(p), WriteBatch(b)
    PROVE  /\ Grows /\ Present(b)'
           /\ \A c \in BatchesMade(p) : Apart(c, b) /\ Absent(c) => Absent(c)'
<1>1. /\ tag \in [Tags -> Nat] /\ copy \in [Copies -> CopyRows \cup {None}]
      /\ Owned \notin p.tags
  BY KindsAssumption DEF YieldInv, Shapes
<1>2. CASE b.kind = "tags"
  <2> PICK f : f = [t \in b.records |-> 1]
    OBVIOUS
  <2>1. tag' = Over(f, tag) /\ UNCHANGED <<copy, imported>> /\ b.records \in SUBSET Tags
    BY <1>2, BatchRecordsOf DEF WriteBatch
  <2>2. f \in Partial(Tags, Nat) /\ tag \in Total(Tags, Nat) /\ Nat \subseteq Nat
    <3>1. f \in [b.records -> Nat]
      OBVIOUS
    <3> QED
      BY <1>1, <2>1, <3>1 DEF Partial, Total
  <2>3. \A t \in Tags : tag'[t] = IF t \in DOMAIN f THEN f[t] ELSE tag[t]
    BY <2>1, <2>2, OverRows
  <2>4. \A t \in Tags : (t \in b.records => tag'[t] = 1) /\ (t \notin b.records => tag'[t] = tag[t])
    BY <2>3
  <2>5. Grows /\ Present(b)'
    BY <1>2, <2>1, <2>4 DEF Grows, Present
  <2>6. ASSUME NEW c \in BatchesMade(p), Apart(c, b), Absent(c) PROVE Absent(c)'
    <3>1. CASE c.kind = "tags"
      <4>1. c.records \subseteq Tags /\ c.records \cap b.records = {}
        BY <1>2, <2>6, <3>1, BatchRecordsOf DEF Apart, Table, Carried
      <4> QED
        BY <2>4, <2>6, <3>1, <4>1 DEF Absent
    <3>2. CASE c.kind # "tags"
      BY <2>1, <2>6, <3>2 DEF Absent
    <3> QED
      BY <3>1, <3>2
  <2> QED
    BY <2>5, <2>6
<1>3. CASE b.kind = "copies"
  <2>1. /\ tag' = [tag EXCEPT ![Owned] = IF tag[Owned] = 0 THEN 1 ELSE tag[Owned]]
        /\ copy' = Over([c \in DOMAIN b.records |-> [printing |-> b.records[c], revision |-> 1]], copy)
        /\ UNCHANGED imported
    BY <1>3 DEF WriteBatch
  <2>2. \A c \in Copies : (c \in DOMAIN b.records => copy'[c] # None)
                       /\ (c \notin DOMAIN b.records => copy'[c] = copy[c])
    BY <1>3, <2>1, CopiesCome
  <2>3. /\ \A t \in Tags \ {Owned} : tag'[t] = tag[t]
        /\ \A t \in Tags : tag[t] > 0 => tag'[t] > 0
    BY <1>1, <2>1
  <2>4. DOMAIN b.records \subseteq Copies
    BY <1>3, BatchRecordsOf
  <2>5. Grows /\ Present(b)'
    BY <1>3, <2>1, <2>2, <2>3, <2>4 DEF Grows, Present
  <2>6. ASSUME NEW c \in BatchesMade(p), Apart(c, b), Absent(c) PROVE Absent(c)'
    <3>1. CASE c.kind = "copies"
      <4>1. DOMAIN c.records \subseteq Copies /\ DOMAIN c.records \cap DOMAIN b.records = {}
        BY <1>3, <2>6, <3>1, BatchRecordsOf DEF Apart, Table, Carried
      <4> QED
        BY <2>2, <2>6, <3>1, <4>1 DEF Absent
    <3>2. CASE c.kind = "tags"
      <4>1. c.records \subseteq Tags \ {Owned}
        BY <1>1, <3>2, BatchRecordsOf
      <4> QED
        BY <2>3, <2>6, <3>2, <4>1 DEF Absent
    <3>3. CASE c.kind \notin {"copies", "tags"}
      BY <2>1, <2>6, <3>3 DEF Absent
    <3> QED
      BY <3>1, <3>2, <3>3
  <2> QED
    BY <2>5, <2>6
<1>4. CASE b.kind = "associations"
  <2>1. UNCHANGED <<tag, copy, imported>>
    BY <1>4 DEF WriteBatch
  <2>2. Grows /\ Present(b)'
    BY <1>4, <2>1 DEF Grows, Present
  <2> QED
    BY <2>1, <2>2 DEF Absent
<1>5. CASE b.kind \in {"sessions", "entries"}
  <2>1. imported' = imported \cup b.records /\ UNCHANGED <<tag, copy>>
    BY <1>5 DEF WriteBatch
  <2>2. Grows /\ Present(b)'
    BY <1>5, <2>1 DEF Grows, Present
  <2>3. ASSUME NEW c \in BatchesMade(p), Apart(c, b), Absent(c) PROVE Absent(c)'
    <3>1. CASE c.kind \in {"sessions", "entries"}
      <4>1. c.records \cap b.records = {}
        BY <1>5, <2>3, <3>1 DEF Apart, Table, Carried
      <4>2. c.records \cap imported = {}
        BY <2>3, <3>1 DEF Absent
      <4> QED
        BY <2>1, <3>1, <4>1, <4>2 DEF Absent
    <3>2. CASE c.kind \in {"tags", "copies", "associations"}
      BY <2>1, <2>3, <3>2 DEF Absent
    <3> QED
      BY <3>1, <3>2, BatchRecordsOf
  <2> QED
    BY <2>2, <2>3
<1> QED
  BY <1>2, <1>3, <1>4, <1>5, BatchRecordsOf

\* The next batch is stored and recorded.
LEMMA BatchWhole ==
    ASSUME YieldInv, WholeInv, NEW l \in Loaders, ApplyBatch(l), ~Replayed(l),
           migration[Snapshot(l)].state = "loading"
    PROVE  WholeInv'
<1> PICK s, p, n, k, b : /\ s = Snapshot(l) /\ p = loader[l].plan /\ n = loader[l].next
                         /\ k = Count(s) /\ b = Batches(l)[n]
  OBVIOUS
<1>1. /\ loader[l].at = "apply" /\ n <= Len(BatchesOf[p]) /\ n \notin Recorded(s)
      /\ WriteBatch(b) /\ b = BatchesOf[p][n]
      /\ receipt' = [receipt EXCEPT ![s] = @ \cup {[index |-> n, batch |-> b]}]
      /\ Proceeds(l, "apply", loader[l].known, n + 1)
      /\ UNCHANGED <<migration, work>>
  BY DEF ApplyBatch, Batches, Replayed, Following
<1>2. /\ loader'[l].at = "apply" /\ loader'[l].plan = p /\ p \in Plans
      /\ loader'[l].known = loader[l].known /\ loader'[l].next = n + 1 /\ Snapshot(l)' = s
      /\ s \in Snapshots
  BY <1>1, ProceedsTo
<1>3. LoaderAgrees(l) /\ migration = [u \in Snapshots |-> migration[u]]
      /\ receipt = [u \in Snapshots |-> receipt[u]]
  BY DEF WholeInv
<1>4. /\ migration[s] # None /\ migration[s].plan = p /\ n \in 1 .. k + 1
      /\ loader[l].known \subseteq 1 .. k /\ RecordedInput(l)
  BY <1>1, <1>3 DEF LoaderAgrees, RecordedInput
<1>5. LoadingAgrees(s) /\ k \in Nat /\ Recorded(s) = 1 .. k
  BY <1>2, <1>4, RecordedFirst
<1>6. n = k + 1
  BY <1>1, <1>4, <1>5
<1>7. Len(BatchesOf[p]) \in Nat /\ \A m \in 1 .. Len(BatchesOf[p]) : BatchesOf[p][m] \in BatchesMade(p)
  BY <1>2, BatchAt
<1>8. b \in BatchesMade(p) /\ n \in 1 .. Len(BatchesOf[p])
  BY <1>1, <1>5, <1>6, <1>7
<1>9. /\ Grows /\ Present(b)'
      /\ \A c \in BatchesMade(p) : Apart(c, b) /\ Absent(c) => Absent(c)'
  BY <1>1, <1>2, <1>8, BatchBrings
<1>10. /\ receipt'[s] = Receipts(p, n) /\ \A u \in Snapshots \ {s} : receipt'[u] = receipt[u]
       /\ receipt' = [u \in Snapshots |-> receipt'[u]]
  <2>1. receipt[s] = Receipts(p, k)
    BY <1>4, <1>5 DEF LoadingAgrees
  <2>2. 1 .. n = 1 .. k \cup {n}
    BY <1>5, <1>6
  <2>3. Receipts(p, n) = Receipts(p, k) \cup {[index |-> n, batch |-> b]}
    BY <1>1, <2>2 DEF Receipts
  <2> QED
    BY <1>1, <1>2, <1>3, <2>1, <2>3
<1>11. Count(s)' = n /\ n \in Nat
  <2>1. n \in Nat
    BY <1>5, <1>6
  <2> QED
    BY <1>2, <1>10, <2>1, Counted DEF Count
<1>12. ASSUME NEW m \in 1 .. n PROVE Present(BatchesOf[p][m])'
  <2>1. CASE m = n
    BY <1>1, <1>9, <2>1
  <2>2. CASE m # n
    <3> PICK c : c = BatchesOf[p][m]
      OBVIOUS
    <3>1. m \in 1 .. k /\ m \in 1 .. Len(BatchesOf[p])
      BY <1>5, <1>6, <1>8, <1>12, <2>2
    <3>2. Present(c) /\ c \in BatchesMade(p)
      BY <1>4, <1>5, <1>7, <3>1 DEF LoadingAgrees
    <3> QED
      BY <1>2, <1>9, <3>2, PresentStays
  <2> QED
    BY <2>1, <2>2
<1>13. ASSUME NEW m \in n + 1 .. Len(BatchesOf[p]) PROVE Absent(BatchesOf[p][m])'
  <2> PICK c : c = BatchesOf[p][m]
    OBVIOUS
  <2>1. m \in k + 1 .. Len(BatchesOf[p]) /\ m \in 1 .. Len(BatchesOf[p]) /\ m # n
    BY <1>5, <1>6, <1>13
  <2>2. Absent(c) /\ c \in BatchesMade(p)
    BY <1>4, <1>5, <1>7, <2>1 DEF LoadingAgrees
  <2>3. Apart(c, b)
    <3>1. Separate(BatchesOf[p]) /\ DOMAIN BatchesOf[p] = 1 .. Len(BatchesOf[p])
      BY <1>2, BatchesApart, BatchAt
    <3> QED
      BY <1>1, <1>8, <2>1, <3>1 DEF Separate
  <2> QED
    BY <1>9, <2>2, <2>3
<1>14. LoadingAgrees(s)'
  <2>1. migration[s] \in Migrations /\ p.snapshot = s /\ migration[s].state # "completed"
    BY <1>4, <1>5 DEF LoadingAgrees
  <2>2. n \in 0 .. Len(BatchesOf[p])
    BY <1>8, <1>11
  <2> QED
    BY <1>1, <1>4, <1>10, <1>11, <1>12, <1>13, <2>1, <2>2 DEF LoadingAgrees
<1>15. ASSUME NEW u \in Snapshots, migration'[u] # None PROVE LoadingAgrees(u)' /\ u = s
  <2>1. u = s
    BY <1>1, <1>2, <1>4, <1>15 DEF WholeInv
  <2> QED
    BY <1>14, <2>1
<1>16. \A u \in Snapshots : migration'[u] = None => receipt'[u] = {}
  BY <1>1, <1>4, <1>10 DEF WholeInv
<1>17. RecordsHeld'
  BY <1>1, <1>2, <1>4 DEF RecordsHeld
<1>18. Onward
  <2>1. ASSUME NEW u \in Snapshots PROVE Count(u) \in Nat /\ Count(u)' \in Nat /\ Count(u) <= Count(u)'
    <3>1. CASE u = s
      BY <1>5, <1>6, <1>11, <3>1
    <3>2. CASE u # s
      <4>1. Count(u)' = Count(u)
        BY <1>10, <3>2 DEF Count
      <4>2. Count(u) \in Nat
        BY RecordedFirst
      <4> QED
        BY <4>1, <4>2
    <3> QED
      BY <3>1, <3>2
  <2> QED
    BY <1>1, <1>17, <2>1 DEF Onward
<1>19. LoaderAgrees(l)'
  <2>1. (Count(Snapshot(l)))' = n
    BY <1>2, <1>11 DEF Count
  <2>2. loader[l].known \subseteq 1 .. n /\ n + 1 \in 1 .. n + 1
    BY <1>4, <1>5, <1>6
  <2>3. RecordedInput(l)'
    BY <1>1, <1>2, <1>4 DEF RecordedInput
  <2> QED
    BY <1>2, <2>1, <2>2, <2>3 DEF LoaderAgrees
<1>20. /\ (Stored # {} => RecordsHeld)'
       /\ \A u, v \in Snapshots : migration'[u] # None /\ migration'[v] # None => u = v
       /\ migration' = [u \in Snapshots |-> migration'[u]]
  BY <1>1, <1>3, <1>15, <1>17
<1> QED
  BY <1>1, <1>9, <1>10, <1>15, <1>16, <1>18, <1>19, <1>20, LoaderWhole DEF Proceeds

LEMMA ApplyBatchWhole ==
    ASSUME YieldInv, WholeInv, NEW l \in Loaders, ApplyBatch(l) PROVE WholeInv'
<1> PICK s, p, n, k : /\ s = Snapshot(l) /\ p = loader[l].plan /\ n = loader[l].next /\ k = Count(s)
  OBVIOUS
<1>1. loader[l].at = "apply" /\ n <= Len(BatchesOf[p])
  BY DEF ApplyBatch, Batches
<1>2. LoaderAgrees(l)
  BY DEF WholeInv
<1>3. /\ RecordedInput(l) /\ migration[s] # None /\ migration[s].plan = p /\ p \in Plans
      /\ n \in 1 .. k + 1 /\ loader[l].known \subseteq 1 .. k
  BY <1>1, <1>2 DEF LoaderAgrees, RecordedInput
<1>4. s \in Snapshots
  BY <1>3, KindsAssumption DEF Snapshot
<1>5. LoadingAgrees(s) /\ k \in Nat /\ Recorded(s) = 1 .. k
  BY <1>3, <1>4, RecordedFirst
<1>6. CASE Replayed(l)
  <2>1. n \in 1 .. k
    BY <1>5, <1>6 DEF Replayed
  <2>2. Proceeds(l, "apply", loader[l].known, n + 1) /\ UNCHANGED <<vars, migration, receipt, imported>>
    BY <1>6 DEF ApplyBatch, Following
  <2>3. n + 1 \in 1 .. k + 1
    BY <1>5, <2>1
  <2> QED
    BY <1>1, <1>3, <2>2, <2>3, ProceedsAgrees
<1>7. CASE ~Replayed(l) /\ migration[s].state # "loading"
  <2>1. k = Len(BatchesOf[p])
    BY <1>3, <1>5, <1>7 DEF LoadingAgrees, Migrations
  <2>2. n \in 1 .. k
    BY <1>1, <1>3, <1>5, <2>1
  <2> QED
    BY <1>5, <1>7, <2>2 DEF Replayed
<1>8. CASE ~Replayed(l) /\ migration[s].state = "loading"
  BY <1>8, BatchWhole
<1> QED
  BY <1>6, <1>7, <1>8

--------
(* A load happens once.                                                     *)

LEMMA WholeInit ==
    ASSUME LoadInit PROVE WholeInv
<1>1. /\ migration = [s \in Snapshots |-> None] /\ receipt = [s \in Snapshots |-> {}]
      /\ loader = [l \in Loaders |-> Resting] /\ work = [w \in Workers |-> Idle]
      /\ \E account \in Accounts : Holds(account)
  BY DEF LoadInit, Init
<1>2. \A l \in Loaders : LoaderAgrees(l)
  BY <1>1 DEF LoaderAgrees, Resting
<1>3. \A w \in Workers : ~Busy(w)
  BY <1>1 DEF Busy, Idle
<1>4. Stored # {} => RecordsHeld
  <2> SUFFICES ASSUME NEW i \in Stored PROVE RecordsHeld
    OBVIOUS
  <2> PICK account \in Accounts : Holds(account)
    BY <1>1
  <2>1. i \in DOMAIN account.association
    BY DEF Stored, Holds
  <2>2. tag[account.association[i].tag] > 0 /\ account.association[i] \in Rows
    BY <2>1, AccountsAssumption DEF Holds
  <2>3. account.association[i].tag \in Tags
    BY <2>2 DEF Rows, Tags
  <2> QED
    BY <2>2, <2>3 DEF RecordsHeld
<1> QED
  BY <1>1, <1>2, <1>3, <1>4 DEF WholeInv

LEMMA LoadingWhole ==
    ASSUME YieldInv, WholeInv, NEW l \in Loaders, Loading(l) PROVE WholeInv'
BY LoadBegins, ReadRecordedWhole, StartWhole, SkipWhole, ApplyBatchWhole, CompleteWhole,
   InterruptWhole DEF Loading

\* However loads are interrupted, repeated and run beside one another and
\* beside requests, the recorded batches of a migration are the first of its
\* plan, every record of theirs is there and none of the others is
\* (migration.ts applyBatch, readBatchReceipts, migration-service.ts).
THEOREM WholeInductive == LoadSpec => []WholeInv
<1>1. LoadInit => WholeInv
  BY WholeInit
<1>2. YieldInv /\ LoadersInv /\ PromiseInv /\ WholeInv /\ [LoadNext]_loadVars => WholeInv'
  <2> SUFFICES ASSUME YieldInv, PromiseInv, WholeInv, [LoadNext]_loadVars PROVE WholeInv'
    OBVIOUS
  <2>1. CASE Next /\ UNCHANGED loading
    BY <2>1, NextWhole
  <2>2. CASE \E l \in Loaders : Loading(l)
    BY <2>2, LoadingWhole
  <2>3. CASE UNCHANGED loadVars
    <3>1. UNCHANGED <<migration, receipt, imported, loader, tag, copy, association, work>>
      BY <2>3 DEF loadVars, vars, loading
    <3>2. Grows /\ \A p \in Plans : Spares(p)
      BY <3>1 DEF Grows, Spares
    <3>3. \A s \in Snapshots : migration[s] # None => LoadingAgrees(s)'
      BY <3>1, <3>2, AgreesStays DEF WholeInv
    <3>4. RecordsHeld => RecordsHeld'
      BY <3>1, <3>2, RecordsStayHeld
    <3>5. \A l \in Loaders : LoaderAgrees(l) => LoaderAgrees(l)'
      BY <3>1, <3>4 DEF LoaderAgrees, RecordedInput, OtherInput, Count, Snapshot
    <3>6. \A w \in Workers : Busy(w)' => AsksOfRecords(w)'
      BY <3>1 DEF WholeInv, Busy, AsksOfRecords, Asked, Tagging
    <3> QED
      BY <3>1, <3>3, <3>4, <3>5, <3>6 DEF WholeInv, Stored
  <2> QED
    BY <2>1, <2>2, <2>3 DEF LoadNext
<1> QED
  BY <1>1, <1>2, PromiseInductive, PTL DEF LoadSpec

\* A plan is loaded once and whole, however often its load is interrupted,
\* repeated or run beside itself; a load reports it loaded only then, and is
\* refused only when the account's records are of another.
THEOREM LoadsOnce == LoadSpec => []LoadedOnce
<1>1. WholeInv => LoadedOnce
  <2> SUFFICES ASSUME WholeInv PROVE LoadedOnce
    OBVIOUS
  <2>1. ASSUME NEW s \in Snapshots, migration[s] # None
        PROVE  LET batches == BatchesOf[migration[s].plan]
               IN  /\ Recorded(s) = 1 .. Cardinality(receipt[s])
                   /\ \A n \in DOMAIN batches :
                         IF n \in Recorded(s) THEN Present(batches[n])
                         ELSE batches[n].kind # "associations" => ~Present(batches[n])
                   /\ migration[s].state = "completed" => Recorded(s) = DOMAIN batches
    <3> PICK p, k : p = migration[s].plan /\ k = Count(s)
      OBVIOUS
    <3>1. p \in Plans /\ LoadingAgrees(s) /\ k \in Nat /\ Recorded(s) = 1 .. k
      BY <2>1, RecordedFirst
    <3>2. /\ DOMAIN BatchesOf[p] = 1 .. Len(BatchesOf[p]) /\ Len(BatchesOf[p]) \in Nat
          /\ \A n \in 1 .. Len(BatchesOf[p]) :
                BatchesOf[p][n] \in BatchesMade(p) /\ Carried(BatchesOf[p][n]) # {}
      BY <3>1, BatchAt, BatchesApart
    <3>3. k \in 0 .. Len(BatchesOf[p]) /\ (migration[s].state = "completed" => k = Len(BatchesOf[p]))
      BY <3>1 DEF LoadingAgrees
    <3>4. ASSUME NEW n \in 1 .. Len(BatchesOf[p]), n \in 1 .. k PROVE Present(BatchesOf[p][n])
      BY <3>1, <3>4 DEF LoadingAgrees
    <3>5. ASSUME NEW n \in 1 .. Len(BatchesOf[p]), n \notin 1 .. k,
                 BatchesOf[p][n].kind # "associations"
          PROVE  ~Present(BatchesOf[p][n])
      <4> PICK b : b = BatchesOf[p][n]
        OBVIOUS
      <4>1. n \in k + 1 .. Len(BatchesOf[p])
        BY <3>1, <3>2, <3>5
      <4>2. Absent(b) /\ b \in BatchesMade(p) /\ Carried(b) # {}
        BY <3>1, <3>2, <4>1 DEF LoadingAgrees
      <4>3. b.kind \in {"tags", "copies", "sessions", "entries"}
        BY <3>1, <3>5, <4>2, BatchRecordsOf
      <4>4. CASE b.kind = "tags"
        BY <4>2, <4>4 DEF Absent, Present, Carried
      <4>5. CASE b.kind = "copies"
        BY <4>2, <4>5 DEF Absent, Present, Carried
      <4>6. CASE b.kind \in {"sessions", "entries"}
        BY <4>2, <4>6 DEF Absent, Present, Carried
      <4> QED
        BY <4>3, <4>4, <4>5, <4>6
    <3> QED
      BY <3>1, <3>2, <3>3, <3>4, <3>5 DEF Count
  <2>2. \A s, t \in Snapshots : migration[s] # None /\ migration[t] # None => s = t
    BY DEF WholeInv
  <2>3. \A l \in Loaders : loader[l].at = "ended" /\ loader[l].outcome = "loaded" =>
            RecordedInput(l) /\ migration[Snapshot(l)].state = "completed"
    BY DEF WholeInv, LoaderAgrees
  <2>4. RepeatedPlanResumes
    BY DEF WholeInv, LoaderAgrees, RepeatedPlanResumes, RecordedInput, OtherInput
  <2> QED
    BY <2>1, <2>2, <2>3, <2>4 DEF LoadedOnce, LoadedWhole
<1> QED
  BY <1>1, WholeInductive, PTL
=============================================================================
