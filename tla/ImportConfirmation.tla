-------------------------- MODULE ImportConfirmation --------------------------
(***************************************************************************)
(* Confirmation (src/usercards/internal/import-confirmation.ts and         *)
(* imports/confirmation.ts).  A request reads the entries it names before  *)
(* its transaction starts, and applies what it read once the locked rows   *)
(* still carry the revisions the caller quoted.  Inside the transaction it *)
(* looks its operation up, and only later reserves it, so a confirmation   *)
(* of another session can reserve the operation in between.                *)
(***************************************************************************)
EXTENDS ImportState

CONSTANT MaxConfirmEntries    \* USERCARDS_LIMITS.maxConfirmEntries

ASSUME ConfirmAssumption == MaxConfirmEntries \in Nat

--------
(* The reviewed content a confirmation applies: the printing names its     *)
(* card, whatever the entry recorded.                                      *)

Reviewed(content) ==
    IF content.printing = None THEN content
    ELSE [content EXCEPT !.card = CardOf[content.printing]]

TargetOf(content) ==
    IF content.printing = None THEN content.card ELSE content.printing

Unresolved(destination, content) ==
    IF destination = "ownership" THEN content.printing = None \/ content.finish = None
    ELSE content.printing = None /\ content.card = None

\* confirmImport reads the entries, outside any transaction.  A caller quotes
\* revisions it has read, so none that is yet to be published.
ReadReviewed(w, op, s, destination, E) ==
    /\ request[w] = None
    /\ Cardinality(E) \in 1 .. MaxConfirmEntries
    /\ E \subseteq EntriesOf(s)
    /\ \E quoted \in [E -> 1 .. MaxChanges] :
         /\ \A e \in E : quoted[e] <= entry[e].revision
         /\ request' = [request EXCEPT ![w] =
              [phase |-> "read", op |-> op, identical |-> None,
               input |-> [session |-> s, destination |-> destination,
                          quoted |-> [e \in EntryIds |-> IF e \in E THEN quoted[e] ELSE 0]],
               state |-> [e \in EntryIds |-> IF e \in E THEN entry[e].state ELSE None],
               reviewed |-> [e \in EntryIds |->
                               IF e \in E THEN Reviewed(entry[e].content) ELSE None]]]
    /\ UNCHANGED <<session, entry, staged, revision, lock, receipt,
                   acquisition, binding, association>>

--------
(* The transaction, up to the reservation: session lock, recorded          *)
(* operation, identical request, classification of the locked rows.        *)

Identical(input) == {o \in Ops : receipt[o] # None /\ receipt[o].input = input}

\* A requested entry is stale unless it was pending when it was read and its
\* locked row is pending at the quoted revision.
Stale(r, e) ==
    \/ entry[e].state # "pending"
    \/ r.state[e] # "pending"
    \/ entry[e].revision # r.input.quoted[e]

Confirmable(r) ==
    \A e \in Named(r.input) :
        ~Stale(r, e) /\ ~Unresolved(r.input.destination, r.reviewed[e])

LockConfirmation(w) ==
    LET r == request[w]
    IN  /\ r # None /\ r.phase = "read"
        /\ Unlocked(r.input.session)
        /\ receipt[r.op] = None
        /\ \/ Identical(r.input) # {} /\ \E o \in Identical(r.input) :
                request' = [request EXCEPT
                    ![w] = [@ EXCEPT !.phase = "locked", !.identical = o]]
           \/ /\ Identical(r.input) = {} /\ Confirmable(r)
              /\ request' = [request EXCEPT ![w].phase = "locked"]
        /\ lock' = [lock EXCEPT ![r.input.session] = w]
        /\ UNCHANGED <<session, entry, staged, revision, receipt,
                       acquisition, binding, association>>

\* A request whose answer changes nothing: its operation is recorded, as a
\* replay or a conflict, or an entry it names is stale or unresolved.
AnswerUnchanged(w) ==
    LET r == request[w]
    IN  /\ r # None /\ r.phase = "read"
        /\ Unlocked(r.input.session)
        /\ \/ receipt[r.op] # None
           \/ Identical(r.input) = {} /\ ~Confirmable(r)
        /\ request' = [request EXCEPT ![w] = None]
        /\ UNCHANGED <<session, entry, staged, revision, lock, receipt,
                       acquisition, binding, association>>

\* The transaction ends: its session is free and its request answered.
EndTransaction(w) ==
    /\ lock' = [lock EXCEPT ![request[w].input.session] = None]
    /\ request' = [request EXCEPT ![w] = None]

\* A confirmation rolls back: another one reserved its operation while it
\* ran, its destination is refused, or a statement or the process failed.
RollBack(w) ==
    /\ request[w] # None /\ request[w].phase = "locked"
    /\ EndTransaction(w)
    /\ UNCHANGED <<session, entry, staged, revision, receipt,
                   acquisition, binding, association>>

--------
(* The transaction from the reservation of its operation to its commit.    *)

\* Slip: the receipt is upserted.
ReservedSlip(w) == request[w] # None /\ request[w].phase = "locked"

\* The receipt's insert found its operation free.
Reserved(w) ==
    /\ request[w] # None /\ request[w].phase = "locked"
    /\ receipt[request[w].op] = None

Repeated(r) == receipt[r.identical]

\* A request that already ran under another operation: this one is bound to
\* the outcome and the position that one recorded.
CommitIdentical(w) ==
    LET r == request[w]
    IN  /\ Reserved(w)
        /\ r.identical # None
        /\ receipt' = [receipt EXCEPT ![r.op] = Repeated(r)]
        /\ AdvanceRevision
        /\ EndTransaction(w)
        /\ UNCHANGED <<session, entry, staged, acquisition, binding, association>>

\* closeConfirmedEntries: fails unless every named entry is still pending.
CloseConfirmed(r) ==
    LET E == Named(r.input)
    IN  /\ \A e \in E : entry[e].state = "pending"
        /\ entry' = [e \in EntryIds |->
               IF e \in E THEN Closed(entry[e], "confirmed") ELSE entry[e]]
        /\ session' = BumpSession(r.input.session)

\* Slip: what was acquired is not bound to the receipt.
RecordedSlip(r, acquisitions, associations, position) ==
    [receipt EXCEPT ![r.op] =
        [input |-> r.input, acquisitions |-> {},
         associations |-> associations, position |-> position]]

Recorded(r, acquisitions, associations, position) ==
    [receipt EXCEPT ![r.op] =
        [input |-> r.input, acquisitions |-> acquisitions,
         associations |-> associations, position |-> position]]

\* Entries that review to one target add up to one intended quantity.
ReviewsOf(r, x) == {e \in Named(r.input) : TargetOf(r.reviewed[e]) = x}
ReviewedTargets(r) == {TargetOf(r.reviewed[e]) : e \in Named(r.input)}

\* Slip: the destination's quantity is replaced.
RequiredSlip(r, x) == Total([e \in ReviewsOf(r, x) |-> r.reviewed[e].quantity])

Required(r, x) ==
    association[r.input.destination][x]
      + Total([e \in ReviewsOf(r, x) |-> r.reviewed[e].quantity])

CommitTag(w) ==
    LET r == request[w]
        t == r.input.destination
    IN  /\ Reserved(w)
        /\ r.identical = None
        /\ t \in Deckable
        /\ \A x \in ReviewedTargets(r) : Required(r, x) \in 1 .. MaxAssociation
        /\ association' = [association EXCEPT ![t] =
               [x \in Targets |-> IF x \in ReviewedTargets(r) THEN Required(r, x)
                                 ELSE association[t][x]]]
        /\ CloseConfirmed(r)
        /\ AdvanceRevision
        /\ receipt' = Recorded(r, {},
               {[target |-> x, quantity |-> Required(r, x)] : x \in ReviewedTargets(r)},
               revision + 1)
        /\ EndTransaction(w)
        /\ UNCHANGED <<staged, acquisition, binding>>

\* Slip: occurrences are counted over what is still pending.
BoundWithSlip(s, content) ==
    {e \in PendingOf(s) : binding[e] # None /\ binding[e].content = content}

\* Entries of this session already bound to an acquisition of this content.
BoundWith(s, content) ==
    {e \in EntryIds : /\ binding[e] # None
                      /\ entry[e].session = s
                      /\ binding[e].content = content}

SameContent(r, e) == {f \in Named(r.input) : r.reviewed[f] = r.reviewed[e]}

\* readEntryKeys: each entry takes the next free occurrence of its content,
\* in the order the request names them.
Occurrences(r) ==
    {occurrence \in [Named(r.input) -> 1 .. Cardinality(EntryIds)] :
        \A e \in Named(r.input) :
            LET bound == Cardinality(BoundWith(r.input.session, r.reviewed[e]))
            IN  {occurrence[f] : f \in SameContent(r, e)} =
                  (bound + 1) .. (bound + Cardinality(SameContent(r, e)))}

AcquisitionOf(r, occurrence, e) ==
    [session |-> r.input.session, content |-> r.reviewed[e],
     occurrence |-> occurrence[e]]

RecordedAcquisitions == {a.id : a \in acquisition}

\* An acquisition already recorded at an entry's key is bound again and
\* creates no copy; any other is claimed with as many copies as the entry has.
\* An outcome that claims nothing needs a recorded position to inherit.
CommitOwnership(w) ==
    LET r == request[w]
        E == Named(r.input)
    IN  /\ Reserved(w)
        /\ r.identical = None
        /\ r.input.destination = "ownership"
        /\ \E occurrence \in Occurrences(r) :
             LET Key(e) == AcquisitionOf(r, occurrence, e)
                 covered == {Key(e) : e \in E}
                 claimed == {e \in E : Key(e) \notin RecordedAcquisitions}
                 inherited == {receipt[o].position :
                     o \in {o \in Ops : /\ receipt[o] # None
                                       /\ receipt[o].acquisitions \cap covered # {}}}
             IN  /\ claimed # {} \/ inherited # {}
                 /\ acquisition' = acquisition \cup
                        {[id |-> Key(e), entry |-> e, copies |-> r.reviewed[e].quantity] :
                            e \in claimed}
                 /\ binding' = [e \in EntryIds |-> IF e \in E THEN Key(e) ELSE binding[e]]
                 /\ receipt' = Recorded(r, covered, {},
                        IF claimed # {} THEN revision + 1 ELSE Max(inherited))
        /\ CloseConfirmed(r)
        /\ AdvanceRevision
        /\ EndTransaction(w)
        /\ UNCHANGED <<staged, association>>
=============================================================================
