----------------------------- MODULE ImportState -----------------------------
(***************************************************************************)
(* The private import records UserCards keeps for one account, and the     *)
(* operators its staging, review and confirmation handlers share           *)
(* (src/usercards/internal/imports).  Every record is scoped to an         *)
(* account by its primary key, so one account is the whole system.         *)
(***************************************************************************)
EXTENDS Integers, FiniteSets, FiniteSetsExt, TLC

CONSTANTS
    None,           \* null, or a row that does not exist
    Cards,          \* playable card identities
    Printings,      \* printings of those cards
    CardOf,         \* [Printings -> Cards], the catalog's answer
    Finishes,       \* physical finishes
    MaxQuantity,    \* bound on the quantity of one entry
    Candidates,     \* recognition alternatives
    MaxCandidates,  \* USERCARDS_LIMITS.maxImportCandidates
    Sessions,       \* import session identities
    Sources,        \* source identities (kind and id) of parsed imports
    InputIds,       \* identities of captures and of caller-identified lines
    Keys,           \* source line keys: what a line publishes, less its quantity
    Published,      \* [Keys -> [printing, finish]], the catalog's answer for a key
    MaxAttempts,    \* bound on the entries one source line stages
    Tags,           \* tags a confirmation may name
    Deckable,       \* the tags among them that accept card and printing targets
    MaxAssociation, \* USERCARDS_LIMITS.maxAssociationQuantity
    Ops,            \* confirmation operation identities
    Workers,        \* confirmation requests being served at once
    MaxChanges      \* bound on account revisions, that is on committed changes

ASSUME CatalogAssumption ==
    /\ CardOf \in [Printings -> Cards]
    /\ Cards \cap Printings = {}
    /\ None \notin Cards \cup Printings \cup Finishes
    /\ Published \in [Keys -> [printing : Printings \cup {None},
                               finish : Finishes \cup {None}]]

ASSUME IdentityAssumption ==
    /\ None \notin Sessions \cup Ops \cup Workers \cup Keys
    /\ Deckable \subseteq Tags
    /\ "ownership" \notin Tags
    /\ InputIds \cap (Sessions \X Keys \X (1 .. MaxAttempts)) = {}
    /\ IsFiniteSet(InputIds) /\ IsFiniteSet(Sessions) /\ IsFiniteSet(Keys)

ASSUME BoundAssumption ==
    /\ MaxQuantity \in Nat \ {0}
    /\ {MaxCandidates, MaxAttempts, MaxAssociation, MaxChanges} \subseteq Nat

\* Source lines are staged under an identity hashed from these three.
EntryIds == InputIds \cup (Sessions \X Keys \X (1 .. MaxAttempts))

Contents ==
    [card : Cards \cup {None}, printing : Printings \cup {None},
     finish : Finishes \cup {None}, quantity : 1 .. MaxQuantity]

CaptureSource(s) == <<"capture", s>>

SessionRows ==
    [source : Sources \cup {CaptureSource(s) : s \in Sessions},
     lastAccepted : Cards \cup {None}, revision : Nat \ {0}]

EntryStates == {"pending", "confirmed", "discarded"}

\* `key` is the line's source key, None for a capture or a caller's line.
EntryRows ==
    [session : Sessions, position : Nat \ {0}, key : Keys \cup {None},
     state : EntryStates, content : Contents,
     candidates : SUBSET Candidates, revision : Nat \ {0}]

\* What a staging receipt remembers of the input it admitted or suppressed.
StageRows ==
    [session : Sessions, outcome : {"admitted", "suppressed"},
     fingerprint : [kind : {"line", "capture"}, content : Contents,
                    candidates : SUBSET Candidates]]

Destinations == {"ownership"} \cup Tags

\* What a confirmation asks for: the entries it names are those whose
\* reviewed revision it quotes, the others are quoted 0.
Inputs == [session : Sessions, destination : Destinations,
           quoted : [EntryIds -> 0 .. MaxChanges]]
Named(input) == {e \in EntryIds : input.quoted[e] # 0}

AcquisitionIds ==
    [session : Sessions, content : Contents, occurrence : Nat \ {0}]

Targets == Cards \cup Printings
AcquisitionRows == [id : AcquisitionIds, entry : EntryIds, copies : 1 .. MaxQuantity]
Outcomes ==
    [input : Inputs, acquisitions : SUBSET AcquisitionIds,
     associations : SUBSET [target : Targets, quantity : Nat], position : Nat]

\* A confirmation being served: what it read before its transaction, and the
\* operation that already recorded the same request, if one did.
Requests ==
    [phase : {"read", "locked"}, op : Ops, identical : Ops \cup {None},
     input : Inputs, state : [EntryIds -> EntryStates \cup {None}],
     reviewed : [EntryIds -> Contents \cup {None}]]

ASSUME NoneAssumption ==
    None \notin SessionRows \cup EntryRows \cup StageRows \cup Requests \cup Inputs
               \cup Outcomes \cup AcquisitionIds \cup Contents \cup EntryStates

VARIABLES
    session,      \* import_session: [Sessions -> SessionRows or None]
    entry,        \* import_entry with its candidates: [EntryIds -> EntryRows or None]
    staged,       \* import_stage: [EntryIds -> StageRows or None]
    revision,     \* account_state.revision
    lock,         \* the confirmation holding each session row across statements
    request,      \* the confirmations being served
    receipt,      \* import_receipt with its outcome: [Ops -> Outcomes or None]
    acquisition,  \* import_acquisition: its rows, with the copies each created
    binding,      \* import_entry_acquisition: [EntryIds -> AcquisitionIds or None]
    association   \* quantities of the destination tags: [Tags -> [Targets -> Nat]]

vars == <<session, entry, staged, revision, lock, request, receipt,
          acquisition, binding, association>>

\* The records only a confirmation writes.
confirmationVars == <<lock, request, receipt, acquisition, binding, association>>

--------

EntriesOf(s) == {e \in EntryIds : entry[e] # None /\ entry[e].session = s}
PendingOf(s) == {e \in EntriesOf(s) : entry[e].state = "pending"}

\* A sum is counted in units, one for each that is to be added.
Units(quantity) == UNION {{e} \X (1 .. quantity[e]) : e \in DOMAIN quantity}
Total(quantity) == Cardinality(Units(quantity))

\* A handler that locks a session row waits while a confirmation holds it.
LockedBy(s, w) == lock[s] = w
Unlocked(s) == LockedBy(s, None)

\* One more account revision, published with the change it completes.
AdvanceRevision ==
    /\ revision < MaxChanges
    /\ revision' = revision + 1

BumpSession(s) == [session EXCEPT ![s].revision = @ + 1]

\* Slip: positions count from zero.
NextPositionZero(s) == Cardinality(EntriesOf(s))

NextPosition(s) == Max({0} \cup {entry[e].position : e \in EntriesOf(s)}) + 1

\* The row a fresh entry starts as.
NewEntry(s, position, key, content, candidates) ==
    [session |-> s, position |-> position, key |-> key, state |-> "pending",
     content |-> content, candidates |-> candidates, revision |-> 1]

\* Slip: closing an entry leaves its state.
ClosedSlip(row, state) == [row EXCEPT !.revision = @ + 1]

Closed(row, state) == [row EXCEPT !.state = state, !.revision = @ + 1]

InitState ==
    /\ session = [s \in Sessions |-> None]
    /\ entry = [e \in EntryIds |-> None]
    /\ staged = [e \in EntryIds |-> None]
    /\ revision = 0
    /\ lock = [s \in Sessions |-> None]
    /\ request = [w \in Workers |-> None]
    /\ receipt = [o \in Ops |-> None]
    /\ acquisition = {}
    /\ binding = [e \in EntryIds |-> None]
    /\ association = [t \in Tags |-> [x \in Targets |-> 0]]
=============================================================================
