--------------------------- MODULE CardListWindow ---------------------------
(***************************************************************************)
(* The working window of one headless card list (src/card-list/internal/   *)
(* list.ts): page requests and their late answers, the demand of the       *)
(* viewport, the restart of a sequence its source invalidated, refinement, *)
(* retry, and the restoration of a retained window.                        *)
(*                                                                         *)
(* The source is outside the list.  Its result for a description at one    *)
(* version is a sequence; a continuation names the description, the        *)
(* version and the place it continues at.  A source that moved to another  *)
(* version may still answer an older continuation or report it             *)
(* invalidated, and any read may fail or be short.  An entry of the window *)
(* carries, beside its key, the sequence it was read from: the list itself *)
(* never looks at it.                                                      *)
(***************************************************************************)
EXTENDS Naturals, Sequences, SequencesExt, FiniteSets

CONSTANTS
    Contexts,       \* descriptions the list can be refined to
    Results,        \* the source: description -> version -> keys in order
    Versions,       \* versions the source goes through, from 0
    PageLengths,    \* entries of one page, as the source fills it
    WindowLimit,    \* CARD_LIST_LIMITS.window
    Extents,        \* demands of the viewport
    Restorable,     \* retained states a visit may be opened with
    Late,           \* bound: superseded reads still unanswered
    None

\* Where a page begins: at the start of a result or at a continuation, and
\* after so many of its entries.
Positions ==
    [from : {None} \cup [context : Contexts, version : Versions, at : Nat], offset : Nat]

\* A result lists its keys in order, each once.
ASSUME ResultsAssumption ==
    /\ Versions \subseteq Nat
    /\ \A c \in Contexts, v \in Versions :
          /\ Results[c][v] \in Seq(Range(Results[c][v]))
          /\ \A i, j \in DOMAIN Results[c][v] : Results[c][v][i] = Results[c][v][j] => i = j

\* A retained position continues the result of the description it is kept with.
ASSUME RestorableAssumption ==
    /\ Restorable \subseteq [context : Contexts, window : Nat, position : Positions]
    /\ \A r \in Restorable : LET from == r.position.from IN
          from # None => /\ from.context = r.context
                         /\ from.at <= Len(Results[from.context][from.version])

ASSUME BoundsAssumption ==
    /\ PageLengths \subseteq Nat /\ Extents \subseteq Nat /\ WindowLimit \in Nat
    /\ None \notin Restorable /\ None \notin Positions
    /\ None \notin [context : Contexts, version : Versions, at : Nat]

VARIABLES
    version,        \* the version the source answers from
    reads,          \* reads the source has not answered; one at most is current
    context,        \* activeContext
    entries,        \* the presented window
    positions,      \* source position of every presented entry
    restart,        \* restartPosition
    kept,           \* the retained window being restored
    continuation,   \* where the sequence of the window continues
    stale,          \* staleWindow
    demand,         \* [met |-> demandedEntries, awaited |-> pendingDemand]
    firstPage,      \* firstPagePending
    acquired,       \* acquiredEntries
    stalled,
    failed,         \* the failed request, None without an error
    report,         \* how the restoration was reported
    disposed,
    rejected        \* sequences the source told the list it invalidated

listVars == <<version, reads, context, entries, positions, restart, kept, continuation,
              stale, demand, firstPage, acquired, stalled, failed, report, disposed, rejected>>

--------
(* The source.                                                              *)

Start == [from |-> None, offset |-> 0]

SequenceOf(c) == [context |-> c.context, version |-> c.version]

\* The page of a sequence that starts after its first `at' entries: n of them.
PageOf(sequence, at, n) ==
    LET keys == Results[sequence.context][sequence.version]
        end == IF at + n < Len(keys) THEN at + n ELSE Len(keys)
    IN  [entries |-> [i \in 1..(end - at) |-> [key |-> keys[at + i], of |-> sequence]],
         continuation |-> IF end = Len(keys) THEN None
                          ELSE [context |-> sequence.context, version |-> sequence.version,
                                at |-> end]]

\* What the source may answer to a read.
Answers(read) ==
    LET sequence == IF read.from = None THEN [context |-> read.context, version |-> version]
                    ELSE SequenceOf(read.from)
        at == IF read.from = None THEN 0 ELSE read.from.at
    IN  {PageOf(sequence, at, n) : n \in PageLengths}

--------
(* Requests.                                                                *)

Loading == \E r \in reads : r.current

Withdrawn(rs) == {[r EXCEPT !.current = FALSE] : r \in rs}

\* startRequest: the request supersedes the one the list waited for.
RequestedPage(rs, what, position) ==
    Withdrawn(rs) \cup {[context |-> what, from |-> position.from,
                         offset |-> position.offset, current |-> TRUE]}

\* startReplacement, with the description the replacement is read for.
StartReplacement(what) ==
    /\ demand' = [demand EXCEPT !.awaited = 0]
    /\ firstPage' = TRUE
    /\ failed' = None
    /\ reads' = RequestedPage(reads, what, Start)

\* abandonRestoration
AbandonRestoration ==
    /\ kept' = None
    /\ report' = IF kept = None \/ report # "pending" THEN report ELSE "interrupted"

KeysOf(es) == {es[i].key : i \in DOMAIN es}

\* The window bound: the oldest entries leave.
Bounded(es) == IF Len(es) > WindowLimit THEN SubSeq(es, Len(es) - WindowLimit + 1, Len(es)) ELSE es

\* appendWindow's new entries, in their order: a key the window already holds
\* arrives once.
NewEntries(es) ==
    LET new == {i \in DOMAIN es : es[i].key \notin KeysOf(entries)}
        Nth(n) == CHOOSE i \in new : Cardinality({j \in new : j <= i}) = n
    IN  [n \in 1..Cardinality(new) |-> es[Nth(n)]]

\* rememberPositions: an appended page keeps the positions the window has.
Reported(read, supplied, shown) ==
    LET index(k) == CHOOSE i \in DOMAIN supplied : supplied[i].key = k
        knows(k) == read.from # None /\ k \in DOMAIN positions
        found == KeysOf(supplied) \cup DOMAIN positions
    IN  [k \in KeysOf(shown) \cap found |->
            IF knows(k) \/ k \notin KeysOf(supplied) THEN positions[k]
            ELSE [from |-> read.from, offset |-> index(k) - 1]]

\* The window a page leaves.
Shown(read, presented) ==
    Bounded(IF read.from = None THEN presented ELSE entries \o NewEntries(presented))

\* Entries a page brings to the active sequence.
Added(read, presented) ==
    IF read.from = None THEN Len(presented) ELSE Len(NewEntries(presented))

\* restoreWindow: the retained window is back, the result ends, or the page
\* brought the window no further than the page before it.
Restored(shown, next, baseline) ==
    Len(shown) >= kept.window \/ next = None \/ Len(shown) = baseline

\* acquireDemanded, on the values a step leaves.  An error is a failed request.
Acquires(loading, restoring, next, isStale, failure, isStalled, got, wanted) ==
    ~loading /\ ~restoring /\ ~isStale /\ failure = None /\ next # None /\ ~isStalled
        /\ got < wanted
--------
(* Answers.                                                                 *)

Forgotten(read) == reads \ {read}

\* settlePage, with the requests it starts: the next page of a window being
\* restored, or of the extent the viewport demanded.
SettlePage(read, page) ==
    LET first == read.from = None
        presented == SubSeq(page.entries, read.offset + 1, Len(page.entries))
        shown == Shown(read, presented)
        added == Added(read, presented)
        got == IF first THEN added ELSE acquired + added
        wanted == IF first THEN demand.awaited ELSE demand.met
        baseline == IF first THEN 0 ELSE Len(entries)
        back == kept # None /\ Restored(shown, page.continuation, baseline)
        resumes == \/ kept # None /\ ~back
                   \/ Acquires(FALSE, kept # None, page.continuation, FALSE, None,
                               ~first /\ added = 0, got, wanted)
    IN  /\ entries' = shown
        /\ positions' = Reported(read, page.entries, shown)
        /\ restart' = IF first THEN None ELSE restart
        /\ stale' = (~first /\ stale)
        /\ acquired' = got
        /\ demand' = [met |-> wanted, awaited |-> IF first THEN 0 ELSE demand.awaited]
        /\ firstPage' = (~first /\ firstPage)
        /\ stalled' = (~first /\ added = 0)
        /\ continuation' = page.continuation
        /\ failed' = None
        /\ kept' = IF back THEN None ELSE kept
        /\ report' = IF back /\ report = "pending" THEN "presented" ELSE report
        /\ reads' = IF resumes
                    THEN RequestedPage(Forgotten(read), context,
                                   [from |-> page.continuation, offset |-> 0])
                    ELSE Forgotten(read)
        /\ UNCHANGED <<version, context, disposed, rejected>>

\* settleFailure: the position stays for `retry'.
SettleFailure(read) ==
    /\ reads' = Forgotten(read)
    /\ failed' = [from |-> read.from, offset |-> read.offset]
    /\ report' = IF kept # None /\ report = "pending" THEN "interrupted" ELSE report
    /\ UNCHANGED <<version, context, entries, positions, restart, kept, continuation, stale,
                   demand, firstPage, acquired, stalled, disposed, rejected>>

\* forgetSequence: nothing of the rejected sequence stays capturable.
\* Slip: the retained window keeps its own position.
ForgetSequenceSlip ==
    /\ positions' = <<>>
    /\ restart' = Start
    /\ kept' = kept
ForgetSequence ==
    /\ positions' = <<>>
    /\ restart' = Start
    /\ kept' = IF kept = None THEN None ELSE [kept EXCEPT !.position = Start]

\* settleRead of an invalidated sequence: it restarts from its first page.
Restart(read) ==
    /\ ForgetSequence
    /\ demand' = [demand EXCEPT !.awaited = 0]
    /\ firstPage' = TRUE
    /\ failed' = None
    /\ reads' = RequestedPage(Forgotten(read), context, Start)
    /\ rejected' = rejected \cup {SequenceOf(read.from)}
    /\ UNCHANGED <<version, context, entries, continuation, stale, acquired, stalled, report,
                   disposed>>

\* A sequence without a continuation cannot restart: it fails where it asked.
SettleInvalidated(read) ==
    IF read.from = None THEN SettleFailure(read) ELSE Restart(read)

\* The answer of a request another one superseded belongs to a closed request.
\* Slip: every answer is taken for the request the list waits for.
BelongsSlip(read) == Loading
Belongs(read) == read.current

Dropped(read) ==
    /\ reads' = Forgotten(read)
    /\ UNCHANGED <<version, context, entries, positions, restart, kept, continuation, stale,
                   demand, firstPage, acquired, stalled, failed, report, disposed, rejected>>

AnswerPage(read) ==
    \E page \in Answers(read) : IF Belongs(read) THEN SettlePage(read, page) ELSE Dropped(read)

AnswerFailure(read) == IF Belongs(read) THEN SettleFailure(read) ELSE Dropped(read)

AnswerInvalidated(read) ==
    /\ read.from # None /\ read.from.version # version
    /\ IF Belongs(read) THEN SettleInvalidated(read) ELSE Dropped(read)

--------
(* Calls of the consumer and of the change source.                          *)

\* demand: while the first page is outstanding the extent waits for it.
Demand(n) ==
    LET wanted == IF firstPage THEN demand
                  ELSE [demand EXCEPT !.met = IF n > @ THEN n ELSE @]
    IN  /\ demand' = IF firstPage THEN [demand EXCEPT !.awaited = IF n > @ THEN n ELSE @]
                     ELSE wanted
        /\ stalled' = FALSE
        /\ reads' = IF Acquires(Loading, kept # None, continuation, stale, failed, FALSE,
                                acquired, wanted.met)
                    THEN RequestedPage(reads, context, [from |-> continuation, offset |-> 0])
                    ELSE reads
        /\ UNCHANGED <<version, context, entries, positions, restart, kept, continuation, stale,
                       firstPage, acquired, failed, report, disposed, rejected>>

Refresh ==
    /\ AbandonRestoration
    /\ StartReplacement(context)
    /\ UNCHANGED <<version, context, entries, positions, restart, continuation, stale,
                   acquired, stalled, disposed, rejected>>

\* refine: the window of the superseded description stays, and is never paged.
Replaces == TRUE

RefineList(next) ==
    /\ AbandonRestoration
    /\ context' = next
    /\ demand' = [met |-> 0, awaited |-> 0]
    /\ stale' = Replaces
    /\ firstPage' = TRUE
    /\ failed' = None
    /\ reads' = RequestedPage(reads, next, Start)
    /\ UNCHANGED <<version, entries, positions, restart, continuation, acquired, stalled,
                   disposed, rejected>>

\* retry repeats the failed request; a failed first page is asked for again.
Retry ==
    /\ failed # None
    /\ reads' = RequestedPage(reads, context, failed)
    /\ firstPage' = (firstPage \/ failed.from = None)
    /\ failed' = None
    /\ UNCHANGED <<version, context, entries, positions, restart, kept, continuation, stale,
                   demand, acquired, stalled, report, disposed, rejected>>

\* changed, for a change the source says touches the sequence.
CatalogChanged ==
    /\ StartReplacement(context)
    /\ UNCHANGED <<version, context, entries, positions, restart, kept, continuation, stale,
                   acquired, stalled, report, disposed, rejected>>

Release ==
    /\ kept # None
    /\ AbandonRestoration
    /\ UNCHANGED <<version, reads, context, entries, positions, restart, continuation, stale,
                   demand, firstPage, acquired, stalled, failed, disposed, rejected>>

\* The source moves to its next version, with or without a notification.
Publish ==
    /\ version + 1 \in Versions
    /\ version' = version + 1
    /\ UNCHANGED <<reads, context, entries, positions, restart, kept, continuation, stale,
                   demand, firstPage, acquired, stalled, failed, report, disposed, rejected>>

\* dispose: the list's work ends; what was asked may still be answered.
Dispose ==
    /\ disposed' = TRUE
    /\ AbandonRestoration
    /\ entries' = <<>> /\ positions' = <<>>
    /\ reads' = Withdrawn(reads)
    /\ UNCHANGED <<version, context, restart, continuation, stale, demand, firstPage,
                   acquired, stalled, failed, rejected>>

--------
\* retain: what the consumer keeps for the history entry.  A window of a
\* superseded description leaves no position.
Retained ==
    [context |-> context,
     position |->
        IF stale THEN None
        ELSE IF kept # None THEN kept.position
        ELSE IF restart # None THEN restart
        ELSE IF entries = <<>> \/ Head(entries).key \notin DOMAIN positions THEN None
        ELSE positions[Head(entries).key]]

\* A list is opened fresh or with what an earlier visit retained.
ListInit ==
    /\ version \in Versions
    /\ kept \in {None} \cup {r \in Restorable : r.position.from # None =>
                                                    r.position.from.version <= version}
    /\ context \in IF kept = None THEN Contexts ELSE {kept.context}
    /\ entries = <<>> /\ positions = <<>> /\ restart = None /\ continuation = None
    /\ stale = FALSE /\ demand = [met |-> 0, awaited |-> 0]
    /\ acquired = 0 /\ stalled = FALSE /\ failed = None /\ rejected = {} /\ disposed = FALSE
    /\ report = IF kept = None THEN "none" ELSE "pending"
    /\ LET opening == IF kept = None THEN Start ELSE kept.position
       IN  /\ firstPage = (opening.from = None)
           /\ reads = RequestedPage({}, context, opening)

\* Bound: a call that supersedes a read leaves at most Late of them unanswered.
ReadsLeft == Cardinality({r \in reads : ~r.current}) < Late \/ ~Loading

Calls ==
    \/ \E n \in Extents : Demand(n)
    \/ ReadsLeft /\ (Refresh \/ CatalogChanged \/ (\E next \in Contexts : RefineList(next)))
    \/ Retry
    \/ Release
    \/ Dispose

ListNext ==
    \/ \E read \in reads : AnswerPage(read) \/ AnswerFailure(read) \/ AnswerInvalidated(read)
    \/ ~disposed /\ Calls
    \/ Publish

ListSpec == ListInit /\ [][ListNext]_listVars

--------
(* Properties.                                                              *)

\* The presented window is one unbroken run of one sequence -- of the active
\* description once its first page is in -- and it is continued exactly where
\* it ends, whatever answers arrive late and however often the sequence was
\* restarted; a disposed list presents nothing again (list.ts settlePage,
\* settleRead, dispose; docs/card-list.md:114).
WindowIsOneRun ==
    entries # <<>> =>
        LET of == entries[1].of
            keys == Results[of.context][of.version]
            first == CHOOSE i \in DOMAIN keys : keys[i] = entries[1].key
            end == first + Len(entries) - 1
        IN  /\ ~disposed
            /\ \A i \in DOMAIN entries :
                  entries[i].of = of /\ entries[i].key = keys[first + i - 1]
            /\ stale \/ of.context = context
            /\ continuation = IF end = Len(keys) THEN None
                              ELSE [context |-> of.context, version |-> of.version, at |-> end]

\* Nothing the list waits for, would retry or would retain names a sequence
\* its source rejected: leaving in the middle of a restart and coming back
\* begins the result again (list.ts settleRead, forgetSequence, retain).
RejectedIsForgotten ==
    LET asked == {[from |-> r.from, offset |-> r.offset] : r \in {x \in reads : x.current}}
    IN  \A p \in asked \cup ({failed, Retained.position} \ {None}) :
            p.from = None \/ SequenceOf(p.from) \notin rejected

\* The result goes on, nothing failed and nothing is being read, and still the
\* window is shorter than the viewport demanded.
Underfilled ==
    /\ ~disposed /\ ~Loading /\ failed = None
    /\ ~stale /\ kept = None /\ continuation # None /\ ~stalled
    /\ acquired < demand.met

\* A list at rest has acquired what its viewport demanded, unless its result
\* ended, its last page brought nothing, or a read failed: the extent asked for
\* while a first page is outstanding is part of the sequence it begins.  A list
\* that restores a window breaks it (list.ts settlePage, restoreWindow,
\* abandonRestoration, which never acquire the demand).
DemandIsAcquired == ~Underfilled

\* A list that restores nothing is never left underfilled (list.ts settlePage,
\* demand, acquireDemanded).
FreshListAcquires == report = "none" => ~Underfilled

\* However reads, refinements and restorations cross, a list goes on from what
\* its source still accepts, and as far as its viewport demanded.
GoesOnAsDemanded == RejectedIsForgotten /\ FreshListAcquires
=============================================================================
