-------------------------- MODULE CardListSelection --------------------------
(***************************************************************************)
(* The explicit selection of one card list and the fragment that decides   *)
(* what can be done with it (src/card-list/internal/list.ts): the tools    *)
(* offered for every presented or selected entry, read in batches beside   *)
(* the pages.  The other fragment kinds share this queue and differ only   *)
(* in being needed for presented entries alone.                            *)
(*                                                                         *)
(* The window is what CardListWindow presents; here a page replaces or     *)
(* extends it by any entries.  An entry is its key and what its target     *)
(* names, which is all the selection compares; a page says of which entries *)
(* it changes the basic information, which the fragments compare too.      *)
(***************************************************************************)
EXTENDS Naturals, FiniteSets

CONSTANTS
    Keys,           \* entry keys, numbers: a batch takes the lowest first
    Identities,     \* what the target of an entry may name under its key
    Batch,          \* CARD_LIST_LIMITS.fragmentBatch
    Capacity,       \* CARD_LIST_LIMITS.window
    Nothing

ASSUME KeysAreNumbers == Keys \subseteq Nat

ASSUME NothingIsNoAnswer ==
    Nothing \notin BOOLEAN /\ Nothing \notin [keys : SUBSET Keys, fresh : BOOLEAN]

VARIABLES
    window,         \* presented key -> identity
    selected,       \* selected keys
    targets,        \* selectionTargets: selected key -> target it was chosen at
    awaiting,       \* pendingSelection
    unavailable,    \* unavailableSelection: key -> "unchecked" or "changed"
    demanded,       \* tools is one of demandedKinds
    fragments,      \* the fragment states, their queue and their reads
    replacing,      \* a first page is outstanding, or failed
    lapsed,         \* the last change passed while the kind was not demanded
    unseen          \* selected keys the last replacement did not hold

selectionVars == <<window, selected, targets, awaiting, unavailable, demanded, fragments,
                   replacing, lapsed, unseen>>

--------
(* Fragments.  `live' are the keys whose token is the one of the read in    *)
(* flight; `value' is the settled answer a state carries, `fresh' whether   *)
(* it was asked for since the last change or replacement.                   *)

NoState == [status |-> "none", value |-> Nothing, fresh |-> FALSE]

\* Keys the kind is read for: the window and the selected targets beyond it.
RequestKeys(win, tgt) == DOMAIN win \cup DOMAIN tgt

Tokens(f) == IF f.active = Nothing THEN {} ELSE f.live

\* setFragmentRefreshPending: a settled answer stays visible meanwhile.
Pending(state) ==
    [state EXCEPT !.status = IF state.value = Nothing THEN "loading" ELSE "refreshing",
                  !.fresh = FALSE]

\* pumpFragments: one read in flight, of the lowest keys that wait.
Pumped(f) ==
    LET keys == {k \in f.queue : Cardinality({j \in f.queue : j < k}) < Batch}
    IN  IF f.active # Nothing \/ f.queue = {} THEN f
        ELSE [f EXCEPT !.queue = @ \ keys, !.live = keys,
                       !.active = [keys |-> keys, fresh |-> TRUE]]

\* The read in flight no longer answers; it may still arrive.
Superseded(f) ==
    IF f.active = Nothing THEN f ELSE [f EXCEPT !.late = TRUE, !.active = Nothing]

Invalidated(f, keys) ==
    [f EXCEPT !.states = [k \in Keys |-> IF k \in keys THEN NoState ELSE @[k]],
              !.queue = @ \ keys, !.live = @ \ keys]

\* staleFragmentKind: every needed answer is asked for again.
StaleKind(f, keys) ==
    [Superseded(f) EXCEPT
        !.states = [k \in Keys |-> IF k \in keys THEN Pending(@[k]) ELSE @[k]],
        !.queue = @ \cup keys, !.live = @ \ keys]

\* retireObsoleteFragments: a read that cannot answer for all its keys makes
\* way; the keys still wanted wait again.
\* Slip: the keys of the retired read are not asked for again.
RetiredSlip(f, needed) ==
    IF f.active = Nothing \/ (f.active.keys \subseteq needed \cap f.live) THEN f
    ELSE Pumped([Superseded(f) EXCEPT !.live = @ \ f.active.keys])
Retired(f, needed) ==
    IF f.active = Nothing \/ (f.active.keys \subseteq needed \cap f.live) THEN f
    ELSE Pumped([Superseded(f) EXCEPT
                    !.queue = @ \cup {k \in f.active.keys \cap needed : k \in f.live},
                    !.live = @ \ f.active.keys])

\* requestFragments, when the kind is demanded.
Requested(f, keys) ==
    LET new == {k \in keys : f.states[k].status = "none"}
    IN  IF ~demanded THEN f
        ELSE Pumped([f EXCEPT !.states = [k \in Keys |-> IF k \in new THEN Pending(@[k]) ELSE @[k]],
                              !.queue = @ \cup new])

\* staleFragments, when the kind is demanded.
Staled(f, keys) == IF demanded THEN StaleKind(f, keys) ELSE f

\* What was answered or asked for so far answers for the time before.
Outdated(f) ==
    [f EXCEPT !.states = [k \in Keys |-> [@[k] EXCEPT !.fresh = FALSE]],
              !.active = IF @ = Nothing THEN Nothing ELSE [@ EXCEPT !.fresh = FALSE]]

--------
(* The selection.                                                           *)

Without(f, keys) == [k \in DOMAIN f \ keys |-> f[k]]

With(f, g) == [k \in DOMAIN f \cup DOMAIN g |-> IF k \in DOMAIN g THEN g[k] ELSE f[k]]

\* What selects keys: targets, awaiting and unavailable as one value.
Selection == [targets |-> targets, awaiting |-> awaiting, unavailable |-> unavailable]

\* Slip: the presented identity takes the place of the selected one.
ReconciledSlip(s, win) ==
    LET present == selected \cap DOMAIN win
    IN  [targets |-> With(s.targets, [k \in present |-> win[k]]),
         awaiting |-> s.awaiting \ present,
         unavailable |-> Without(s.unavailable, present)]

\* reconcileSelection with the window the source presents: a key that waited
\* captures its identity; one that carries another is never substituted.
Reconciled(s, win) ==
    LET present == selected \cap DOMAIN win
        captured == present \cap s.awaiting
        held == (present \ captured) \cap DOMAIN s.targets
        changed == {k \in held : s.targets[k] # win[k]}
    IN  [targets |-> With(s.targets, [k \in captured |-> win[k]]),
         awaiting |-> s.awaiting \ captured,
         unavailable |-> With(Without(s.unavailable, captured \cup held),
                              [k \in changed |-> "changed"])]

\* captureSelectionTarget of the entries the window bound retires.
Captured(s, retired) ==
    LET kept == selected \cap DOMAIN retired
        fresh == {k \in kept : k \notin DOMAIN s.targets \/ k \in s.awaiting}
        changed == {k \in kept \ fresh : s.targets[k] # retired[k]}
    IN  [targets |-> With(s.targets, [k \in fresh |-> retired[k]]),
         awaiting |-> s.awaiting \ fresh,
         unavailable |-> With(Without(s.unavailable, fresh), [k \in changed |-> "changed"])]

\* applyWindow: what the entries that return, leave or change (entryIdentity)
\* do to the fragments; `altered' present other basic information.  A selected
\* target beyond the window keeps its availability.
Applied(f, s, win, altered) ==
    LET returned == {k \in DOMAIN win : k \in DOMAIN s.targets /\ k \notin DOMAIN window}
        tgt == Reconciled(s, win).targets
        gone == {k \in DOMAIN window : k \notin DOMAIN win \/ win[k] # window[k]} \cup altered
        beyond == {k \in DOMAIN tgt : k \notin DOMAIN win}
    IN  Retired(Invalidated(Invalidated(f, returned), gone \ beyond), RequestKeys(win, tgt))

Select(s) ==
    /\ targets' = s.targets /\ awaiting' = s.awaiting /\ unavailable' = s.unavailable

--------
(* Pages.                                                                   *)

Windows == UNION {[ks -> Identities] : ks \in {x \in SUBSET Keys : Cardinality(x) <= Capacity}}

\* settlePage of a first page: every selected identity must be found again.
Unchecked == With([k \in selected |-> "unchecked"], unavailable)

FirstPage(win, altered) ==
    LET s == [Selection EXCEPT !.unavailable = Unchecked]
        r == Reconciled(s, win)
        keys == RequestKeys(win, r.targets)
    IN  /\ replacing
        /\ altered \subseteq DOMAIN window \cap DOMAIN win
        /\ replacing' = FALSE
        /\ window' = win
        /\ Select(r)
        /\ fragments' = Requested(Staled(Outdated(Applied(fragments, s, win, altered)), keys), keys)
        /\ lapsed' = ~demanded
        /\ unseen' = IF demanded THEN selected \ DOMAIN win ELSE {}
        /\ UNCHANGED <<selected, demanded>>

\* settlePage of a further page; the window bound retires entries it held (a
\* page is never larger than the window).
NextPage(added, retired) ==
    LET all == With(window, added)
        win == Without(all, retired)
        s == Captured(Selection, [k \in retired |-> all[k]])
        r == Reconciled(s, win)
    IN  /\ ~replacing
        /\ DOMAIN added \cap DOMAIN window = {} /\ DOMAIN added # {}
        /\ Cardinality(retired) = IF Cardinality(DOMAIN all) > Capacity
                                  THEN Cardinality(DOMAIN all) - Capacity ELSE 0
        /\ window' = win
        /\ Select(r)
        /\ fragments' = Requested(Applied(fragments, s, win, {}), RequestKeys(win, r.targets))
        /\ unseen' = unseen \ DOMAIN all
        /\ UNCHANGED <<selected, demanded, replacing, lapsed>>

--------
(* Reads of the fragment.                                                   *)

\* The response answers for a key that is needed and whose token it carries.
Applies(f, k) == k \in RequestKeys(window, targets) /\ k \in f.live

\* pumpFragments' finish: the keys the provider offers the tool for, those the
\* answer misses (all of them when the read failed), and the next batch.
Finish(read, offers, missing) ==
    LET keys == {k \in read.keys : Applies(fragments, k)}
        state(k) ==
            IF k \in missing
            THEN [fragments.states[k] EXCEPT
                    !.status = IF @ = "loading" THEN "failed" ELSE "refresh-failed"]
            ELSE [status |-> "ready", value |-> k \in offers, fresh |-> read.fresh]
        offered == (keys \ missing) \cap offers
        checked == {k \in offered \cap DOMAIN unavailable : unavailable[k] = "unchecked"}
    IN  /\ fragments' = Pumped([fragments EXCEPT
                !.states = [k \in Keys |-> IF k \in keys THEN state(k) ELSE @[k]],
                !.live = @ \ read.keys, !.active = Nothing])
        /\ unavailable' = Without(unavailable, checked)
        /\ unseen' = IF read.fresh THEN unseen \ offered ELSE unseen
        /\ UNCHANGED <<window, selected, targets, awaiting, demanded, replacing, lapsed>>

Answer ==
    /\ fragments.active # Nothing
    /\ \E offers, missing \in SUBSET fragments.active.keys :
          offers \cap missing = {} /\ Finish(fragments.active, offers, missing)

\* A superseded read, of whatever keys, answers late: it no longer belongs to
\* the queue.
AnswerLate ==
    /\ fragments.late
    /\ fragments' = [fragments EXCEPT !.late = FALSE]
    /\ UNCHANGED <<window, selected, targets, awaiting, unavailable, demanded, replacing,
                   lapsed, unseen>>

--------
(* Calls of the consumer, and changes.                                      *)

Needed == RequestKeys(window, targets)

\* changed, and a restart of the source: with a replacement under way the
\* fragments wait for its first page.
Changed(affected) ==
    LET f == Staled(Outdated(fragments), Needed)
    IN  /\ fragments' = IF affected THEN f ELSE Requested(f, Needed)
        /\ replacing' = (replacing \/ affected)
        /\ lapsed' = ~demanded
        /\ unseen' = IF demanded THEN unseen ELSE {}
        /\ UNCHANGED <<window, selected, targets, awaiting, unavailable, demanded>>

\* refine: the window stays as it is until the first page.
Refine ==
    /\ ~replacing
    /\ replacing' = TRUE
    /\ UNCHANGED <<window, selected, targets, awaiting, unavailable, demanded, fragments,
                   lapsed, unseen>>

\* demand: the presentation needs the kind, or does not.  Demanding it asks
\* for what is missing and for what still waits.
DemandKind(wanted) ==
    LET new == {k \in Needed : fragments.states[k].status = "none"}
    IN  /\ wanted # demanded
        /\ demanded' = wanted
        /\ fragments' = IF ~wanted THEN fragments
                        ELSE Pumped([fragments EXCEPT
                                !.states = [k \in Keys |-> IF k \in new THEN Pending(@[k]) ELSE @[k]],
                                !.queue = @ \cup new])
        /\ UNCHANGED <<window, selected, targets, awaiting, unavailable, replacing,
                       lapsed, unseen>>

ReloadFragment(k) ==
    LET f == Invalidated(fragments, {k})
        again == [f EXCEPT !.states[k] = Pending(fragments.states[k]), !.queue = @ \cup {k}]
    IN  /\ k \in Needed
        /\ fragments' = Pumped(Retired(again, Needed))
        /\ UNCHANGED <<window, selected, targets, awaiting, unavailable, demanded, replacing,
                       lapsed, unseen>>

\* reloadFragments, also for the reader's own notification.
ReloadFragments ==
    /\ fragments' = Pumped(StaleKind(fragments, Needed))
    /\ UNCHANGED <<window, selected, targets, awaiting, unavailable, demanded, replacing,
                   lapsed, unseen>>

\* setSelected and setGroupSelected of keys: the identity presented now is
\* captured, a key that is not presented waits for its entry.
SelectKeys(keys) ==
    LET present == keys \cap DOMAIN window
    IN  /\ selected' = selected \cup keys
        /\ targets' = With(targets, [k \in present |-> window[k]])
        /\ awaiting' = (awaiting \cup keys) \ present
        /\ unavailable' = Without(unavailable, present)
        /\ unseen' = unseen \ present
        /\ UNCHANGED <<window, demanded, fragments, replacing, lapsed>>

\* setSelected retires the availability of a target beyond the window and the
\* read under way for it; setGroupSelected leaves that read to finish.
Deselect(keys, alone) ==
    LET retired == {k \in keys : k \in DOMAIN targets /\ k \notin DOMAIN window}
        f == Invalidated(fragments, retired)
        rest == Without(targets, keys)
    IN  /\ selected' = selected \ keys
        /\ targets' = rest
        /\ awaiting' = awaiting \ keys
        /\ unavailable' = Without(unavailable, keys)
        /\ unseen' = unseen \ keys
        /\ fragments' = IF alone /\ retired # {} THEN Retired(f, RequestKeys(window, rest)) ELSE f
        /\ UNCHANGED <<window, demanded, replacing, lapsed>>

\* clearSelection, when anything is selected.
ClearSelection ==
    /\ selected # {}
    /\ selected' = {} /\ targets' = <<>> /\ awaiting' = {} /\ unavailable' = <<>> /\ unseen' = {}
    /\ fragments' = Retired(Invalidated(fragments, DOMAIN targets \ DOMAIN window), DOMAIN window)
    /\ UNCHANGED <<window, demanded, replacing, lapsed>>

\* A list begins with the selection an earlier visit retained, none of it
\* checked against what the source presents now, at the beginning of its result
\* or at a retained place.
SelectionInit ==
    /\ window = <<>>
    /\ selected \in SUBSET Keys
    /\ \E held \in SUBSET selected : targets \in [held -> Identities]
    /\ awaiting = selected \ DOMAIN targets
    /\ unavailable = [k \in selected |-> "unchecked"]
    /\ demanded = TRUE
    /\ fragments = [states |-> [k \in Keys |-> NoState], queue |-> {}, live |-> {},
                    active |-> Nothing, late |-> FALSE]
    /\ replacing \in BOOLEAN
    /\ lapsed = FALSE
    /\ unseen = selected

SelectionNext ==
    \/ \E win \in Windows, altered \in SUBSET DOMAIN window : FirstPage(win, altered)
    \/ \E added \in Windows, retired \in SUBSET DOMAIN window : NextPage(added, retired)
    \/ Answer
    \/ AnswerLate
    \/ \E affected \in BOOLEAN : Changed(affected)
    \/ Refine
    \/ \E wanted \in BOOLEAN : DemandKind(wanted)
    \/ \E k \in Keys : ReloadFragment(k)
    \/ ReloadFragments
    \/ \E k \in Keys : Deselect({k}, TRUE)
    \/ \E keys \in SUBSET Keys \ {{}} : SelectKeys(keys) \/ Deselect(keys, FALSE)
    \/ ClearSelection

SelectionSpec == SelectionInit /\ [][SelectionNext]_selectionVars

--------
(* Properties.                                                              *)

\* toolAvailable
ToolAvailable ==
    /\ selected # {} /\ selected = DOMAIN targets \cap selected
    /\ DOMAIN unavailable = {}
    /\ \A k \in selected : fragments.states[k].value = TRUE

\* What a page brings is never taken for what was chosen: a target changes
\* only by selecting its key again (list.ts reconcileSelection,
\* captureSelectionTarget; docs/card-list.md:128-130).
NeverSubstituted ==
    [][window' # window =>
        \A k \in DOMAIN targets \ awaiting :
            k \in DOMAIN targets' /\ targets'[k] = targets[k]]_selectionVars

\* A tool offered for the selection acts on all of it and on nothing else: a
\* presented entry carries the identity it was chosen at, and one the last
\* replacement did not hold was offered the tool by an answer asked for since,
\* if tools were demanded (list.ts toolAvailable, settlePage,
\* applyFragmentResults).
ToolsActOnWhatWasChosen ==
    ToolAvailable =>
        \A k \in selected :
            /\ k \in DOMAIN window => window[k] = targets[k]
            /\ k \notin unseen

\* Whatever pages come and go, a selection is what its user chose, and a tool
\* offered for it acts on exactly that.
ActsOnWhatWasChosen == NeverSubstituted /\ []ToolsActOnWhatWasChosen

\* No row waits for an answer nobody asks for: a fragment shown as loading or
\* refreshing is in the read under way or waits for its turn, and nothing
\* waits without a read under way, but for the first page of a replacement
\* (list.ts retireObsoleteFragments, pumpFragments, requestFragments).
NoFragmentForgotten ==
    /\ \A k \in Needed :
         fragments.states[k].status \in {"loading", "refreshing"} =>
            k \in fragments.queue \cup Tokens(fragments)
    /\ demanded /\ ~replacing => (fragments.queue # {} => fragments.active # Nothing)

\* An answer presented as current was asked for after the last change and the
\* last replacement, while the presentation kept demanding the kind
\* (list.ts staleFragments, fragmentResponseApplies).
ReadyIsFresh ==
    \A k \in Keys : fragments.states[k].status = "ready" /\ ~lapsed => fragments.states[k].fresh

\* Fragments are answered, and answered for what is presented now.
FragmentsAnswer == NoFragmentForgotten /\ ReadyIsFresh
=============================================================================
