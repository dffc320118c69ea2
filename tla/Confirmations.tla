---------------------------- MODULE Confirmations ----------------------------
(***************************************************************************)
(* What confirming imports promises its callers, whatever the store does   *)
(* to keep it: every entry is decided once, an operation has at most one   *)
(* outcome, for one request, and keeps it, and repeating a request under   *)
(* another operation reports its outcome without deciding anything again.  *)
(***************************************************************************)
CONSTANTS Entries, Operations, Requested, NamedBy(_), NoOutcome

VARIABLES
    decision,   \* [Entries -> {"absent", "pending", "confirmed", "discarded"}]
    outcome     \* [Operations -> Requested or NoOutcome]

decisionVars == <<decision, outcome>>

Decide(E, from, to) ==
    /\ \A e \in E : decision[e] = from
    /\ decision' = [e \in Entries |-> IF e \in E THEN to ELSE decision[e]]

DecisionInit ==
    /\ decision = [e \in Entries |-> "absent"]
    /\ outcome = [o \in Operations |-> NoOutcome]

Admit(E) == Decide(E, "absent", "pending") /\ UNCHANGED outcome

Discard(E) == Decide(E, "pending", "discarded") /\ UNCHANGED outcome

ConfirmRequest(o, i) ==
    /\ outcome[o] = NoOutcome
    /\ Decide(NamedBy(i), "pending", "confirmed")
    /\ outcome' = [outcome EXCEPT ![o] = i]

RepeatRequest(o, p) ==
    /\ outcome[o] = NoOutcome /\ outcome[p] # NoOutcome
    /\ outcome' = [outcome EXCEPT ![o] = outcome[p]]
    /\ UNCHANGED decision

DecisionNext ==
    \/ \E E \in SUBSET Entries : Admit(E) \/ Discard(E)
    \/ \E o \in Operations, i \in Requested : ConfirmRequest(o, i)
    \/ \E o, p \in Operations : RepeatRequest(o, p)

DecisionSpec == DecisionInit /\ [][DecisionNext]_decisionVars
=============================================================================
