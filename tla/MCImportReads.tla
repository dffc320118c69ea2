---------------------------- MODULE MCImportReads ----------------------------
(* The instances of MCImportStore, with a reader. *)
EXTENDS MCImportStore, ImportReads

\* While a list is read its import is staged, reviewed and discarded; its
\* confirmations are the other question.
NotConfirmed == \A w \in Workers, o \in Ops : request[w] = None /\ receipt[o] = None
OneQuestion == listing.at # "idle" => NotConfirmed

MCNext ==
    \/ Next /\ UNCHANGED listing
    \/ NotConfirmed /\ \E s \in Sessions : Start(s)
    \/ ReadEntries

MCSpec == ReadInit /\ [][MCNext]_readVars
=============================================================================
