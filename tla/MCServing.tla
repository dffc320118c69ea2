------------------------------ MODULE MCServing -------------------------------
(* What serves a browser: Catalog, and the transport every request takes. *)
(* A request knows nothing of what Catalog publishes, so a behaviour moves *)
(* one of the two.                                                         *)
EXTENDS MCCatalog, RequestTransport

VARIABLE part

AllReported == \A c \in Calls : call[c].at = "ended"

ServingInit ==
    /\ part \in {"catalog", "transport"}
    /\ Init /\ TransportInit
    /\ part = "transport" => \A r \in Readers : reader[r].card = a

ServingNext ==
    /\ UNCHANGED part
    /\ \/ part = "catalog" /\ Next /\ UNCHANGED call
       \/ /\ part = "transport" /\ UNCHANGED vars
          /\ TransportNext \/ (AllReported /\ UNCHANGED call)

ServingSpec == ServingInit /\ [][ServingNext]_<<vars, call, part>>
=============================================================================
