---------------------------- MODULE MC_Ingestion ----------------------------
(***************************************************************************)
(* A bounded instance of Ingestion.  A behaviour explores one family, with *)
(* a worker that dies but every task and pass in time; one version and two *)
(* faults of any kind; or two versions, one fault and no request.          *)
(***************************************************************************)
EXTENDS Ingestion

CONSTANTS w1, w2

TwoWorkers == {w1, w2}

VARIABLE explored

InTime   == contested' = {} /\ faults' <= 1 /\ current' + requests' <= 4
Late     == current' = 1 /\ requests' <= 2
Replaced == faults' <= 1 /\ requests' = 0

MCInit == Init /\ explored \in {"in time", "late", "replaced"}

MCNext ==
  /\ Next
  /\ UNCHANGED explored
  /\ \/ explored = "in time" /\ InTime
     \/ explored = "late" /\ Late
     \/ explored = "replaced" /\ Replaced

MCSpec == MCInit /\ [][MCNext]_<<explored, vars>> /\ Fairness

=============================================================================
