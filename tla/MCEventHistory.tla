--------------------------- MODULE MCEventHistory ---------------------------
(***************************************************************************)
(* Instances of EventHistory: an API process and a worker, the events of   *)
(* one task, small batches and answers.                                    *)
(***************************************************************************)
EXTENDS EventHistory

MCBackends == {"mysql", "sqlite"}
=============================================================================
