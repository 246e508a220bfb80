--------------------------- MODULE MCRemoteRunner ---------------------------
(* Small instances of RemoteRunner. *)
EXTENDS RemoteRunner

CONSTANTS r1, r2, q1, q2

OneTarget == [j \in Job |-> r1]
=============================================================================
