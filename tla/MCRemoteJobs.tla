---------------------------- MODULE MCRemoteJobs ----------------------------
(* Small instances of RemoteJobs. *)
EXTENDS RemoteJobs, TLC

CONSTANTS r1, r2, q1, q2, q3

OneTarget == [j \in Job |-> r1]
Threads == Permutations(Thread)
=============================================================================
