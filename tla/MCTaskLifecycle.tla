-------------------------- MODULE MCTaskLifecycle --------------------------
(* Small instances of TaskLifecycle: the two deployments of the README. *)
EXTENDS TaskLifecycle, TLC

CONSTANTS api, w1, w2, s1, s2, a1, a2

\* One process that serves HTTP and runs the worker loop.
HostEmbedded == [s \in Slot |-> api]
\* One external worker process with every slot.
HostSplit == [s \in Slot |-> w1]
\* Two external worker processes with one slot each.
HostTwoWorkers == [s \in Slot |-> IF s = s1 THEN w1 ELSE w2]

\* Workers are interchangeable together with their slot.
SymmetricWorkers == {p \in Permutations({s1, s2, w1, w2}) :
                        \A s \in {s1, s2} : p[s] \in {s1, s2} /\ Host[p[s]] = p[Host[s]]}
=============================================================================
