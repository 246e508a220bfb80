----------------------------- MODULE JobPromise -----------------------------
(***************************************************************************)
(* What the remote job broker promises about one job row: it is offered at *)
(* most MaxAttempts times, and once ended it is never offered again.       *)
(***************************************************************************)
EXTENDS Naturals

CONSTANTS Job, MaxAttempts

VARIABLES
    phase,   \* how far the job is
    offers   \* how many times it was handed to a runner

promise == <<phase, offers>>

PromiseInit ==
    /\ phase = [j \in Job |-> "absent"]
    /\ offers = [j \in Job |-> 0]

Submit(j) ==
    /\ phase[j] = "absent"
    /\ phase' = [phase EXCEPT ![j] = "queued"]
    /\ UNCHANGED offers

Offer(j) ==
    /\ phase[j] \in {"queued", "running"}
    /\ offers[j] < MaxAttempts
    /\ phase' = [phase EXCEPT ![j] = "running"]
    /\ offers' = [offers EXCEPT ![j] = @ + 1]

\* One statement may end several jobs.
End(S) ==
    /\ \A j \in S : phase[j] \in {"queued", "running"}
    /\ phase' = [j \in Job |-> IF j \in S THEN "ended" ELSE phase[j]]
    /\ UNCHANGED offers

PromiseNext ==
    \/ \E j \in Job : Submit(j) \/ Offer(j)
    \/ \E S \in SUBSET Job : End(S)

PromiseSpec == PromiseInit /\ [][PromiseNext]_promise

=============================================================================
