----------------------------- MODULE RemoteJobs -----------------------------
(***************************************************************************)
(* The broker of remote jobs: the rows of remote_jobs, the runner-facing   *)
(* handlers (claim, heartbeat, complete) that run in parallel server       *)
(* threads, and the tool that submits a job and waits for it.              *)
(*                                                                         *)
(* A handler is a SELECT followed by a write.  The claim writes with a     *)
(* compare-and-swap; heartbeat and complete write by primary key.  A       *)
(* runner is any client that was once given a lease token of the job, so   *)
(* duplicated, delayed and abandoned requests are all included.            *)
(*                                                                         *)
(* Time is counted by timers: left[j] is lease_expires_at minus the        *)
(* present, age the time since a handler took its own utcnow().            *)
(***************************************************************************)
EXTENDS Integers

CONSTANTS
    Job,         \* job ids, numbered in creation order
    Runner,      \* runner ids
    Target,      \* Target[j]: the runner id the job is submitted to
    Thread,      \* server threads (bounds the handlers open at once)
    None,        \* SQL NULL
    Lease,       \* length of a lease in ticks (45 s)
    MaxAttempts, \* remote_job_max_attempts
    Delay        \* bound: ticks that may pass between a handler's utcnow() and its write

ASSUME JobsAssumption ==
    /\ Job \subseteq Nat
    /\ Target \in [Job -> Runner]
    /\ None \notin Int
    /\ Lease \in Nat \ {0}
    /\ MaxAttempts \in Nat \ {0}
    /\ Delay \in Nat

VARIABLES
    status,   \* remote_jobs.status
    token,    \* remote_jobs.lease_token, numbered per job (0 is NULL)
    left,     \* remote_jobs.lease_expires_at, relative to the present
    attempts, \* remote_jobs.attempts
    cancel,   \* remote_jobs.cancel_requested
    result,   \* whose output the row holds: a lease token, or 0 for the server's own text
    waiter,   \* the run_remote_command call waiting for the job
    online,   \* remote_runners row seen within ONLINE_SECONDS
    request   \* the handler open in each server thread

row  == <<status, token, left, attempts, cancel, result>>
vars == <<status, token, left, attempts, cancel, result, waiter, online, request>>

Ended    == {"completed", "failed", "cancelled"}
Status   == {"absent", "queued", "running"} \cup Ended
\* "select": claim before its SELECT; "claim", "renew", "store": read, not yet written.
Op       == {"free", "select", "claim", "renew", "store"}
Request  == [op : Op, runner : Runner \cup {None}, job : Job \cup {None}, token : Nat,
             seen : Status, ok : BOOLEAN, age : Nat]
New(op, n, j, k, ok) == [op |-> op, runner |-> n, job |-> j, token |-> k,
                         seen |-> "absent", ok |-> ok, age |-> 0]
Free     == New("free", None, None, 0, FALSE)

Init ==
    /\ status = [j \in Job |-> "absent"]
    /\ token = [j \in Job |-> 0]
    /\ left = [j \in Job |-> None]
    /\ attempts = [j \in Job |-> 0]
    /\ cancel = [j \in Job |-> FALSE]
    /\ result = [j \in Job |-> None]
    /\ waiter = [j \in Job |-> "none"]
    /\ online = [n \in Runner |-> FALSE]
    /\ request = [q \in Thread |-> Free]

Open(q, r)  == request' = [request EXCEPT ![q] = r]
Answer(q)   == Open(q, Free)

\* lease_expires_at < now, for a handler whose now is `age` ticks old.
Expired(j, age) == left[j] # None /\ left[j] + age < 0

(***************************************************************************)
(* Submitting and waiting.                                                 *)
(***************************************************************************)

\* create_job, from POST /remote/jobs or from the tool, which then waits.
Create(j, waits) ==
    /\ status[j] = "absent"
    /\ \A i \in Job : i < j => status[i] # "absent"
    /\ online[Target[j]]
    /\ status' = [status EXCEPT ![j] = "queued"]
    /\ waiter' = [waiter EXCEPT ![j] = IF waits THEN "polling" ELSE "none"]
    /\ UNCHANGED <<token, left, attempts, cancel, result, online, request>>

\* wait sees an ended job.
WaitEnds(j) ==
    /\ waiter[j] = "polling"
    /\ status[j] \in Ended
    /\ waiter' = [waiter EXCEPT ![j] = "none"]
    /\ UNCHANGED row /\ UNCHANGED <<online, request>>

\* Mutant: a running job is left to its runner.
NotStarted(j) == status[j] = "queued"

Unfinished(j) == status[j] \in {"queued", "running"}

\* The deadline passed: one more SELECT decides whether the job is cancelled.
WaitTimesOut(j) ==
    /\ waiter[j] = "polling"
    /\ waiter' = [waiter EXCEPT ![j] = IF Unfinished(j)
                                       THEN "cancelling" ELSE "none"]
    /\ UNCHANGED row /\ UNCHANGED <<online, request>>

\* The cancellation is written over whatever the row says by now.
WaitCancels(j) ==
    /\ waiter[j] = "cancelling"
    /\ waiter' = [waiter EXCEPT ![j] = "none"]
    /\ status' = [status EXCEPT ![j] = "cancelled"]
    /\ cancel' = [cancel EXCEPT ![j] = TRUE]
    /\ UNCHANGED <<token, left, attempts, result, online, request>>

(***************************************************************************)
(* The runner-facing handlers.                                             *)
(***************************************************************************)

RunnerHeartbeat(n) ==
    /\ online' = [online EXCEPT ![n] = TRUE]
    /\ UNCHANGED row /\ UNCHANGED <<waiter, request>>

\* No heartbeat for ONLINE_SECONDS.
GoesOffline(n) ==
    /\ online' = [online EXCEPT ![n] = FALSE]
    /\ UNCHANGED row /\ UNCHANGED <<waiter, request>>

\* Mutant: the last attempt counts as one more to come.
OneMore(j) == attempts[j] > MaxAttempts

Poison(j) == attempts[j] >= MaxAttempts

\* claim, first statement: jobs whose last attempt lapsed are failed.
ClaimStart(q, n) ==
    LET poisoned == {j \in Job : /\ Target[j] = n /\ status[j] = "running"
                                 /\ Expired(j, 0) /\ Poison(j)}
    IN
    /\ request[q] = Free
    /\ Open(q, New("select", n, None, 0, FALSE))
    /\ status' = [j \in Job |-> IF j \in poisoned THEN "failed" ELSE status[j]]
    /\ result' = [j \in Job |-> IF j \in poisoned THEN 0 ELSE result[j]]
    /\ left' = [j \in Job |-> IF j \in poisoned THEN None ELSE left[j]]
    /\ UNCHANGED <<token, attempts, cancel, waiter, online>>

Candidate(j, n, age) ==
    /\ Target[j] = n
    /\ attempts[j] < MaxAttempts
    /\ status[j] = "queued" \/ (status[j] = "running" /\ Expired(j, age))

\* The oldest job that is queued or whose lease lapsed, if any.
ClaimSelect(q) ==
    LET r == request[q]
        candidates == {j \in Job : Candidate(j, r.runner, r.age)}
    IN
    /\ r.op = "select"
    /\ \/ candidates = {} /\ Answer(q)
       \/ \E j \in candidates :
            /\ \A i \in candidates : j <= i
            /\ Open(q, [r EXCEPT !.op = "claim", !.job = j, !.token = token[j],
                                 !.seen = status[j]])
    /\ UNCHANGED row /\ UNCHANGED <<waiter, online>>

\* Mutants of the compare-and-swap: without the token, the status or the expiry.
AnyToken(r) ==
    status[r.job] = r.seen /\ (r.seen = "running" => left[r.job] # None)
AnyStatus(r) == token[r.job] = r.token
NoRecheck(r) == status[r.job] = r.seen /\ token[r.job] = r.token

\* The row is still as it was selected, and its lease was not renewed meanwhile.
StillFree(r) ==
    /\ status[r.job] = r.seen
    /\ token[r.job] = r.token
    /\ r.seen = "running" => Expired(r.job, r.age)

\* The compare-and-swap: a new token for the job, or no job.
ClaimWrite(q) ==
    LET r == request[q] IN
    /\ r.op = "claim"
    /\ Answer(q)
    /\ IF StillFree(r)
       THEN /\ status' = [status EXCEPT ![r.job] = "running"]
            /\ token' = [token EXCEPT ![r.job] = @ + 1]
            /\ left' = [left EXCEPT ![r.job] = Lease - r.age]
            /\ attempts' = [attempts EXCEPT ![r.job] = @ + 1]
            /\ cancel' = [cancel EXCEPT ![r.job] = FALSE]
       ELSE UNCHANGED <<status, token, left, attempts, cancel>>
    /\ UNCHANGED <<result, waiter, online>>

\* Mutant: any token ever issued for the job is accepted.
OnceIssued(j, k) ==
    /\ k <= token[j] /\ status[j] = "running" /\ ~cancel[j]
    /\ left[j] # None /\ left[j] >= 0

\* The lease the client shows is the job's, and has not expired.
Holds(j, k) ==
    /\ token[j] = k /\ status[j] = "running" /\ ~cancel[j]
    /\ left[j] # None /\ left[j] >= 0

Issued(j) == 1..token[j]

HeartbeatRead(q, j, k) ==
    /\ request[q] = Free
    /\ k \in Issued(j)
    /\ Holds(j, k)
    /\ Open(q, New("renew", Target[j], j, k, FALSE))
    /\ UNCHANGED row /\ UNCHANGED <<waiter, online>>

\* The new expiry counts from the handler's own utcnow().
HeartbeatWrite(q) ==
    LET r == request[q] IN
    /\ r.op = "renew"
    /\ Answer(q)
    /\ left' = [left EXCEPT ![r.job] = Lease - r.age]
    /\ online' = [online EXCEPT ![r.runner] = TRUE]
    /\ UNCHANGED <<status, token, attempts, cancel, result, waiter>>

CompleteRead(q, j, k, ok) ==
    /\ request[q] = Free
    /\ k \in Issued(j)
    /\ Holds(j, k)
    /\ Open(q, New("store", Target[j], j, k, ok))
    /\ UNCHANGED row /\ UNCHANGED <<waiter, online>>

CompleteWrite(q) ==
    LET r == request[q] IN
    /\ r.op = "store"
    /\ Answer(q)
    /\ status' = [status EXCEPT ![r.job] = IF r.ok THEN "completed" ELSE "failed"]
    /\ result' = [result EXCEPT ![r.job] = r.token]
    /\ left' = [left EXCEPT ![r.job] = None]
    /\ online' = [online EXCEPT ![r.runner] = TRUE]
    /\ UNCHANGED <<token, attempts, cancel, waiter>>

(***************************************************************************)
(* Time and the end of the server process.                                 *)
(***************************************************************************)

\* One tick; a timer that lapsed longer ago than any handler lasts stays where it is.
Tick ==
    /\ \A q \in Thread : request[q] # Free => request[q].age < Delay
    /\ left' = [j \in Job |-> IF left[j] = None \/ left[j] < -Delay
                              THEN left[j] ELSE left[j] - 1]
    /\ request' = [q \in Thread |-> IF request[q] = Free THEN Free
                                    ELSE [request[q] EXCEPT !.age = @ + 1]]
    /\ UNCHANGED <<status, token, attempts, cancel, result, waiter, online>>

\* The database refuses a statement: the handler answers 500 and writes nothing more.
HandlerFails(q) ==
    /\ request[q] # Free
    /\ Answer(q)
    /\ UNCHANGED row /\ UNCHANGED <<waiter, online>>

\* Open handlers and waiting tools are gone; the rows stay.
ServerCrash ==
    /\ request' = [q \in Thread |-> Free]
    /\ waiter' = [j \in Job |-> "none"]
    /\ UNCHANGED row /\ UNCHANGED online

-----------------------------------------------------------------------------

Submits == \E j \in Job, waits \in BOOLEAN : Create(j, waits)
Waits(j) == WaitEnds(j) \/ WaitTimesOut(j) \/ WaitCancels(j)
Starts(q) ==
    \/ \E n \in Runner : ClaimStart(q, n)
    \/ \E j \in Job : \E k \in Issued(j) :
          HeartbeatRead(q, j, k) \/ (\E ok \in BOOLEAN : CompleteRead(q, j, k, ok))
Goes(q) == ClaimSelect(q) \/ ClaimWrite(q) \/ HeartbeatWrite(q) \/ CompleteWrite(q)
Registry == \E n \in Runner : RunnerHeartbeat(n) \/ GoesOffline(n)

Next ==
    \/ Submits \/ Registry \/ Tick \/ ServerCrash
    \/ \E j \in Job : Waits(j)
    \/ \E q \in Thread : Starts(q) \/ Goes(q) \/ HandlerFails(q)

Spec == Init /\ [][Next]_vars

(***************************************************************************)
(* Properties.                                                             *)
(***************************************************************************)

\* Every variable stays in its domain.
TypeOK ==
    /\ status \in [Job -> Status]
    /\ token \in [Job -> Nat]
    /\ left \in [Job -> Int \cup {None}]
    /\ attempts \in [Job -> Nat]
    /\ cancel \in [Job -> BOOLEAN]
    /\ result \in [Job -> Nat \cup {None}]
    /\ waiter \in [Job -> {"none", "polling", "cancelling"}]
    /\ online \in [Runner -> BOOLEAN]
    /\ request \in [Thread -> Request]

\* Every claim leaves its mark in token and attempts alike, so that the token a claim
\* compares also vouches for the attempts it selected by; a running row has an expiry,
\* else nothing could ever reclaim it; a row not claimed yet has no lease.
RowInv ==
    \A j \in Job :
        /\ attempts[j] = token[j]
        /\ attempts[j] <= MaxAttempts
        /\ status[j] = "running" => left[j] # None /\ ~cancel[j]
        /\ status[j] \in {"absent", "queued"} => token[j] = 0

\* What a handler read still holds in part when it writes.
RequestInv ==
    \A q \in Thread :
        LET r == request[q] IN
        /\ r.age <= Delay
        /\ r.op # "free" => r.runner \in Runner
        /\ r.op \in {"claim", "renew", "store"} =>
              /\ r.job \in Job
              /\ r.token <= token[r.job]
        /\ r.op = "claim" => r.token < MaxAttempts /\ r.seen \in {"queued", "running"}
        /\ r.op \in {"renew", "store"} => status[r.job] \notin {"absent", "queued"}

\* A waiting tool's job exists.
WaiterInv == \A j \in Job : waiter[j] # "none" => status[j] # "absent"

IInv == TypeOK /\ RowInv /\ RequestInv /\ WaiterInv

\* A claim never takes a running job whose lease still stands, though heartbeats renew
\* it between the claim's SELECT and its UPDATE (platform.py 317-321).
LeaseNotStolen ==
    [][\A j \in Job : token'[j] # token[j] /\ status[j] = "running" => left[j] < 0]_vars

\* Claims, completions and cancellations of all threads together keep the broker's
\* promise: at most MaxAttempts offers, and none after the job ended.
Promised == INSTANCE JobPromise
    WITH phase <- [j \in Job |-> IF status[j] \in Ended THEN "ended" ELSE status[j]],
         offers <- attempts
KeepsPromise == Promised!PromiseSpec

\* Readme.md: an old lease cannot overwrite the result of a new execution; the stored
\* output is the server's own or belongs to the last lease granted (platform.py complete).
ResultFromCurrentLease ==
    \A j \in Job : result[j] \in {None, 0, token[j]}

\* A heartbeat or a result that is written in the tick in which its lease was checked
\* goes to that lease: within a tick no other claim, in any thread, can have replaced it
\* (platform.py heartbeat_remote_job and complete).
FencedWithinTick ==
    [][\A q \in Thread :
          (HeartbeatWrite(q) \/ CompleteWrite(q)) /\ request[q].age = 0
              => token[request[q].job] = request[q].token]_vars

=============================================================================
