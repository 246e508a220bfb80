---------------------------- MODULE RemoteRunner ----------------------------
(***************************************************************************)
(* The reference runner (scripts/remote_runner.py) against the broker of   *)
(* RemoteJobs: one process that registers, claims, runs a command under    *)
(* its lease, reports, and on any HTTP error starts its loop again.  Its   *)
(* requests may outlive its patience; the server goes on with them.        *)
(* The runner id lives in the process only.                                *)
(***************************************************************************)
EXTENDS RemoteJobs

CONSTANTS
    MaxCrashes, \* bound on the times the runner process loses its id
    MaxFaults   \* bound on handlers and servers that fail

ASSUME RunnerAssumption ==
    MaxCrashes \in Nat /\ MaxFaults \in Nat /\ None \notin Job \cup Runner \cup Thread

VARIABLES
    pc,       \* where the runner is in its loop
    me,       \* its runner_id
    lease,    \* the job and lease_token of the claimed job
    exited,   \* whether the command exited with 0
    via,      \* the server thread it awaits an answer from
    given,    \* runner ids the server handed out
    crashes, faults

client == <<pc, me, lease, exited, via, given, crashes, faults>>
all    == <<vars, client>>

NoLease == [job |-> None, token |-> 0]

RunnerInit ==
    /\ Init
    /\ pc = "register"
    /\ me = None
    /\ lease = NoLease
    /\ exited = FALSE
    /\ via = None
    /\ given = {}
    /\ crashes = 0
    /\ faults = 0

Goto(label, q) == pc' = label /\ via' = q
\* Mutant: an answer that comes too late is still taken.
StillWaits == pc' = "register" /\ UNCHANGED via
Retry == Goto("register", None)

\* The loop begins with a runner heartbeat; without an id the server makes a new one.
Register ==
    /\ pc = "register"
    /\ \E n \in IF me = None THEN Runner \ given ELSE {me} :
          /\ me' = n
          /\ given' = given \cup {n}
          /\ RunnerHeartbeat(n)
    /\ Goto("poll", None)
    /\ UNCHANGED <<lease, exited, crashes, faults>>

\* The server registered a new id, but its answer is lost.
RegisterLost ==
    /\ pc = "register" /\ me = None
    /\ crashes < MaxCrashes
    /\ crashes' = crashes + 1
    /\ \E n \in Runner \ given : RunnerHeartbeat(n) /\ given' = given \cup {n}
    /\ UNCHANGED <<pc, me, lease, exited, via, faults>>

Claim(q) ==
    /\ pc = "poll"
    /\ ClaimStart(q, me)
    /\ Goto("claiming", q)
    /\ UNCHANGED <<me, lease, exited, given, crashes, faults>>

\* The answer without a job: sleep and start again.
NoJob(q) ==
    \/ ClaimSelect(q) /\ request'[q] = Free
    \/ ClaimWrite(q) /\ ~StillFree(request[q])

ClaimGoes(q) ==
    \/ /\ ClaimSelect(q) /\ request'[q] # Free
       /\ UNCHANGED client
    \/ /\ NoJob(q)
       /\ IF via = q THEN Retry ELSE UNCHANGED <<pc, via>>
       /\ UNCHANGED <<me, lease, exited, given, crashes, faults>>
    \/ /\ ClaimWrite(q) /\ StillFree(request[q])
       /\ IF via = q
          THEN /\ lease' = [job |-> request[q].job, token |-> token'[request[q].job]]
               /\ Goto("run", None)
          ELSE UNCHANGED <<lease, pc, via>>
       /\ UNCHANGED <<me, exited, given, crashes, faults>>

\* The command ends by itself or at its deadline.
CommandExits ==
    /\ pc = "run"
    /\ exited' \in BOOLEAN
    /\ Goto("report", None)
    /\ UNCHANGED vars
    /\ UNCHANGED <<me, lease, given, crashes, faults>>

\* The lease heartbeat is refused when the token is no longer the job's (404) or the
\* lease expired (409), which ends the attempt; an ended job answers "cancel".
LeaseRefused ==
    LET j == lease.job IN
    token[j] # lease.token \/ (status[j] = "running" /\ ~cancel[j] /\ Expired(j, 0))

Renew(q) ==
    /\ pc = "run"
    /\ request[q] = Free
    /\ \/ /\ HeartbeatRead(q, lease.job, lease.token)
          /\ Goto("renewing", q)
          /\ UNCHANGED <<lease, exited>>
       \/ /\ ~Holds(lease.job, lease.token)
          /\ IF LeaseRefused
             THEN Retry /\ lease' = NoLease /\ UNCHANGED exited
             ELSE Goto("report", None) /\ exited' = FALSE /\ UNCHANGED lease
          /\ UNCHANGED vars
    /\ UNCHANGED <<me, given, crashes, faults>>

RenewGoes(q) ==
    /\ HeartbeatWrite(q)
    /\ IF via = q THEN Goto("run", None) ELSE UNCHANGED <<pc, via>>
    /\ UNCHANGED <<me, lease, exited, given, crashes, faults>>

Report(q) ==
    /\ pc = "report"
    /\ request[q] = Free
    /\ \/ CompleteRead(q, lease.job, lease.token, exited) /\ Goto("storing", q)
       \/ ~Holds(lease.job, lease.token) /\ Retry /\ UNCHANGED vars
    /\ lease' = NoLease
    /\ UNCHANGED <<me, exited, given, crashes, faults>>

ReportGoes(q) ==
    /\ CompleteWrite(q)
    /\ IF via = q THEN Retry ELSE UNCHANGED <<pc, via>>
    /\ UNCHANGED <<me, lease, exited, given, crashes, faults>>

\* The client's timeout, or a connection that breaks: the handler is not stopped.
GivesUp ==
    /\ via # None
    /\ Retry
    /\ lease' = NoLease
    /\ UNCHANGED vars
    /\ UNCHANGED <<me, exited, given, crashes, faults>>

\* The process dies and is started again, without its id.
RunnerCrashes ==
    /\ crashes < MaxCrashes
    /\ crashes' = crashes + 1
    /\ me' = None
    /\ lease' = NoLease
    /\ Retry
    /\ UNCHANGED vars
    /\ UNCHANGED <<exited, given, faults>>

ServerFails ==
    /\ faults < MaxFaults
    /\ faults' = faults + 1
    /\ \/ \E q \in Thread : /\ HandlerFails(q)
                            /\ IF via = q THEN Retry /\ lease' = NoLease
                               ELSE UNCHANGED <<pc, via, lease>>
       \/ /\ ServerCrash
          /\ IF via # None THEN Retry /\ lease' = NoLease ELSE UNCHANGED <<pc, via, lease>>
    /\ UNCHANGED <<me, exited, given, crashes>>

-----------------------------------------------------------------------------

Handler(q) == ClaimGoes(q) \/ RenewGoes(q) \/ ReportGoes(q)
Loop == Register \/ \E q \in Thread : Claim(q) \/ Report(q)

RunnerNext ==
    \/ Loop \/ CommandExits \/ GivesUp \/ RegisterLost \/ RunnerCrashes \/ ServerFails
    \/ \E q \in Thread : Handler(q) \/ Renew(q)
    \/ (Submits \/ Tick) /\ UNCHANGED client
    \/ \E j \in Job : Waits(j) /\ UNCHANGED client
    \/ \E n \in Runner : GoesOffline(n) /\ UNCHANGED client

\* The runner keeps looping, commands have a deadline, handlers end, time passes, and
\* the waiting tool polls until its own deadline.
RunnerFairness ==
    /\ SF_all(Loop) /\ SF_all(CommandExits)
    /\ \A q \in Thread : WF_all(Handler(q))
    /\ \A j \in Job : WF_all(Waits(j) /\ UNCHANGED client)
    /\ SF_all(Tick /\ UNCHANGED client)

RunnerSpec == RunnerInit /\ [][RunnerNext]_all /\ RunnerFairness

(***************************************************************************)
(* Properties.                                                             *)
(***************************************************************************)

\* What the runner awaits an answer to is open in a server thread, with what it sent.
Awaited(r) ==
    CASE pc = "claiming" -> r.op \in {"select", "claim"} /\ r.runner = me
      [] pc = "renewing" -> r.op = "renew" /\ r.job = lease.job /\ r.token = lease.token
      [] pc = "storing" -> r.op = "store"
      [] OTHER -> FALSE

\* Whatever answers are lost, late or belong to a request the runner has given up, it
\* works only on a job submitted to the id it has now, under a token the broker gave out,
\* and never waits for an answer that no handler will give (remote_runner.py).
RunnerInStep ==
    /\ pc \in {"run", "renewing", "report"} =>
          lease.job \in Job /\ Target[lease.job] = me /\ lease.token \in Issued(lease.job)
    /\ IF via = None THEN pc \in {"register", "poll", "run", "report"}
       ELSE via \in Thread /\ Awaited(request[via])

\* The inductive strengthening: the runner's locals, an id before any request of its own,
\* no lease but while its job runs, and claims of a runner's own jobs.
RunnerInv ==
    /\ RunnerInStep
    /\ pc \in {"register", "poll", "claiming", "run", "renewing", "report", "storing"}
    /\ me \in Runner \cup {None} /\ exited \in BOOLEAN
    /\ pc # "register" => me \in Runner
    /\ pc \in {"register", "poll", "claiming", "storing"} => lease = NoLease
    /\ \A q \in Thread : request[q].op = "claim" => Target[request[q].job] = request[q].runner

\* Unless the runner lost the id it was submitted to, a job ends, whatever answers get
\* lost, however often a lease lapses and whether or not anybody waits for it.
JobEnds == \A j \in Job : status[j] = "queued" ~> status[j] \in Ended \/ crashes > 0

\* The tool that waits for a job returns, and unless the server failed under it leaves the
\* job ended even if no runner will ever ask for it again (service.py wait).
WaitedJobEnds ==
    \A j \in Job :
        waiter[j] # "none" ~> waiter[j] = "none" /\ (status[j] \in Ended \/ faults > 0)

=============================================================================
