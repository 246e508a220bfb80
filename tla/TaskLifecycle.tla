--------------------------- MODULE TaskLifecycle ---------------------------
(***************************************************************************)
(* The durable task of CommChatBot: one agent_tasks row driven by an API   *)
(* process (create, cancel, resume, approval decisions) and by worker      *)
(* processes (claim, agent loop, approval waits, finish), with the Redis   *)
(* wake-up list, the database fallback, crashes and start-up recovery.     *)
(*                                                                         *)
(* A process is one asyncio event loop: code between two awaits cannot be  *)
(* interleaved with other coroutines of the SAME process, but every        *)
(* SELECT-then-UPDATE of the ORM can be interleaved with OTHER processes.  *)
(* `txn[p]` is such an open section: while it is open no other coroutine   *)
(* of p runs, and what it read may be stale when it commits.  With         *)
(* Host[s] = Api for every slot the module is the embedded deployment      *)
(* (agent_worker_mode = "embedded"); otherwise workers are processes of    *)
(* their own (`python -m app.worker`).                                     *)
(***************************************************************************)
EXTENDS Naturals

CONSTANTS
    Task,       \* task ids, numbered in creation order
    Proc,       \* processes
    Api,        \* the process that serves HTTP
    Slot,       \* execution slots: worker jobs, agent_worker_concurrency per worker
    Host,       \* Host[s]: the worker process slot s belongs to
    Approval,   \* ids of approval requests (bounds how many are ever asked)
    None,       \* "no value"
    MaxTurns,   \* the runtime's turn limit
    MaxCalls,   \* tool calls in one model response
    MaxResumes, \* bound: a task is resumed only while its epoch is below this
    MaxCrashes, \* bound on process crashes
    MaxFaults   \* bound on jobs that die outside the executor's try block

ASSUME ConstantsAssumption ==
    /\ Task \subseteq Nat
    /\ Api \in Proc
    /\ Host \in [Slot -> Proc]
    /\ None \notin Task \cup Proc \cup Slot \cup Approval
    /\ MaxTurns \in Nat \ {0}
    /\ MaxCalls \in Nat \ {0}
    /\ MaxResumes \in Nat
    /\ MaxCrashes \in Nat
    /\ MaxFaults \in Nat

Worker == {Host[s] : s \in Slot}

VARIABLES
    status,     \* agent_tasks.status
    checkpoint, \* agent_tasks.checkpoint_json, reduced to its phase
    approval,   \* approval_requests.status
    owner,      \* approval_requests.task_id
    answers,    \* final assistant messages persisted per task
    wake,       \* entries of each task in the Redis list (its order abstracted)
    up,         \* the process is running
    redis,      \* the process still uses its Redis client (_redis is not False)
    live,       \* RuntimeTaskManager._tasks of each process
    future,     \* RuntimeTaskManager._approvals of each process
    held,       \* id returned by DurableTaskQueue.next, not yet claimed
    txn,        \* the open read-then-write section of each process
    exec,       \* the execute_queued_task coroutine in each slot
    epoch,      \* history: times the row was put back to "queued"
    stranded,   \* history: tasks whose job died without calling finish
    crashes, faults

rows  == <<status, checkpoint, approval, owner, answers>>
procs == <<up, redis, live, future, held, txn, exec>>
hist  == <<epoch, stranded, crashes, faults>>
vars  == <<status, checkpoint, approval, owner, answers, wake, up, redis, live,
           future, held, txn, exec, epoch, stranded, crashes, faults>>

Terminal   == {"completed", "failed", "cancelled"}
Status     == {"absent", "queued", "running", "waiting-approval"} \cup Terminal
Phase      == {"none", "open", "completed"}
Verdict    == {"approved", "rejected", "expired"}
\* "fresh": never checked; "clear" / "hit": what the last database check saw;
\* "signalled": cancel_event is set.
LiveState  == {"none", "fresh", "clear", "hit", "signalled"}
FutureState == {"none", "open", "yes", "no"}
PC == {"idle", "start", "turn", "llm", "retry", "prepare", "hooks", "asking", "waiting",
       "granted", "refused", "tools", "answer", "ended", "finish"}

Exec == [task : Task \cup {None}, epoch : Nat, pc : PC, turn : Nat, calls : Nat,
         ask : Approval \cup {None}, armed : SUBSET Approval,
         result : Terminal, doomed : BOOLEAN]
Idle == [task |-> None, epoch |-> 0, pc |-> "idle", turn |-> 0, calls |-> 0,
         ask |-> None, armed |-> {}, result |-> "failed", doomed |-> FALSE]

Txn == [op : {"none", "cancel", "resume", "enqueue", "ask", "resolve", "finish"},
        task : Task \cup {None}, seen : Status, slot : Slot \cup {None},
        ask : Approval \cup {None}, verdict : Verdict]
NoTxn == [op |-> "none", task |-> None, seen |-> "absent", slot |-> None,
          ask |-> None, verdict |-> "expired"]

Active(s)   == exec[s].pc # "idle"
RunsOf(t)   == {s \in Slot : Active(s) /\ exec[s].task = t}
SlotsOf(p)  == {s \in Slot : Host[s] = p}
Free(p)     == up[p] /\ txn[p] = NoTxn
At(s, pc)   == Free(Host[s]) /\ exec[s].pc = pc

\* A unit-of-work commit writes an attribute only if it differs from the value loaded.
Commit(seen, new, current) == IF seen = new THEN current ELSE new

Init ==
    /\ status = [t \in Task |-> "absent"]
    /\ checkpoint = [t \in Task |-> "none"]
    /\ approval = [a \in Approval |-> "none"]
    /\ owner = [a \in Approval |-> None]
    /\ answers = [t \in Task |-> 0]
    /\ wake = [t \in Task |-> 0]
    /\ up = [p \in Proc |-> TRUE]
    /\ redis = [p \in Proc |-> TRUE]
    /\ live = [p \in Proc |-> [t \in Task |-> "none"]]
    /\ future = [p \in Proc |-> [a \in Approval |-> "none"]]
    /\ held = [p \in Proc |-> None]
    /\ txn = [p \in Proc |-> NoTxn]
    /\ exec = [s \in Slot |-> Idle]
    /\ epoch = [t \in Task |-> 0]
    /\ stranded = {}
    /\ crashes = 0
    /\ faults = 0

(***************************************************************************)
(* HTTP handlers, in the API process.                                      *)
(***************************************************************************)

\* POST /api/chat/stream: the row is committed as "queued" before the rpush.
Create(t) ==
    /\ Free(Api)
    /\ status[t] = "absent"
    /\ \A u \in Task : u < t => status[u] # "absent"
    /\ status' = [status EXCEPT ![t] = "queued"]
    /\ live' = [live EXCEPT ![Api][t] = "fresh"]
    /\ txn' = [txn EXCEPT ![Api] = [NoTxn EXCEPT !.op = "enqueue", !.task = t]]
    /\ UNCHANGED <<checkpoint, approval, owner, answers, wake, up, redis,
                   future, held, exec>>
    /\ UNCHANGED hist

\* DurableTaskQueue.enqueue: without a Redis client only the row is left.
Enqueue ==
    /\ up[Api]
    /\ txn[Api].op = "enqueue"
    /\ wake' = IF redis[Api] THEN [wake EXCEPT ![txn[Api].task] = @ + 1] ELSE wake
    /\ txn' = [txn EXCEPT ![Api] = NoTxn]
    /\ UNCHANGED <<up, redis, live, future, held, exec>>
    /\ UNCHANGED rows
    /\ UNCHANGED hist

\* Mutants: cancel that only writes the row; cancel of a finished task.
RowOnly(l) == l
AnyRow(t) == status[t] # "absent"

Signal(l) == IF l = "none" THEN l ELSE "signalled"
Cancellable(t) == status[t] \notin Terminal

\* cancel sets the local event first, then reads the row; a terminal row ends it.
CancelRead(t) ==
    /\ Free(Api)
    /\ status[t] # "absent"
    /\ live' = [live EXCEPT ![Api][t] = Signal(@)]
    /\ txn' = IF ~Cancellable(t) THEN txn
              ELSE [txn EXCEPT ![Api] = [NoTxn EXCEPT !.op = "cancel", !.task = t,
                                                      !.seen = status[t]]]
    /\ UNCHANGED <<wake, up, redis, future, held, exec>>
    /\ UNCHANGED rows
    /\ UNCHANGED hist

\* The acknowledged cancel dooms every execution of the task (history field) and
\* answers "no" to the approvals pending in this process.
CancelWrite ==
    /\ up[Api]
    /\ txn[Api].op = "cancel"
    /\ LET t == txn[Api].task IN
        /\ status' = [status EXCEPT ![t] = Commit(txn[Api].seen, "cancelled", @)]
        /\ future' = [future EXCEPT ![Api] = [a \in Approval |->
                        IF owner[a] = t /\ @[a] = "open" THEN "no" ELSE @[a]]]
        /\ exec' = [s \in Slot |-> IF s \in RunsOf(t)
                                   THEN [exec[s] EXCEPT !.doomed = TRUE] ELSE exec[s]]
    /\ txn' = [txn EXCEPT ![Api] = NoTxn]
    /\ UNCHANGED <<checkpoint, approval, owner, answers, wake, up, redis, live, held>>
    /\ UNCHANGED hist

ResumeRead(t) ==
    /\ Free(Api)
    /\ epoch[t] < MaxResumes
    /\ status[t] \in {"failed", "cancelled"}
    /\ checkpoint[t] # "none"
    /\ txn' = [txn EXCEPT ![Api] = [NoTxn EXCEPT !.op = "resume", !.task = t,
                                                 !.seen = status[t]]]
    /\ UNCHANGED <<wake, up, redis, live, future, held, exec>>
    /\ UNCHANGED rows
    /\ UNCHANGED hist

\* resume replaces the process-local LiveTask, then the handler enqueues.
ResumeWrite ==
    /\ up[Api]
    /\ txn[Api].op = "resume"
    /\ LET t == txn[Api].task IN
        /\ status' = [status EXCEPT ![t] = Commit(txn[Api].seen, "queued", @)]
        /\ live' = [live EXCEPT ![Api][t] = "fresh"]
        /\ epoch' = [epoch EXCEPT ![t] = @ + 1]
        /\ stranded' = stranded \ {t}
        /\ txn' = [txn EXCEPT ![Api] = [NoTxn EXCEPT !.op = "enqueue", !.task = t]]
    /\ UNCHANGED <<checkpoint, approval, owner, answers, wake, up, redis,
                   future, held, exec, crashes, faults>>

Pending(a) == approval[a] = "pending"

\* resolve_approval: approved or rejected by the user through the API (slot None),
\* rejected by a hook or expired by the waiting execution (slot s).
ResolveRead(p, a, verdict, s) ==
    /\ Pending(a)
    /\ txn' = [txn EXCEPT ![p] = [op |-> "resolve", task |-> owner[a],
                                  seen |-> status[owner[a]], slot |-> s,
                                  ask |-> a, verdict |-> verdict]]

UserDecides(a, verdict) ==
    /\ Free(Api)
    /\ ResolveRead(Api, a, verdict, None)
    /\ UNCHANGED <<wake, up, redis, live, future, held, exec>>
    /\ UNCHANGED rows
    /\ UNCHANGED hist

ResolveWrite(p) ==
    /\ up[p]
    /\ txn[p].op = "resolve"
    /\ LET x == txn[p] IN
        /\ approval' = [approval EXCEPT ![x.ask] = x.verdict]
        /\ status' = IF x.seen = "waiting-approval"
                     THEN [status EXCEPT ![x.task] = "running"] ELSE status
        /\ future' = [future EXCEPT ![p][x.ask] =
                        CASE x.verdict = "expired" -> "none"
                          [] x.verdict # "expired" /\ @ = "open" ->
                                IF x.verdict = "approved" THEN "yes" ELSE "no"
                          [] OTHER -> @]
        /\ exec' = IF x.slot = None THEN exec
                   ELSE [exec EXCEPT ![x.slot].pc = "refused"]
    /\ txn' = [txn EXCEPT ![p] = NoTxn]
    /\ UNCHANGED <<checkpoint, owner, answers, wake, up, redis, live, held>>
    /\ UNCHANGED hist

(***************************************************************************)
(* The worker loop: DurableTaskQueue.next in a thread, then the claim.     *)
(***************************************************************************)

HasIdleSlot(p) == \E s \in SlotsOf(p) : ~Active(s)

PopWake(p, t) ==
    /\ up[p] /\ redis[p] /\ held[p] = None /\ HasIdleSlot(p)
    /\ wake[t] > 0
    /\ wake' = [wake EXCEPT ![t] = @ - 1]
    /\ held' = [held EXCEPT ![p] = t]
    /\ UNCHANGED <<up, redis, live, future, txn, exec>>
    /\ UNCHANGED rows
    /\ UNCHANGED hist

\* Mutant: next returns nothing once its client is gone.
AfterTimeoutOnly(p) == redis[p] /\ \A u \in Task : wake[u] = 0

FallsBack(p) == redis[p] => \A u \in Task : wake[u] = 0

\* blpop timed out or there is no client: the oldest queued row.
PollRow(p, t) ==
    /\ up[p] /\ held[p] = None /\ HasIdleSlot(p)
    /\ FallsBack(p)
    /\ status[t] = "queued"
    /\ \A u \in Task : status[u] = "queued" => t <= u
    /\ held' = [held EXCEPT ![p] = t]
    /\ UNCHANGED <<wake, up, redis, live, future, txn, exec>>
    /\ UNCHANGED rows
    /\ UNCHANGED hist

\* A failing rpush, blpop or ping drops the client for the life of the process.
RedisFails(p) ==
    /\ up[p] /\ redis[p]
    /\ redis' = [redis EXCEPT ![p] = FALSE]
    /\ UNCHANGED <<wake, up, live, future, held, txn, exec>>
    /\ UNCHANGED rows
    /\ UNCHANGED hist

\* Mutant: the claim only looks whether the task has ended.
NotEnded(t) == status[t] \notin Terminal

Claimable(t) == status[t] = "queued"

\* activate: UPDATE ... WHERE status = 'queued'; the job starts only if a row changed.
Activate(p, s) ==
    /\ Free(p)
    /\ held[p] # None
    /\ Host[s] = p /\ ~Active(s)
    /\ held' = [held EXCEPT ![p] = None]
    /\ LET t == held[p] IN
        IF Claimable(t)
        THEN /\ status' = [status EXCEPT ![t] = "running"]
             /\ live' = [live EXCEPT ![p][t] = "fresh"]
             /\ exec' = [exec EXCEPT ![s] = [Idle EXCEPT !.task = t, !.pc = "start",
                                                         !.epoch = epoch[t]]]
        ELSE UNCHANGED <<status, live, exec>>
    /\ UNCHANGED <<checkpoint, approval, owner, answers, wake, up, redis,
                   future, txn>>
    /\ UNCHANGED hist

(***************************************************************************)
(* The execution in slot s.                                                *)
(***************************************************************************)

T(s) == exec[s].task
L(s) == live[Host[s]][T(s)]

\* RuntimeTaskManager.cancelled: the event, else the answer cached for 0.25 s,
\* else the row.  Without a LiveTask nothing is cached.
FreshCheck(s) ==
    [hit  |-> status[T(s)] = "cancelled",
     live |-> IF L(s) = "none" THEN "none"
              ELSE IF status[T(s)] = "cancelled" THEN "hit" ELSE "clear"]
Checks(s) ==
    IF L(s) = "signalled" THEN {[hit |-> TRUE, live |-> "signalled"]}
    ELSE {FreshCheck(s)} \cup
         (IF L(s) \in {"clear", "hit"}
          THEN {[hit |-> L(s) = "hit", live |-> L(s)]} ELSE {})

\* ensure_not_cancelled with the given outcome.
Check(s, hit) ==
    \E o \in Checks(s) :
        /\ o.hit = hit
        /\ live' = [live EXCEPT ![Host[s]][T(s)] = o.live]

Become(s, e) == exec' = [exec EXCEPT ![s] = e]
ToFinish(s, result) ==
    Become(s, [exec[s] EXCEPT !.pc = "finish", !.result = result, !.ask = None,
                              !.armed = {}])

\* The runtime writes its first checkpoint or restores one, whose next turn is
\* abstracted; a completed checkpoint resumed without a new prompt replays its answer.
Start(s) ==
    /\ At(s, "start")
    /\ \/ /\ checkpoint' = [checkpoint EXCEPT ![T(s)] = "open"]
          /\ \E n \in IF checkpoint[T(s)] = "none" THEN {0} ELSE 0..MaxTurns :
                Become(s, [exec[s] EXCEPT !.pc = "turn", !.turn = n])
       \/ /\ checkpoint[T(s)] = "completed"
          /\ Become(s, [exec[s] EXCEPT !.pc = "answer"])
          /\ UNCHANGED checkpoint
    /\ UNCHANGED <<status, approval, owner, answers, wake, up, redis, live,
                   future, held, txn>>
    /\ UNCHANGED hist

\* Top of the loop: the cancellation check, then the before_llm checkpoint.
TurnStart(s) ==
    /\ At(s, "turn")
    /\ exec[s].turn < MaxTurns
    /\ Check(s, FALSE)
    /\ checkpoint' = [checkpoint EXCEPT ![T(s)] = "open"]
    /\ Become(s, [exec[s] EXCEPT !.pc = "llm"])
    /\ UNCHANGED <<status, approval, owner, answers, wake, up, redis, future,
                   held, txn>>
    /\ UNCHANGED hist

TurnsExhausted(s) ==
    /\ At(s, "turn")
    /\ exec[s].turn = MaxTurns
    /\ Become(s, [exec[s] EXCEPT !.pc = "ended"])
    /\ UNCHANGED <<wake, up, redis, live, future, held, txn>>
    /\ UNCHANGED rows
    /\ UNCHANGED hist

\* The response was empty: the retry is one more call, without a check after it.
LlmRetries(s) ==
    /\ At(s, "llm")
    /\ Check(s, FALSE)
    /\ Become(s, [exec[s] EXCEPT !.pc = "retry"])
    /\ UNCHANGED <<wake, up, redis, future, held, txn>>
    /\ UNCHANGED rows
    /\ UNCHANGED hist

\* The last stream event passes its check and carries the response.
Responds(s) == \/ At(s, "llm") /\ Check(s, FALSE)
               \/ At(s, "retry") /\ UNCHANGED live

LlmAnswers(s) ==
    /\ Responds(s)
    /\ checkpoint' = [checkpoint EXCEPT ![T(s)] = "completed"]
    /\ Become(s, [exec[s] EXCEPT !.pc = "answer"])
    /\ UNCHANGED <<status, approval, owner, answers, wake, up, redis, future,
                   held, txn>>
    /\ UNCHANGED hist

LlmCallsTools(s) ==
    /\ Responds(s)
    /\ checkpoint' = [checkpoint EXCEPT ![T(s)] = "open"]
    /\ \E n \in 1..MaxCalls : Become(s, [exec[s] EXCEPT !.pc = "prepare", !.calls = n])
    /\ UNCHANGED <<status, approval, owner, answers, wake, up, redis, future,
                   held, txn>>
    /\ UNCHANGED hist

PrepareCall(s) ==
    /\ At(s, "prepare")
    /\ Check(s, FALSE)
    /\ Become(s, [exec[s] EXCEPT !.pc = "hooks"])
    /\ UNCHANGED <<wake, up, redis, future, held, txn>>
    /\ UNCHANGED rows
    /\ UNCHANGED hist

\* Mutant: the batch runs one call late.
OneCallLate(s, armed) ==
    Become(s, [exec[s] EXCEPT !.pc = IF exec[s].calls = 0
                                     THEN "tools" ELSE "prepare",
                              !.calls = exec[s].calls - 1,
                              !.ask = None, !.armed = armed])

\* One call is prepared; after the last one the batch is executed.
NextCall(s, armed) ==
    Become(s, [exec[s] EXCEPT !.pc = IF exec[s].calls = 1
                                     THEN "tools" ELSE "prepare",
                              !.calls = exec[s].calls - 1,
                              !.ask = None, !.armed = armed])

\* PreToolUse hooks done: the call is blocked, denied, unknown or needs no approval.
CallDecided(s) ==
    /\ At(s, "hooks")
    /\ NextCall(s, exec[s].armed)
    /\ UNCHANGED <<wake, up, redis, live, future, held, txn>>
    /\ UNCHANGED rows
    /\ UNCHANGED hist

AskRead(s) ==
    /\ At(s, "hooks")
    /\ \E a \in Approval : approval[a] = "none"
    /\ txn' = [txn EXCEPT ![Host[s]] = [NoTxn EXCEPT !.op = "ask", !.task = T(s),
                                         !.seen = status[T(s)], !.slot = s]]
    /\ UNCHANGED <<wake, up, redis, live, future, held, exec>>
    /\ UNCHANGED rows
    /\ UNCHANGED hist

\* create_approval: the pending row, the future and the task's new status.
AskWrite(p, a) ==
    /\ up[p]
    /\ txn[p].op = "ask"
    /\ approval[a] = "none"
    /\ LET x == txn[p] IN
        /\ status' = [status EXCEPT ![x.task] = Commit(x.seen, "waiting-approval", @)]
        /\ approval' = [approval EXCEPT ![a] = "pending"]
        /\ owner' = [owner EXCEPT ![a] = x.task]
        /\ future' = [future EXCEPT ![p][a] = "open"]
        /\ exec' = [exec EXCEPT ![x.slot].pc = "asking", ![x.slot].ask = a]
    /\ txn' = [txn EXCEPT ![p] = NoTxn]
    /\ UNCHANGED <<checkpoint, answers, wake, up, redis, live, held>>
    /\ UNCHANGED hist

PermissionHooksPass(s) ==
    /\ At(s, "asking")
    /\ Become(s, [exec[s] EXCEPT !.pc = "waiting"])
    /\ UNCHANGED <<wake, up, redis, live, future, held, txn>>
    /\ UNCHANGED rows
    /\ UNCHANGED hist

\* resolve_approval on a row that is no longer pending changes nothing.
ResolveOwn(s, verdict) ==
    LET a == exec[s].ask IN
    IF Pending(a)
    THEN ResolveRead(Host[s], a, verdict, s) /\ UNCHANGED exec
    ELSE Become(s, [exec[s] EXCEPT !.pc = "refused"]) /\ UNCHANGED txn

HookRejects(s) ==
    /\ At(s, "asking")
    /\ ResolveOwn(s, "rejected")
    /\ UNCHANGED <<wake, up, redis, live, future, held>>
    /\ UNCHANGED rows
    /\ UNCHANGED hist

\* The deadline wins over a decision that arrived since the last poll.
WaitTimesOut(s) ==
    /\ At(s, "waiting")
    /\ ResolveOwn(s, "expired")
    /\ future' = IF Pending(exec[s].ask) THEN future
                 ELSE [future EXCEPT ![Host[s]][exec[s].ask] = "none"]
    /\ UNCHANGED <<wake, up, redis, live, held>>
    /\ UNCHANGED rows
    /\ UNCHANGED hist

\* Mutant: a request that was not rejected counts as approved.
NotRejected(f, a) == IF f \in {"yes", "no"} THEN f = "yes" ELSE approval[a] # "rejected"

\* The local future is asked first, then the row.
Approved(f, a) == IF f \in {"yes", "no"} THEN f = "yes" ELSE approval[a] = "approved"

\* wait_for_approval polls until the future is set or the row is decided.
WaitEnds(s) ==
    LET a == exec[s].ask
        f == future[Host[s]][a]
    IN
    /\ At(s, "waiting")
    /\ f \in {"yes", "no"} \/ ~Pending(a)
    /\ future' = [future EXCEPT ![Host[s]][a] = "none"]
    /\ Become(s, [exec[s] EXCEPT !.pc = IF Approved(f, a) THEN "granted" ELSE "refused"])
    /\ UNCHANGED <<wake, up, redis, live, held, txn>>
    /\ UNCHANGED rows
    /\ UNCHANGED hist

\* After the decision the task must still not be cancelled.
CallAnswered(s) ==
    /\ At(s, "granted") \/ At(s, "refused")
    /\ Check(s, FALSE)
    /\ NextCall(s, IF exec[s].pc = "granted"
                   THEN exec[s].armed \cup {exec[s].ask} ELSE exec[s].armed)
    /\ UNCHANGED <<wake, up, redis, future, held, txn>>
    /\ UNCHANGED rows
    /\ UNCHANGED hist

\* Mutant: a turn with tool calls is not counted.
SameTurn(n) == n

NextTurn(n) == n + 1

\* Every prepared call of the batch has run; checkpoint after_tools.
ToolsDone(s) ==
    /\ At(s, "tools")
    /\ checkpoint' = [checkpoint EXCEPT ![T(s)] = "open"]
    /\ Become(s, [exec[s] EXCEPT !.pc = "turn", !.turn = NextTurn(@), !.armed = {}])
    /\ UNCHANGED <<status, approval, owner, answers, wake, up, redis, live,
                   future, held, txn>>
    /\ UNCHANGED hist

\* TaskCancelled out of ensure_not_cancelled, or the executor's own check.
RaiseCancelled(s) ==
    /\ \E pc \in {"turn", "llm", "prepare", "granted", "refused", "ended"} : At(s, pc)
    /\ exec[s].pc = "turn" => exec[s].turn < MaxTurns
    /\ Check(s, TRUE)
    /\ ToFinish(s, "cancelled")
    /\ UNCHANGED <<wake, up, redis, future, held, txn>>
    /\ UNCHANGED rows
    /\ UNCHANGED hist

\* A provider, tool or hook handler raises inside the executor's try block, or the
\* conversation is gone.
Fail(s) ==
    /\ \E pc \in {"start", "turn", "llm", "retry", "hooks", "asking", "tools",
                  "answer", "ended"} : At(s, pc)
    /\ ToFinish(s, "failed")
    /\ UNCHANGED <<wake, up, redis, live, future, held, txn>>
    /\ UNCHANGED rows
    /\ UNCHANGED hist

\* "Model completed without generating a final answer".
EndsWithoutAnswer(s) ==
    /\ At(s, "ended")
    /\ Check(s, FALSE)
    /\ ToFinish(s, "failed")
    /\ UNCHANGED <<wake, up, redis, future, held, txn>>
    /\ UNCHANGED rows
    /\ UNCHANGED hist

\* The assistant Message row; the memory job that follows is best effort.
PersistAnswer(s) ==
    /\ At(s, "answer")
    /\ answers' = [answers EXCEPT ![T(s)] = @ + 1]
    /\ ToFinish(s, "completed")
    /\ UNCHANGED <<status, checkpoint, approval, owner, wake, up, redis, live,
                   future, held, txn>>
    /\ UNCHANGED hist

FinishRead(s) ==
    /\ At(s, "finish")
    /\ txn' = [txn EXCEPT ![Host[s]] = [NoTxn EXCEPT !.op = "finish", !.task = T(s),
                                         !.seen = status[T(s)], !.slot = s]]
    /\ UNCHANGED <<wake, up, redis, live, future, held, exec>>
    /\ UNCHANGED rows
    /\ UNCHANGED hist

\* finish does not look at the status it replaces, and drops the LiveTask.
FinishWrite(p) ==
    /\ up[p]
    /\ txn[p].op = "finish"
    /\ LET x == txn[p] IN
        /\ status' = [status EXCEPT ![x.task] = Commit(x.seen, exec[x.slot].result, @)]
        /\ live' = [live EXCEPT ![p][x.task] = "none"]
        /\ exec' = [exec EXCEPT ![x.slot] = Idle]
    /\ txn' = [txn EXCEPT ![p] = NoTxn]
    /\ UNCHANGED <<checkpoint, approval, owner, answers, wake, up, redis, future, held>>
    /\ UNCHANGED hist

\* An exception before or after the try block: the job ends, the row does not change.
JobCrashes(s) ==
    /\ At(s, "start") \/ At(s, "answer") \/ At(s, "finish")
    /\ faults < MaxFaults
    /\ faults' = faults + 1
    /\ stranded' = stranded \cup {T(s)}
    /\ Become(s, Idle)
    /\ UNCHANGED <<wake, up, redis, live, future, held, txn, epoch, crashes>>
    /\ UNCHANGED rows

(***************************************************************************)
(* Crashes and restarts.                                                   *)
(***************************************************************************)

Crash(p) ==
    /\ up[p]
    /\ crashes < MaxCrashes
    /\ crashes' = crashes + 1
    /\ up' = [up EXCEPT ![p] = FALSE]
    /\ live' = [live EXCEPT ![p] = [t \in Task |-> "none"]]
    /\ future' = [future EXCEPT ![p] = [a \in Approval |-> "none"]]
    /\ held' = [held EXCEPT ![p] = None]
    /\ txn' = [txn EXCEPT ![p] = NoTxn]
    /\ exec' = [s \in Slot |-> IF Host[s] = p THEN Idle ELSE exec[s]]
    /\ UNCHANGED <<wake, redis, epoch, stranded, faults>>
    /\ UNCHANGED rows

\* Mutant: only running rows are recovered.
Running(t) == status[t] = "running"

Unfinished(t) == status[t] \in {"running", "waiting-approval"}

\* A worker's init_db recovers every unfinished row and wake_recovered pushes the
\* queued ones; an API without a worker starts without recovery.
Restart(p) ==
    /\ ~up[p]
    /\ up' = [up EXCEPT ![p] = TRUE]
    /\ redis' = [redis EXCEPT ![p] = TRUE]
    /\ IF p \in Worker
       THEN /\ status' = [t \in Task |-> IF Unfinished(t) THEN "queued" ELSE status[t]]
            /\ approval' = [a \in Approval |->
                              IF Pending(a) THEN "expired" ELSE approval[a]]
            /\ epoch' = [t \in Task |-> IF Unfinished(t) THEN epoch[t] + 1 ELSE epoch[t]]
            /\ stranded' = {}
            /\ wake' = [t \in Task |-> IF status'[t] = "queued" THEN wake[t] + 1 ELSE wake[t]]
       ELSE UNCHANGED <<status, approval, epoch, stranded, wake>>
    /\ UNCHANGED <<checkpoint, owner, answers, live, future, held, txn, exec,
                   crashes, faults>>

\* Nothing is left to do: every worker keeps polling an empty queue.
WorkersPollEmpty ==
    /\ \A p \in Proc : Free(p) /\ held[p] = None
    /\ \A s \in Slot : ~Active(s)
    /\ \A t \in Task : status[t] \in Terminal \cup {"running"} /\ wake[t] = 0
    /\ UNCHANGED vars

-----------------------------------------------------------------------------

\* One step of the coroutine in slot s that the event loop owes it.
RunStep(s) ==
    \/ Start(s) \/ TurnStart(s) \/ TurnsExhausted(s) \/ LlmRetries(s) \/ LlmAnswers(s)
    \/ LlmCallsTools(s) \/ PrepareCall(s) \/ CallDecided(s) \/ PermissionHooksPass(s)
    \/ WaitTimesOut(s) \/ WaitEnds(s) \/ CallAnswered(s) \/ ToolsDone(s)
    \/ RaiseCancelled(s) \/ EndsWithoutAnswer(s) \/ PersistAnswer(s) \/ FinishRead(s)

\* Steps that depend on configuration, providers or failures.
RunChoice(s) == AskRead(s) \/ HookRejects(s) \/ Fail(s) \/ JobCrashes(s)

\* The second half of an open section.
Commits(p) ==
    \/ p = Api /\ (Enqueue \/ CancelWrite \/ ResumeWrite)
    \/ ResolveWrite(p)
    \/ \E a \in Approval : AskWrite(p, a)
    \/ FinishWrite(p)

User(t) == Create(t) \/ CancelRead(t) \/ ResumeRead(t)

WorkerLoop(p) ==
    \/ \E t \in Task : PopWake(p, t) \/ PollRow(p, t)
    \/ \E s \in Slot : Activate(p, s)

Next ==
    \/ \E t \in Task : User(t)
    \/ \E a \in Approval, v \in {"approved", "rejected"} : UserDecides(a, v)
    \/ \E s \in Slot : RunStep(s) \/ RunChoice(s)
    \/ \E p \in Proc : Commits(p) \/ WorkerLoop(p) \/ RedisFails(p) \/ Crash(p) \/ Restart(p)
    \/ WorkersPollEmpty

Spec == Init /\ [][Next]_vars

\* asyncio runs ready coroutines in FIFO order and provider, tool and approval waits
\* are bounded by timeouts, so a step that keeps becoming possible is taken; a
\* supervisor restarts a dead process.  Users, faults and crashes owe nothing.
Fairness ==
    /\ \A s \in Slot : SF_vars(RunStep(s))
    /\ \A p \in Proc : WF_vars(Commits(p)) /\ WF_vars(Restart(p))
    /\ \A p \in Proc : SF_vars(WorkerLoop(p))

FairSpec == Spec /\ Fairness

(***************************************************************************)
(* Properties.                                                             *)
(***************************************************************************)

\* Every variable stays in its domain.
TypeOK ==
    /\ status \in [Task -> Status]
    /\ checkpoint \in [Task -> Phase]
    /\ approval \in [Approval -> {"none", "pending"} \cup Verdict]
    /\ owner \in [Approval -> Task \cup {None}]
    /\ answers \in [Task -> Nat]
    /\ wake \in [Task -> Nat]
    /\ up \in [Proc -> BOOLEAN]
    /\ redis \in [Proc -> BOOLEAN]
    /\ live \in [Proc -> [Task -> LiveState]]
    /\ future \in [Proc -> [Approval -> FutureState]]
    /\ held \in [Proc -> Task \cup {None}]
    /\ txn \in [Proc -> Txn]
    /\ exec \in [Slot -> Exec]
    /\ epoch \in [Task -> Nat]
    /\ stranded \in SUBSET Task
    /\ crashes \in Nat
    /\ faults \in Nat

\* A tool call that needed an approval is only ever in the batch to execute while its
\* request is durably "approved": no timeout, hook, cancel, recovery or second decision,
\* in any process and order, leaves an execution acting on an approval that the
\* database does not record (task_runtime.py create/wait_for/resolve_approval).
ApprovalGate ==
    \A s \in Slot :
        /\ \A a \in exec[s].armed : approval[a] = "approved"
        /\ exec[s].pc = "granted" => approval[exec[s].ask] = "approved"

\* Redis entries, database polling and several workers may all deliver the same id;
\* still, between two re-queuings of a task (resume or recovery) at most one execution
\* of it is started (task_runtime.py activate).
OneExecutionPerEpoch ==
    \A s1, s2 \in Slot :
        Active(s1) /\ Active(s2) /\ exec[s1].task = exec[s2].task /\ s1 # s2
            => exec[s1].epoch # exec[s2].epoch

\* The inductive strengthening of the two invariants above, in named parts.

\* An execution belongs to a created task and to an epoch not after the current one;
\* a queued row has no execution of the current epoch yet.
EpochInv ==
    /\ OneExecutionPerEpoch
    /\ \A s \in Slot : Active(s) =>
          /\ exec[s].task \in Task
          /\ status[exec[s].task] # "absent"
          /\ exec[s].epoch <= epoch[exec[s].task]
          /\ status[exec[s].task] = "queued" => exec[s].epoch < epoch[exec[s].task]

\* An open section names a task; opened by an execution, that execution is still where
\* it opened it (the event loop was not released); a user decision is the API's.
SectionOK(p, x) ==
    /\ x.op # "none" => x.task \in Task
    /\ x.op \in {"ask", "finish"} => x.slot \in Slot
    /\ x.op \in {"ask", "finish", "resolve"} /\ x.slot \in Slot => Host[x.slot] = p
    /\ x.op = "ask" => exec[x.slot].pc = "hooks"
    /\ x.op = "finish" => exec[x.slot].pc = "finish"
    /\ x.op = "resolve" =>
          /\ x.ask \in Approval /\ approval[x.ask] # "none"
          /\ x.slot = None => p = Api /\ approval[x.ask] # "approved"
          /\ x.slot # None =>
                /\ exec[x.slot].pc \in {"asking", "waiting"}
                /\ exec[x.slot].ask = x.ask
                /\ x.verdict # "approved"
                /\ \A q \in Proc : future[q][x.ask] # "yes"

TxnInv == \A p \in Proc : SectionOK(p, txn[p])

\* The approval ids an execution refers to.
Ids(e) == e.armed \cup ({e.ask} \ {None})

ExecOK(e) ==
    /\ e.ask \notin e.armed
    /\ e.pc \in {"asking", "waiting", "granted"} => e.ask # None
    /\ e.pc \in {"prepare", "hooks", "asking", "waiting", "granted", "refused"} => e.calls > 0

\* A request id is used by one execution, either asked about or armed, and its future
\* lives in that execution's process only.
AskInv ==
    /\ \A s \in Slot : /\ ExecOK(exec[s])
                       /\ \A a \in Ids(exec[s]) : approval[a] # "none"
    /\ \A s1, s2 \in Slot : s1 # s2 =>
          Ids(exec[s1]) \cap Ids(exec[s2]) = {}
    /\ \A s \in Slot : \A p \in Proc :
          exec[s].ask # None /\ p # Host[s] => future[p][exec[s].ask] = "none"
    /\ \A p \in Proc : \A a \in Approval :
          /\ future[p][a] = "yes" => approval[a] = "approved"
          /\ approval[a] = "none" => future[p][a] = "none"
          /\ approval[a] # "none" => owner[a] \in Task

IInv == TypeOK /\ EpochInv /\ TxnInv /\ AskInv /\ ApprovalGate

\* A final answer is persisted at most once per queuing of the task, whatever crashes
\* and duplicate deliveries happen (task_executor.py 186-211).
AnswersPerEpoch == \A t \in Task : answers[t] <= epoch[t] + 1

\* Embedded deployment: a row that says "running" or "waiting-approval" has a coroutine
\* that will finish it, unless its process is down or the job died outside the try block.
NoOrphan ==
    \A t \in Task :
        status[t] \in {"running", "waiting-approval"} =>
            RunsOf(t) # {} \/ t \in stranded \/ \E p \in Worker : ~up[p]

\* Embedded deployment without resume: after a cancel was acknowledged the execution
\* starts no further turn, even if an approval request overwrote the cancelled status
\* (task_runtime.py cancel, cancelled and create_approval).
CancelledRunStartsNoTurn ==
    [][\A s \in Slot : exec[s].doomed /\ exec[s].pc = "turn" => exec'[s].pc # "llm"]_vars

\* Embedded deployment without resume: a completed task never changes its status.
CompletedIsFinal ==
    [][\A t \in Task : status[t] = "completed" => status'[t] = "completed"]_vars

\* A queued row is claimed (or cancelled) eventually, though Redis may lose or never
\* get its wake-up and workers may crash.
QueuedIsClaimed == \A t \in Task : status[t] = "queued" ~> status[t] # "queued"

\* Every execution ends: no approval wait or cancellation race leaves it blocked.
ExecutionEnds == \A s \in Slot : Active(s) ~> ~Active(s)

=============================================================================
