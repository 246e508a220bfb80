--------------------------- MODULE McpConnections ---------------------------
(* One pooled MCP connection: callers queue requests, a worker task owns the *)
(* session, opens it, serves one request after the other and ends when it is *)
(* idle, told to stop, or an operation fails; the next request starts another.*)
EXTENDS Naturals, Sequences

CONSTANTS
    Call,       \* the calls of tools that use this connection
    StopItem    \* the None that close puts into the queue

ASSUME StopAssumption == StopItem \notin Call

VARIABLES
    call,       \* the future of each call
    calls,      \* the asyncio queue
    session,    \* the worker task: its place in _worker and the call it serves
    closed,     \* whether the runtime has dropped this connection
    late        \* history: calls queued while the worker was already leaving

mcpVars == <<call, calls, session, closed, late>>

NoSession == [pc |-> "done", serves |-> StopItem]
Serving(r) == [pc |-> "serving", serves |-> r]
State(pc) == [pc |-> pc, serves |-> StopItem]

McpInit ==
    /\ call = [r \in Call |-> "new"] /\ calls = <<>>
    /\ session = NoSession /\ closed = FALSE /\ late = {}

(* request: under the lock, a worker that is missing or done is started, the
   request is queued and its future awaited. *)
NeedsWorker == session.pc = "done"
McpRequest(r) ==
    /\ ~closed /\ call[r] = "new"
    /\ call' = [call EXCEPT ![r] = "queued"] /\ calls' = Append(calls, r)
    /\ session' = IF NeedsWorker THEN State("opening") ELSE session
    /\ late' = IF session.pc = "leaving" THEN late \union {r} ELSE late
    /\ UNCHANGED closed

(* Every queued future that is not done gets an exception. *)
\* Mutant: the queued futures are forgotten.
Forgotten == call
Drained == [r \in Call |-> IF call[r] = "queued" /\ \E i \in DOMAIN calls : calls[i] = r
                           THEN "failed" ELSE call[r]]

(* The session opens, with a token from the cache or the token server, or the
   process, the network, the token server or the handshake fails. *)
OpenSession ==
    /\ session.pc = "opening" /\ session' = State("waiting")
    /\ UNCHANGED <<call, calls, closed, late>>
OpenFails ==
    /\ session.pc = "opening"
    /\ call' = Drained /\ calls' = <<>> /\ session' = NoSession
    /\ UNCHANGED <<closed, late>>

(* The head of the queue: a stop leaves the session, a cancelled call is passed
   over, another one is served. Only an empty queue times out. *)
TakeRequest ==
    /\ session.pc = "waiting" /\ calls # <<>>
    /\ calls' = Tail(calls)
    /\ session' = IF Head(calls) = StopItem THEN State("leaving")
                  ELSE IF call[Head(calls)] = "cancelled" THEN session
                  ELSE Serving(Head(calls))
    /\ UNCHANGED <<call, closed, late>>
IdleTimeout ==
    /\ session.pc = "waiting" /\ calls = <<>>
    /\ session' = State("leaving")
    /\ UNCHANGED <<call, calls, closed, late>>

(* The server answers. To set the result of a future that was cancelled
   meanwhile raises, which unwinds the session before the queue is drained. *)
Answer ==
    /\ session.pc = "serving"
    /\ IF call[session.serves] = "cancelled"
       THEN session' = State("broken") /\ UNCHANGED call
       ELSE /\ call' = [call EXCEPT ![session.serves] = "answered"]
            /\ session' = State("waiting")
    /\ UNCHANGED <<calls, closed, late>>

(* The operation fails: its caller and all that are queued learn of it. *)
OperationFails ==
    /\ session.pc = "serving"
    /\ IF call[session.serves] = "cancelled"
       THEN session' = State("broken") /\ UNCHANGED <<call, calls>>
       ELSE /\ call' = [Drained EXCEPT ![session.serves] = "failed"]
            /\ calls' = <<>> /\ session' = State("leaving")
    /\ UNCHANGED <<closed, late>>

(* The session is closed, which takes time, and the task is done; an error on
   the way out, or the one that broke it, fails what is queued by then. *)
LeaveSession ==
    /\ session.pc = "leaving" /\ session' = NoSession
    /\ UNCHANGED <<call, calls, closed, late>>
LeaveBroken ==
    /\ session.pc \in {"leaving", "broken"}
    /\ call' = Drained /\ calls' = <<>> /\ session' = NoSession
    /\ UNCHANGED <<closed, late>>

(* The caller gives up: its task is cancelled. *)
CancelCall(r) ==
    /\ call[r] = "queued" /\ call' = [call EXCEPT ![r] = "cancelled"]
    /\ UNCHANGED <<calls, session, closed, late>>

(* close drops the connection from the pool and stops its worker. *)
CloseConnection ==
    /\ ~closed /\ closed' = TRUE
    /\ calls' = IF session.pc = "done" THEN calls ELSE Append(calls, StopItem)
    /\ UNCHANGED <<call, session, late>>

ServerStep == OpenSession \/ OpenFails \/ Answer \/ OperationFails
WorkerStep == TakeRequest \/ IdleTimeout \/ LeaveSession \/ LeaveBroken
McpNext ==
    \/ ServerStep \/ WorkerStep \/ CloseConnection
    \/ \E r \in Call : McpRequest(r) \/ CancelCall(r)
McpFairness == WF_mcpVars(ServerStep) /\ WF_mcpVars(WorkerStep)
McpSpec == McpInit /\ [][McpNext]_mcpVars /\ McpFairness
----------------------------------------------------------------------------
McpTypeOK ==
    /\ call \in [Call -> {"new", "queued", "answered", "failed", "cancelled"}]
    /\ calls \in Seq(Call \union {StopItem})
    /\ session \in [pc: {"done", "opening", "waiting", "serving", "leaving", "broken"},
                    serves: Call \union {StopItem}]
    /\ closed \in BOOLEAN /\ late \subseteq Call

(* Every call gets an answer or an error, whatever fails around it, if it was
   not queued while the worker was closing its session: then the worker ends
   without another look at the queue, and the call waits for the next request
   (service.py:43-58). The server is assumed to answer or fail. *)
CallEnds ==
    \A r \in Call : call[r] = "queued" ~> call[r] # "queued" \/ r \in late
=============================================================================
