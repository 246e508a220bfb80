---------------------------- MODULE EventHistory ----------------------------
(***************************************************************************)
(* The events of one task: appended by the processes, stored through the   *)
(* outbox they share, published on a Redis stream, and read by the live    *)
(* stream of a client until the task has ended.                            *)
(*                                                                         *)
(* Each process has a writer thread.  An event is its key; its content     *)
(* plays no part.  A fault is an error of the database or of Redis, with   *)
(* or without the effect of the operation.                                 *)
(***************************************************************************)
EXTENDS Naturals, FiniteSets

CONSTANTS
    Event,      \* events of the task
    Proc,       \* processes that append, each with a writer thread
    Api,        \* the process that serves the client
    Worker,     \* the process that executes the task
    None,       \* "no event"
    Backends,   \* database backends to be considered
    MaxBatch,   \* runtime_event_batch_size
    MaxRead,    \* events in an answer of Redis or the database to the reader
    MaxFaults,  \* bound on errors of the database and of Redis
    MaxCrashes  \* bound on crashes

ASSUME EventAssumption ==
    /\ IsFiniteSet(Event) /\ None \notin Event
    /\ Api \in Proc /\ Worker \in Proc
    /\ Backends \subseteq {"mysql", "sqlite"}
    /\ MaxBatch \in Nat \ {0} /\ MaxRead \in Nat \ {0}
    /\ MaxFaults \in Nat /\ MaxCrashes \in Nat

VARIABLES
    backend,  \* database_backend
    stamp,    \* history: the order in which events were accepted, 0 before
    spool,    \* events of the outbox; its rowids are in the order of stamp
    id,       \* ids of runtime_events, 0 for an event without row
    nextId,   \* its auto-increment counter
    emit,     \* per process: the event appended but not published yet
    xid,      \* ids in the Redis stream, 0 for an event without entry
    bus,      \* per process: the Redis client is believed to work
    thread,   \* per process: the writer thread is running
    writer,   \* per process: where its thread is
    fin,      \* the end of the task
    due,      \* history: what the worker had appended when it finished
    reader,   \* the generator behind the client's stream
    sent,     \* how often the client got each event
    faults, crashes

store  == <<stamp, spool, id, nextId>>
redis  == <<xid, bus>>
client == <<reader, sent>>
threads == <<thread, writer>>
vars == <<backend, stamp, spool, id, nextId, emit, xid, bus, thread, writer, fin, due,
          reader, sent, faults, crashes>>

Accepted == {e \in Event : stamp[e] > 0}
Stored   == {e \in Event : id[e] > 0}

WriterPC == {"idle", "look", "commit", "delete"}
IdleWriter == [pc |-> "idle", batch |-> {}, known |-> {}]

Init ==
    /\ backend \in Backends
    /\ stamp = [e \in Event |-> 0]
    /\ spool = {}
    /\ id = [e \in Event |-> 0]
    /\ nextId = 0
    /\ emit = [p \in Proc |-> None]
    /\ xid = [e \in Event |-> 0]
    /\ bus = [p \in Proc |-> TRUE]
    /\ thread = [p \in Proc |-> FALSE]
    /\ writer = [p \in Proc |-> IdleWriter]
    /\ fin = "running"
    /\ due = {}
    /\ reader = [pc |-> "read", live |-> 0, row |-> 0]
    /\ sent = [e \in Event |-> 0]
    /\ faults = 0
    /\ crashes = 0

Fault == faults < MaxFaults /\ faults' = faults + 1

(***************************************************************************)
(* Appending and publishing.                                               *)
(***************************************************************************)

\* Mutant: a batch is numbered from its end.
FromTheEnd(S, e) == Cardinality({f \in S : stamp[f] >= stamp[e]})

\* The rows a transaction inserts, in the order of the batch.
Rank(S, e) == Cardinality({f \in S : stamp[f] <= stamp[e]})

\* Mutant: a transaction moves the counter by one.
InsertOne(S) ==
    /\ id' = [e \in Event |-> IF e \in S THEN nextId + Rank(S, e) ELSE id[e]]
    /\ nextId' = nextId + 1

Insert(S) ==
    /\ id' = [e \in Event |-> IF e \in S THEN nextId + Rank(S, e) ELSE id[e]]
    /\ nextId' = nextId + Cardinality(S)

InsertNew(e) ==
    /\ id' = [id EXCEPT ![e] = nextId + 1]
    /\ nextId' = nextId + 1

Spools(p, e) ==
    /\ spool' = spool \cup {e}
    /\ thread' = [thread EXCEPT ![p] = TRUE]

\* With MySQL every event goes through the outbox.
UsesOutbox(p, e) ==
    /\ backend # "sqlite"
    /\ Spools(p, e)
    /\ UNCHANGED <<id, nextId, faults>>

\* With SQLite the row is written at once, and only a failure is spooled.
Persists(p, e) ==
    /\ backend = "sqlite"
    /\ InsertNew(e)
    /\ UNCHANGED <<spool, thread, faults>>

\* Mutant: the event of a failure is dropped.
NotSpooled(p, e) ==
    /\ backend = "sqlite" /\ Fault
    /\ UNCHANGED <<spool, id, nextId, thread>>

PersistFails(p, e) ==
    /\ backend = "sqlite" /\ Fault
    /\ Spools(p, e)
    /\ InsertNew(e) \/ UNCHANGED <<id, nextId>>

\* append_event up to the return of the event writer.
Append(p, e) ==
    /\ emit[p] = None /\ stamp[e] = 0
    /\ p = Worker => fin = "running"
    /\ stamp' = [stamp EXCEPT ![e] = Cardinality(Accepted) + 1]
    /\ UsesOutbox(p, e) \/ Persists(p, e) \/ PersistFails(p, e)
    /\ emit' = [emit EXCEPT ![p] = e]
    /\ due' = IF p = Worker THEN due \cup {e} ELSE due
    /\ UNCHANGED <<backend, redis, writer, fin, client, crashes>>

Entries == Cardinality({e \in Event : xid[e] > 0})
AddsEntry(e) == xid' = [xid EXCEPT ![e] = Entries + 1]

\* append_event from there: errors of Redis are swallowed.
Publish(p) ==
    /\ emit[p] # None
    /\ emit' = [emit EXCEPT ![p] = None]
    /\ \/ bus[p] /\ AddsEntry(emit[p]) /\ UNCHANGED <<bus, faults>>
       \/ ~bus[p] /\ UNCHANGED <<redis, faults>>
       \/ /\ bus[p] /\ Fault
          /\ bus' = [bus EXCEPT ![p] = FALSE]
          /\ AddsEntry(emit[p]) \/ UNCHANGED xid
    /\ UNCHANGED <<backend, store, threads, fin, due, client, crashes>>

\* After five seconds the client is tried again.
Reconnect(p) ==
    /\ ~bus[p]
    /\ bus' = [bus EXCEPT ![p] = TRUE]
    /\ UNCHANGED <<backend, store, emit, xid, threads, fin, due, client, faults, crashes>>

(***************************************************************************)
(* The writer thread.                                                      *)
(***************************************************************************)

\* The rows with the lowest rowids.
First(S, n) == {e \in S : Rank(S, e) <= n}

Take(p) ==
    /\ thread[p] /\ writer[p].pc = "idle" /\ spool # {}
    /\ writer' = [writer EXCEPT ![p] = [pc |-> "look", batch |-> First(spool, MaxBatch),
                                        known |-> {}]]
    /\ UNCHANGED <<backend, store, emit, redis, thread, fin, due, client, faults, crashes>>

Look(p) ==
    /\ writer[p].pc = "look"
    /\ writer' = [writer EXCEPT ![p].pc = "commit", ![p].known = writer[p].batch \cap Stored]
    /\ UNCHANGED <<backend, store, emit, redis, thread, fin, due, client, faults, crashes>>

\* What the transaction inserts; the keys are unique.
\* Mutant: keys that are already stored are inserted again.
WholeBatch(w) == w.batch

Missing(w) == w.batch \ w.known

\* Mutant: keys need not be unique.
CommitAny(p) ==
    /\ writer[p].pc = "commit"
    /\ Insert(Missing(writer[p]))
    /\ writer' = [writer EXCEPT ![p].pc = "delete", ![p].known = {}]
    /\ UNCHANGED <<backend, stamp, spool, emit, redis, thread, fin, due, client, faults, crashes>>

Commit(p) ==
    /\ writer[p].pc = "commit"
    /\ Missing(writer[p]) \cap Stored = {}
    /\ Insert(Missing(writer[p]))
    /\ writer' = [writer EXCEPT ![p].pc = "delete", ![p].known = {}]
    /\ UNCHANGED <<backend, stamp, spool, emit, redis, thread, fin, due, client, faults, crashes>>

\* Another thread has stored one of the keys since.
Conflict(p) ==
    /\ writer[p].pc = "commit"
    /\ Missing(writer[p]) \cap Stored # {}
    /\ writer' = [writer EXCEPT ![p] = IdleWriter]
    /\ UNCHANGED <<backend, store, emit, redis, thread, fin, due, client, faults, crashes>>

\* Mutant: the batch is deleted after a failure, too.
DeletesAnyway(p) ==
    /\ writer[p].pc \in {"look", "commit"} /\ Fault
    /\ writer' = [writer EXCEPT ![p].pc = "delete", ![p].known = {}]
    /\ UNCHANGED <<backend, store, emit, redis, thread, fin, due, client, crashes>>

\* An error, before the commit or in its answer.
CommitFails(p) ==
    /\ writer[p].pc \in {"look", "commit"} /\ Fault
    /\ \/ UNCHANGED <<id, nextId>>
       \/ /\ writer[p].pc = "commit" /\ Missing(writer[p]) \cap Stored = {}
          /\ Insert(Missing(writer[p]))
    /\ writer' = [writer EXCEPT ![p] = IdleWriter]
    /\ UNCHANGED <<backend, stamp, spool, emit, redis, thread, fin, due, client, crashes>>

Delete(p) ==
    /\ writer[p].pc = "delete"
    /\ spool' = spool \ writer[p].batch
    /\ writer' = [writer EXCEPT ![p] = IdleWriter]
    /\ UNCHANGED <<backend, stamp, id, nextId, emit, redis, thread, fin, due, client, faults, crashes>>

(***************************************************************************)
(* The end of the task.                                                    *)
(***************************************************************************)

\* finish first waits for the outbox, for a while.
Flush ==
    /\ fin = "running" /\ emit[Worker] = None
    /\ fin' = "flushing"
    /\ thread' = IF spool = {} THEN thread ELSE [thread EXCEPT ![Worker] = TRUE]
    /\ UNCHANGED <<backend, store, emit, redis, writer, due, client, faults, crashes>>

\* Mutant: a flush that ran out of time counts as done.
AlwaysFlushed ==
    /\ fin = "flushing"
    /\ fin' = "flushed"
    /\ UNCHANGED <<backend, store, emit, redis, threads, due, client, faults, crashes>>

FlushEnds ==
    /\ fin = "flushing"
    /\ fin' = IF spool = {} THEN "flushed" ELSE "late"
    /\ UNCHANGED <<backend, store, emit, redis, threads, due, client, faults, crashes>>

\* The terminal status becomes visible.
Finish ==
    /\ fin \in {"flushed", "late"}
    /\ fin' = IF fin = "flushed" THEN "ended" ELSE "ended late"
    /\ UNCHANGED <<backend, store, emit, redis, threads, due, client, faults, crashes>>

Ended == fin \in {"ended", "ended late"}

(***************************************************************************)
(* The live stream: events() of chat_stream.                               *)
(***************************************************************************)

NoReader == [pc |-> "gone", live |-> 0, row |-> 0]

\* Mutant: keys are not remembered.
AnyKey(e) == TRUE

\* Keys in seen_event_keys are not sent again.
Fresh(e) == sent[e] = 0

\* What was sent makes the generator read on, else it looks at the status.
Sends(S, reader2) ==
    LET fresh == {e \in S : Fresh(e)}
    IN /\ sent' = [e \in Event |-> IF e \in fresh THEN sent[e] + 1 ELSE sent[e]]
       /\ reader' = [reader2 EXCEPT !.pc = IF fresh = {} THEN "check" ELSE "read"]

\* The cursor after an answer: the highest number in it.
Cursors(number, S, cursor) ==
    IF S = {} THEN {cursor}
    ELSE {number[e] : e \in {x \in S : \A f \in S : number[f] <= number[x]}}

\* Mutant: the newest come first.
Newest(number, cursor) ==
    LET later == {e \in Event : number[e] > cursor}
    IN {e \in later : Cardinality({f \in later : number[f] >= number[e]}) <= MaxRead}

\* One answer to a request for what comes after a cursor.
After(number, cursor) ==
    LET later == {e \in Event : number[e] > cursor}
    IN {e \in later : Cardinality({f \in later : number[f] <= number[e]}) <= MaxRead}

\* Entries of the stream, or an empty answer after 750 ms.
ReadStream ==
    /\ reader.pc = "read" /\ bus[Api]
    /\ \E S \in {After(xid, reader.live)} : \E live \in Cursors(xid, S, reader.live) :
           Sends(S, [reader EXCEPT !.live = live])
    /\ UNCHANGED <<backend, store, emit, redis, threads, fin, due, faults, crashes>>

\* Redis is down or fails: the same round reads the database.
NoStream ==
    /\ reader.pc = "read"
    /\ \/ ~bus[Api] /\ UNCHANGED <<bus, faults>>
       \/ bus[Api] /\ Fault /\ bus' = [bus EXCEPT ![Api] = FALSE]
    /\ reader' = [reader EXCEPT !.pc = "rows"]
    /\ UNCHANGED <<backend, store, emit, xid, threads, fin, due, sent, crashes>>

ReadRows ==
    /\ reader.pc = "rows"
    /\ \E S \in {After(id, reader.row)} : \E row \in Cursors(id, S, reader.row) :
           Sends(S, [reader EXCEPT !.row = row])
    /\ UNCHANGED <<backend, store, emit, redis, threads, fin, due, faults, crashes>>

\* Nothing was sent: the stream ends with the task.
CheckStatus ==
    /\ reader.pc = "check"
    /\ reader' = [reader EXCEPT !.pc = IF Ended THEN "done" ELSE "read"]
    /\ UNCHANGED <<backend, store, emit, redis, threads, fin, due, sent, faults, crashes>>

\* An error of the database ends the generator.
ReadFails ==
    /\ reader.pc \in {"rows", "check"} /\ Fault
    /\ reader' = NoReader
    /\ UNCHANGED <<backend, store, emit, redis, threads, fin, due, sent, crashes>>

(***************************************************************************)
(* A process dies: its thread, what it was about to publish, the execution *)
(* of the task (recovery queues it again) or the client's stream.          *)
(***************************************************************************)

Crash(p) ==
    /\ crashes < MaxCrashes /\ crashes' = crashes + 1
    /\ thread' = [thread EXCEPT ![p] = FALSE]
    /\ writer' = [writer EXCEPT ![p] = IdleWriter]
    /\ emit' = [emit EXCEPT ![p] = None]
    /\ bus' = [bus EXCEPT ![p] = TRUE]
    /\ fin' = IF p = Worker /\ ~Ended THEN "running" ELSE fin
    /\ reader' = IF p = Api /\ reader.pc # "done" THEN NoReader ELSE reader
    /\ UNCHANGED <<backend, store, xid, due, sent, faults>>

\* Processes wait for work.
Idle == UNCHANGED vars

WriterStep(p) == Take(p) \/ Look(p) \/ Commit(p) \/ Conflict(p) \/ Delete(p)
ReaderStep == ReadStream \/ NoStream \/ ReadRows \/ CheckStatus

Next ==
    \/ \E p \in Proc, e \in Event : Append(p, e)
    \/ \E p \in Proc : Publish(p) \/ Reconnect(p) \/ WriterStep(p) \/ CommitFails(p) \/ Crash(p)
    \/ Flush \/ FlushEnds \/ Finish
    \/ ReaderStep \/ ReadFails
    \/ Idle

Spec == Init /\ [][Next]_vars

\* A writer thread that runs goes on: its loop has no exit but close.
FairSpec == Spec /\ \A p \in Proc : WF_vars(WriterStep(p))

(***************************************************************************)
(* Properties.                                                             *)
(***************************************************************************)

TypeOK ==
    /\ backend \in Backends
    /\ stamp \in [Event -> Nat] /\ xid \in [Event -> Nat]
    /\ nextId \in Nat /\ id \in [Event -> 0 .. nextId]
    /\ spool \subseteq Event /\ due \subseteq Event
    /\ emit \in [Proc -> Event \cup {None}]
    /\ bus \in [Proc -> BOOLEAN] /\ thread \in [Proc -> BOOLEAN]
    /\ writer \in [Proc -> [pc : WriterPC, batch : SUBSET Event, known : SUBSET Event]]
    /\ fin \in {"running", "flushing", "flushed", "late", "ended", "ended late"}
    /\ reader \in [pc : {"read", "rows", "check", "done", "gone"}, live : Nat, row : Nat]
    /\ sent \in [Event -> Nat]
    /\ faults \in 0 .. MaxFaults /\ crashes \in 0 .. MaxCrashes

Durable == spool \cup Stored

\* An event that append_event took is in the outbox or in the database from
\* then on, whatever fails or crashes and however many threads drain the outbox.
NothingLost == Accepted \subseteq Durable

\* What a client was shown can still be found afterwards: no event is
\* published before it is durable.
SentIsDurable == \A e \in Event : xid[e] > 0 \/ sent[e] > 0 => e \in Durable

\* A batch that is replayed neither moves nor renumbers a stored event.
IdsAreFinal == [][\A e \in Event : id[e] > 0 => id'[e] = id[e]]_vars

\* With MySQL the history is complete up to some event and numbered in the
\* order of the appends, though several threads write it.
InOrder ==
    backend # "sqlite" =>
        \A e, f \in Event : 0 < stamp[e] /\ stamp[e] < stamp[f] /\ id[f] > 0
                            => 0 < id[e] /\ id[e] < id[f]

\* A task whose flush was not cut short has its whole history in the
\* database when its end becomes visible.
FlushedIsComplete == fin = "ended" => due \subseteq Stored

\* A client gets an event once, though it may read it from Redis and from the
\* database, and its two cursors pass over nothing: rows and entries appear in
\* the order of their numbers.
OncePerReader == \A e \in Event : sent[e] <= 1
CursorsSkipNothing ==
    \A e \in Event : \/ id[e] \in 1 .. reader.row
                     \/ xid[e] \in 1 .. reader.live
                     => sent[e] > 0
StreamSound == OncePerReader /\ CursorsSkipNothing

\* The outbox drains, unless the threads that could do it have all died.
OutboxDrains == spool # {} ~> spool = {} \/ (\A p \in Proc : ~thread[p])

(***************************************************************************)
(* The inductive invariant.                                                *)
(***************************************************************************)

\* Only accepted events are kept, and stamps and entries are counted.
Counted ==
    /\ Durable \subseteq Accepted /\ due \subseteq Accepted
    /\ \A e \in Event : stamp[e] <= Cardinality(Accepted)
    /\ \A e \in Event : xid[e] <= Entries
    /\ reader.live <= Entries /\ reader.row <= nextId

\* What a process is about to publish is durable and has no entry.
EmitIsNew ==
    \A p \in Proc : emit[p] # None => emit[p] \in Durable /\ xid[emit[p]] = 0

EmitOnce ==
    \A p, q \in Proc : emit[p] # None /\ emit[p] = emit[q] => p = q

\* What a thread holds is durable, and stored when it deletes it.
BatchSafe ==
    \A p \in Proc :
        /\ writer[p].batch \subseteq Durable
        /\ writer[p].known \subseteq Stored
        /\ writer[p].pc = "delete" => writer[p].batch \subseteq Stored

\* With MySQL a batch leaves out nothing older that is not stored.
BatchOldest ==
    backend # "sqlite" =>
        \A p \in Proc, e \in Event : \A f \in writer[p].batch :
            0 < stamp[e] /\ stamp[e] < stamp[f] => e \in writer[p].batch \cup Stored

FlushedIsStored == fin \in {"flushed", "ended"} => due \subseteq Stored

IInv ==
    /\ TypeOK /\ NothingLost /\ SentIsDurable /\ InOrder
    /\ OncePerReader /\ CursorsSkipNothing
    /\ Counted /\ EmitIsNew /\ EmitOnce /\ BatchSafe /\ BatchOldest /\ FlushedIsStored

=============================================================================
