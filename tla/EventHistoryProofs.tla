------------------------- MODULE EventHistoryProofs -------------------------
(***************************************************************************)
(* Proofs about EventHistory, for any number of processes, events, faults  *)
(* and crashes and any size of batches and answers.                        *)
(***************************************************************************)
EXTENDS EventHistory, FiniteSetTheorems, TLAPS

\* Sets of events are finite, and a part has no more elements.
LEMMA Finite ==
    \A S \in SUBSET Event :
        /\ IsFiniteSet(S) /\ Cardinality(S) \in Nat
        /\ \A T \in SUBSET S : /\ Cardinality(T) <= Cardinality(S)
                               /\ T # S => Cardinality(T) < Cardinality(S)
  <1> TAKE S \in SUBSET Event
  <1>1. IsFiniteSet(S)
    BY EventAssumption, FS_Subset
  <1>2. \A T \in SUBSET S : Cardinality(T) <= Cardinality(S)
                            /\ (T # S => Cardinality(T) < Cardinality(S))
    BY <1>1, FS_Subset, FS_CardinalityType
  <1> QED BY <1>1, <1>2, FS_CardinalityType

\* One more event.
LEMMA OneMore ==
    ASSUME NEW S \in SUBSET Event, NEW e \in Event, e \notin S
    PROVE  Cardinality(S \cup {e}) = Cardinality(S) + 1
  BY Finite, FS_AddElement

\* Ranks number a set from 1, in the order of the stamps.
LEMMA Ranks ==
    ASSUME stamp \in [Event -> Nat], NEW S \in SUBSET Event
    PROVE  /\ \A e \in Event : Rank(S, e) \in Nat
           /\ \A e \in S : Rank(S, e) \in 1 .. Cardinality(S)
           /\ \A e, f \in S : stamp[e] < stamp[f] => Rank(S, e) < Rank(S, f)
  <1> DEFINE R(e) == {f \in S : stamp[f] <= stamp[e]}
  <1>1. \A e \in Event : R(e) \in SUBSET S /\ R(e) \in SUBSET Event
    OBVIOUS
  <1>2. \A e \in Event : Cardinality(R(e)) \in Nat /\ Cardinality(R(e)) <= Cardinality(S)
    BY <1>1, Finite
  <1>3. ASSUME NEW e \in S
        PROVE  Cardinality(R(e)) >= 1
    <2>1. {e} \in SUBSET R(e)
      OBVIOUS
    <2>2. Cardinality({e}) = 1
      BY FS_Singleton
    <2> QED BY <1>1, <1>2, <2>1, <2>2, Finite
  <1>4. ASSUME NEW e \in S, NEW f \in S, stamp[e] < stamp[f]
        PROVE  Cardinality(R(e)) < Cardinality(R(f))
    <2>1. R(e) \in SUBSET R(f) /\ f \in R(f) /\ f \notin R(e)
      BY <1>4
    <2>2. R(e) # R(f) /\ R(f) \in SUBSET Event
      BY <2>1
    <2> HIDE DEF R
    <2> QED BY <2>1, <2>2, Finite
  <1>5. Cardinality(S) \in Nat
    BY Finite
  <1>6. \A e \in Event : Rank(S, e) = Cardinality(R(e))
    BY DEF Rank
  <1> HIDE DEF R
  <1> QED BY <1>2, <1>3, <1>4, <1>5, <1>6

\* Numbering one more event above the count of those that have a number.
LEMMA CountNew ==
    ASSUME NEW g \in [Event -> Nat], NEW e \in Event, g[e] = 0,
           NEW h, h = [g EXCEPT ![e] = Cardinality({f \in Event : g[f] > 0}) + 1],
           \A f \in Event : g[f] <= Cardinality({x \in Event : g[x] > 0})
    PROVE  /\ h \in [Event -> Nat]
           /\ Cardinality({f \in Event : h[f] > 0}) = Cardinality({f \in Event : g[f] > 0}) + 1
           /\ \A f \in Event : h[f] <= Cardinality({x \in Event : h[x] > 0})
  <1> DEFINE G == {f \in Event : g[f] > 0}
  <1>1. Cardinality(G) \in Nat
    BY Finite
  <1>2. h \in [Event -> Nat] /\ h[e] = Cardinality(G) + 1
        /\ \A f \in Event \ {e} : h[f] = g[f]
    BY <1>1
  <1>3. {f \in Event : h[f] > 0} = G \cup {e}
    BY <1>1, <1>2
  <1>4. Cardinality(G \cup {e}) = Cardinality(G) + 1
    BY OneMore
  <1>5. \A f \in Event : h[f] <= Cardinality(G) + 1
    BY <1>1, <1>2
  <1> QED BY <1>2, <1>3, <1>4, <1>5

-----------------------------------------------------------------------------
\* What one step may do to the database.
StoreGrows ==
    /\ nextId' \in Nat /\ nextId <= nextId' /\ id' \in [Event -> 0 .. nextId']
    /\ \A e \in Event : id[e] > 0 => id'[e] = id[e]
    /\ \A e \in Event : id[e] = 0 /\ id'[e] > 0 => nextId < id'[e]

\* A transaction adds its rows above all others, in the order of the stamps.
LEMMA InsertAdds ==
    ASSUME TypeOK, NEW S \in SUBSET Event, S \cap Stored = {}, Insert(S)
    PROVE  /\ StoreGrows /\ Stored' = Stored \cup S
           /\ \A e, f \in S : stamp[e] < stamp[f] => id'[e] < id'[f]
  <1>1. /\ \A e \in S : Rank(S, e) \in 1 .. Cardinality(S)
        /\ \A e, f \in S : stamp[e] < stamp[f] => Rank(S, e) < Rank(S, f)
    BY Ranks DEF TypeOK
  <1>2. Cardinality(S) \in Nat /\ nextId \in Nat /\ id \in [Event -> 0 .. nextId]
    BY Finite DEF TypeOK
  <1>3. /\ nextId' = nextId + Cardinality(S)
        /\ DOMAIN id' = Event
        /\ id' = [e \in Event |-> IF e \in S THEN nextId + Rank(S, e) ELSE id[e]]
        /\ \A e \in S : id'[e] = nextId + Rank(S, e)
        /\ \A e \in Event \ S : id'[e] = id[e]
    BY DEF Insert
  <1>4. \A e \in S : id[e] = 0
    BY <1>2 DEF Stored
  <1>5. \A e \in Event : id'[e] \in 0 .. nextId'
    BY <1>1, <1>2, <1>3
  <1>6. id' \in [Event -> 0 .. nextId']
    BY <1>3, <1>5
  <1> QED BY <1>1, <1>2, <1>3, <1>4, <1>6 DEF StoreGrows, Stored

\* A row that is written at once is the last.
LEMMA InsertNewAdds ==
    ASSUME TypeOK, NEW e \in Event, e \notin Stored, InsertNew(e)
    PROVE  StoreGrows /\ Stored' = Stored \cup {e}
  <1>0. nextId \in Nat /\ id \in [Event -> 0 .. nextId]
    BY DEF TypeOK
  <1>1. nextId \in Nat /\ nextId' = nextId + 1 /\ id \in [Event -> 0 .. nextId] /\ id[e] = 0
    BY <1>0 DEF InsertNew, Stored
  <1>2. /\ id' = [id EXCEPT ![e] = nextId + 1] /\ id'[e] = nextId + 1
        /\ \A f \in Event \ {e} : id'[f] = id[f]
    BY <1>1 DEF InsertNew
  <1>3. id' \in [Event -> 0 .. nextId']
    BY <1>1, <1>2
  <1>4. Stored' = Stored \cup {e}
    BY <1>1, <1>2 DEF Stored
  <1> QED BY <1>1, <1>2, <1>3, <1>4 DEF StoreGrows

\* A step that leaves the table alone.
LEMMA StoreSame ==
    ASSUME TypeOK, UNCHANGED <<id, nextId>>
    PROVE  StoreGrows /\ Stored' = Stored
  <1>1. nextId' = nextId /\ id' = id /\ nextId \in Nat /\ id \in [Event -> 0 .. nextId]
    BY DEF TypeOK
  <1>2. Stored' = Stored
    BY <1>1 DEF Stored
  <1> QED BY <1>1, <1>2 DEF StoreGrows

\* What an append does to the outbox and the table.
LEMMA AppendStores ==
    ASSUME IInv, NEW p \in Proc, NEW e \in Event, Append(p, e)
    PROVE  /\ StoreGrows /\ spool' \in {spool, spool \cup {e}}
           /\ Stored' \in {Stored, Stored \cup {e}}
           /\ e \in Durable'
           /\ backend # "sqlite" => id' = id
           /\ thread' \in [Proc -> BOOLEAN] /\ faults' \in 0 .. MaxFaults
  <1> USE DEF IInv
  <1>1. e \notin Stored
    BY DEF Append, Counted, Durable, Accepted
  <1>0. faults \in 0 .. MaxFaults /\ MaxFaults \in Nat /\ thread \in [Proc -> BOOLEAN]
    BY EventAssumption DEF TypeOK
  <1>2. CASE UsesOutbox(p, e)
    <2>1. StoreGrows /\ Stored' = Stored
      BY <1>2, StoreSame DEF UsesOutbox
    <2> QED BY <1>0, <1>2, <2>1 DEF UsesOutbox, Spools, Durable
  <1>3. CASE Persists(p, e)
    <2>1. StoreGrows /\ Stored' = Stored \cup {e}
      BY <1>1, <1>3, InsertNewAdds DEF Persists
    <2> QED BY <1>0, <1>3, <2>1 DEF Persists, Durable
  <1>4. CASE PersistFails(p, e)
    <2>1. StoreGrows /\ Stored' \in {Stored, Stored \cup {e}}
      BY <1>1, <1>4, InsertNewAdds, StoreSame DEF PersistFails
    <2>2. faults' \in 0 .. MaxFaults
      BY <1>0, <1>4 DEF PersistFails, Fault
    <2> QED BY <1>0, <1>4, <2>1, <2>2 DEF PersistFails, Spools, Durable
  <1> QED BY <1>2, <1>3, <1>4 DEF Append

\* What a writer's transaction does: it stores what is missing, or nothing.
LEMMA CommitStores ==
    ASSUME IInv, NEW p \in Proc, Commit(p) \/ CommitFails(p)
    PROVE  /\ StoreGrows
           /\ \/ Stored' = Stored /\ id' = id
              \/ /\ writer[p].pc = "commit" /\ Missing(writer[p]) \cap Stored = {}
                 /\ Insert(Missing(writer[p]))
                 /\ Stored' = Stored \cup writer[p].batch
  <1> USE DEF IInv
  <1>1. CASE UNCHANGED <<id, nextId>>
    BY <1>1, StoreSame
  <1>2. CASE /\ Missing(writer[p]) \cap Stored = {}
             /\ writer[p].pc = "commit" /\ Insert(Missing(writer[p]))
    <2>1. Missing(writer[p]) \in SUBSET Event
      BY DEF Missing, TypeOK
    <2>2. StoreGrows /\ Stored' = Stored \cup Missing(writer[p])
      BY <1>2, <2>1, InsertAdds
    <2>3. writer[p].known \subseteq Stored
      BY DEF BatchSafe
    <2>4. Stored' \subseteq Stored \cup writer[p].batch
      BY <2>2 DEF Missing
    <2>5. writer[p].batch \subseteq Stored'
      BY <2>2, <2>3 DEF Missing
    <2>6. Stored' = Stored \cup writer[p].batch
      BY <2>2, <2>4, <2>5
    <2> QED BY <1>2, <2>2, <2>6
  <1> QED BY <1>1, <1>2 DEF Commit, CommitFails

\* No step changes a row, and new rows come last.
LEMMA StoreStep ==
    ASSUME IInv, [Next]_vars
    PROVE  StoreGrows
  <1> USE DEF IInv
  <1>1. CASE \E p \in Proc, e \in Event : Append(p, e)
    BY <1>1, AppendStores
  <1>2. CASE \E p \in Proc : Commit(p) \/ CommitFails(p)
    BY <1>2, CommitStores
  <1>3. CASE UNCHANGED <<id, nextId>>
    BY <1>3, StoreSame
  <1> QED
    BY <1>1, <1>2, <1>3
    DEF Next, vars, store, Publish, Reconnect, WriterStep, Take, Look, Conflict, Delete, Crash,
        Flush, FlushEnds, Finish, ReaderStep, ReadStream, NoStream, ReadRows, CheckStatus,
        ReadFails, Idle

-----------------------------------------------------------------------------
\* An append takes one event, after all others.
LEMMA AppendAccepts ==
    ASSUME IInv, NEW p \in Proc, NEW e \in Event, Append(p, e)
    PROVE  /\ stamp' \in [Event -> Nat] /\ e \notin Accepted /\ Accepted' = Accepted \cup {e}
           /\ \A f \in Event \ {e} : stamp'[f] = stamp[f]
           /\ \A f \in Event : stamp[f] < stamp'[e]
           /\ \A f \in Event : stamp'[f] <= Cardinality(Accepted')
  <1> USE DEF IInv
  <1>1. stamp \in [Event -> Nat] /\ stamp[e] = 0 /\ Cardinality(Accepted) \in Nat
        /\ \A f \in Event : stamp[f] <= Cardinality(Accepted)
    BY Finite DEF Append, TypeOK, Counted, Accepted
  <1>2. stamp' = [stamp EXCEPT ![e] = Cardinality(Accepted) + 1]
    BY DEF Append
  <1>3. stamp' \in [Event -> Nat] /\ \A f \in Event : stamp'[f] <= Cardinality(Accepted')
    BY <1>1, <1>2, CountNew DEF Accepted
  <1>4. stamp'[e] = Cardinality(Accepted) + 1 /\ \A f \in Event \ {e} : stamp'[f] = stamp[f]
    BY <1>1, <1>2
  <1>5. Accepted' = Accepted \cup {e} /\ e \notin Accepted
    BY <1>1, <1>4 DEF Accepted
  <1> QED BY <1>1, <1>3, <1>4, <1>5

\* Only appends take events.
LEMMA StampStep ==
    ASSUME [Next]_vars
    PROVE  \/ \E p \in Proc, e \in Event : Append(p, e)
           \/ stamp' = stamp /\ Accepted' = Accepted
  BY DEF Next, vars, store, Publish, Reconnect, WriterStep, Take, Look, Commit, Conflict,
         CommitFails, Delete, Crash, Flush, FlushEnds, Finish, ReaderStep, ReadStream, NoStream,
         ReadRows, CheckStatus, ReadFails, Idle, Accepted

\* Nothing durable is lost, and only appends add to it.
LEMMA DurableStep ==
    ASSUME IInv, [Next]_vars
    PROVE  /\ Stored \subseteq Stored' /\ Durable \subseteq Durable'
           /\ (\E p \in Proc, e \in Event : Append(p, e)) \/ Durable' \subseteq Durable
  <1> USE DEF IInv
  <1>1. CASE \E p \in Proc, e \in Event : Append(p, e)
    BY <1>1, AppendStores DEF Durable
  <1>2. CASE \E p \in Proc : Commit(p) \/ CommitFails(p)
    <2>1. PICK p \in Proc : Commit(p) \/ CommitFails(p)
      BY <1>2
    <2>2. Stored' = Stored \/ Stored' = Stored \cup writer[p].batch
      BY <2>1, CommitStores
    <2>3. spool' = spool /\ writer[p].batch \subseteq Durable
      BY <2>1 DEF Commit, CommitFails, BatchSafe
    <2> QED BY <2>2, <2>3 DEF Durable
  <1>3. CASE \E p \in Proc : Delete(p)
    <2>1. PICK p \in Proc : Delete(p)
      BY <1>3
    <2>2. Stored' = Stored
      BY <2>1, StoreSame DEF Delete
    <2>3. writer[p].batch \subseteq Stored /\ spool' = spool \ writer[p].batch
      BY <2>1 DEF Delete, BatchSafe
    <2> QED BY <2>2, <2>3 DEF Durable
  <1>4. CASE UNCHANGED <<id, nextId, spool>>
    BY <1>4, StoreSame DEF Durable
  <1> QED
    BY <1>1, <1>2, <1>3, <1>4
    DEF Next, vars, store, Publish, Reconnect, WriterStep, Take, Look, Conflict, Crash,
        Flush, FlushEnds, Finish, ReaderStep, ReadStream, NoStream, ReadRows, CheckStatus,
        ReadFails, Idle

-----------------------------------------------------------------------------
\* An answer contains everything between the old cursor and the new.
LEMMA Answers ==
    ASSUME NEW number \in [Event -> Nat], NEW cursor \in Nat,
           NEW S, S = After(number, cursor), NEW next \in Cursors(number, S, cursor)
    PROVE  /\ S \in SUBSET Event /\ next \in Nat
           /\ next = cursor \/ \E e \in Event : next = number[e]
           /\ \A e \in S : number[e] > 0
           /\ \A e \in Event : number[e] \in 1 .. next => number[e] \in 1 .. cursor \/ e \in S
  <1> DEFINE later == {e \in Event : number[e] > cursor}
             upTo(e) == {f \in later : number[f] <= number[e]}
  <1>1. S = {e \in later : Cardinality(upTo(e)) <= MaxRead}
    BY DEF After
  <1>2. CASE S = {}
    BY <1>1, <1>2 DEF Cursors
  <1>3. CASE S # {}
    <2>1. PICK x \in S : next = number[x] /\ \A f \in S : number[f] <= number[x]
      BY <1>3 DEF Cursors
    <2>2. ASSUME NEW e \in Event, number[e] <= next, number[e] > cursor
          PROVE  e \in S
      <3>1. e \in later /\ x \in later /\ Cardinality(upTo(x)) <= MaxRead
        BY <1>1, <2>1, <2>2
      <3>2. upTo(e) \in SUBSET upTo(x) /\ upTo(x) \in SUBSET Event
        BY <1>1, <2>1, <2>2
      <3> HIDE DEF later, upTo
      <3>3. Cardinality(upTo(e)) <= Cardinality(upTo(x))
        BY <3>2, Finite
      <3>4. upTo(e) \in SUBSET Event
        BY <3>2
      <3>5. Cardinality(upTo(e)) \in Nat /\ Cardinality(upTo(x)) \in Nat
        BY <3>2, <3>4, Finite
      <3> QED BY <1>1, <3>1, <3>3, <3>5, EventAssumption
    <2> QED BY <1>1, <2>1, <2>2
  <1> QED BY <1>2, <1>3

\* What sending does to the counts: everything in the answer has been sent once.
LEMMA SendsFresh ==
    ASSUME sent \in [Event -> Nat], NEW S \in SUBSET Event, NEW r, Sends(S, r)
    PROVE  /\ sent' \in [Event -> Nat]
           /\ \A e \in S : sent'[e] > 0
           /\ \A e \in Event : sent[e] > 0 => sent'[e] = sent[e]
           /\ \A e \in Event : sent'[e] > 0 => sent[e] > 0 \/ e \in S
           /\ OncePerReader => \A e \in Event : sent'[e] <= 1
           /\ reader' \in {[r EXCEPT !.pc = "check"], [r EXCEPT !.pc = "read"]}
  BY DEF Sends, Fresh, OncePerReader

\* The step of a reader that gets an answer from one of its sources.
LEMMA ReadFacts ==
    ASSUME IInv, ReadStream \/ ReadRows
    PROVE  /\ sent' \in [Event -> Nat] /\ reader' \in [pc : {"read", "check"}, live : Nat, row : Nat]
           /\ OncePerReader' /\ SentIsDurable' /\ CursorsSkipNothing'
           /\ reader'.live <= Entries' /\ reader'.row <= nextId'
  <1> USE DEF IInv
  <1>1. /\ sent \in [Event -> Nat] /\ xid \in [Event -> Nat] /\ id \in [Event -> Nat]
        /\ nextId \in Nat /\ \A e \in Event : id[e] <= nextId
        /\ reader.live \in Nat /\ reader.row \in Nat
        /\ reader = [pc |-> reader.pc, live |-> reader.live, row |-> reader.row]
    <2>1. /\ sent \in [Event -> Nat] /\ xid \in [Event -> Nat] /\ id \in [Event -> 0 .. nextId]
          /\ nextId \in Nat
          /\ reader \in [pc : {"read", "rows", "check", "done", "gone"}, live : Nat, row : Nat]
      BY DEF TypeOK
    <2>2. id \in [Event -> Nat] /\ \A e \in Event : id[e] <= nextId
      BY <2>1
    <2>3. /\ reader.live \in Nat /\ reader.row \in Nat
          /\ reader = [pc |-> reader.pc, live |-> reader.live, row |-> reader.row]
      BY <2>1
    <2> QED BY <2>1, <2>2, <2>3
  <1>2. xid' = xid /\ id' = id /\ nextId' = nextId /\ spool' = spool /\ Entries' = Entries
        /\ Stored' = Stored /\ Durable' = Durable
    BY DEF ReadStream, ReadRows, store, redis, Entries, Stored, Durable
  <1>3. CASE ReadStream
    <2>1. PICK S, live : /\ S = After(xid, reader.live) /\ live \in Cursors(xid, S, reader.live)
                         /\ Sends(S, [reader EXCEPT !.live = live])
      BY <1>3 DEF ReadStream
    <2>2. /\ S \in SUBSET Event /\ live \in Nat
          /\ live = reader.live \/ \E e \in Event : live = xid[e]
          /\ \A e \in S : xid[e] > 0
          /\ \A e \in Event : xid[e] \in 1 .. live => xid[e] \in 1 .. reader.live \/ e \in S
      BY <1>1, <2>1, Answers
    <2>3. /\ sent' \in [Event -> Nat]
          /\ \A e \in S : sent'[e] > 0
          /\ \A e \in Event : sent[e] > 0 => sent'[e] = sent[e]
          /\ \A e \in Event : sent'[e] > 0 => sent[e] > 0 \/ e \in S
          /\ \A e \in Event : sent'[e] <= 1
          /\ reader' \in {[[reader EXCEPT !.live = live] EXCEPT !.pc = "check"],
                          [[reader EXCEPT !.live = live] EXCEPT !.pc = "read"]}
      BY <1>1, <2>1, <2>2, SendsFresh
    <2>4. reader'.live = live /\ reader'.row = reader.row
          /\ reader' \in [pc : {"read", "check"}, live : Nat, row : Nat]
      BY <1>1, <2>2, <2>3
    <2>5. live <= Entries /\ reader.row <= nextId
      BY <2>2 DEF Counted
    <2>6. CursorsSkipNothing'
      BY <1>1, <1>2, <2>2, <2>3, <2>4 DEF CursorsSkipNothing
    <2>7. SentIsDurable'
      BY <1>2, <2>2, <2>3 DEF SentIsDurable
    <2> QED BY <1>2, <2>3, <2>4, <2>5, <2>6, <2>7 DEF OncePerReader
  <1>4. CASE ReadRows
    <2>1. PICK S, row : /\ S = After(id, reader.row) /\ row \in Cursors(id, S, reader.row)
                        /\ Sends(S, [reader EXCEPT !.row = row])
      BY <1>4 DEF ReadRows
    <2>2. /\ S \in SUBSET Event /\ row \in Nat
          /\ row = reader.row \/ \E e \in Event : row = id[e]
          /\ \A e \in S : id[e] > 0
          /\ \A e \in Event : id[e] \in 1 .. row => id[e] \in 1 .. reader.row \/ e \in S
      BY <1>1, <2>1, Answers
    <2>3. /\ sent' \in [Event -> Nat]
          /\ \A e \in S : sent'[e] > 0
          /\ \A e \in Event : sent[e] > 0 => sent'[e] = sent[e]
          /\ \A e \in Event : sent'[e] > 0 => sent[e] > 0 \/ e \in S
          /\ \A e \in Event : sent'[e] <= 1
          /\ reader' \in {[[reader EXCEPT !.row = row] EXCEPT !.pc = "check"],
                          [[reader EXCEPT !.row = row] EXCEPT !.pc = "read"]}
      BY <1>1, <2>1, <2>2, SendsFresh
    <2>4. reader'.row = row /\ reader'.live = reader.live
          /\ reader' \in [pc : {"read", "check"}, live : Nat, row : Nat]
      BY <1>1, <2>2, <2>3
    <2>5. row <= nextId /\ reader.live <= Entries
      BY <1>1, <2>2 DEF Counted
    <2>6. CursorsSkipNothing'
      BY <1>1, <1>2, <2>2, <2>3, <2>4 DEF CursorsSkipNothing
    <2>7. SentIsDurable'
      BY <1>2, <2>2, <2>3 DEF SentIsDurable, Durable, Stored
    <2> QED BY <1>2, <2>3, <2>4, <2>5, <2>6, <2>7 DEF OncePerReader
  <1> QED BY <1>3, <1>4

-----------------------------------------------------------------------------
\* The bounds are kept.
LEMMA FaultBound ==
    ASSUME faults \in 0 .. MaxFaults, Fault \/ faults' = faults
    PROVE  faults' \in 0 .. MaxFaults
  BY EventAssumption DEF Fault

\* Publishing numbers the event above all entries, or leaves the stream alone.
LEMMA PublishAdds ==
    ASSUME IInv, NEW p \in Proc, Publish(p)
    PROVE  /\ xid' \in [Event -> Nat] /\ Entries <= Entries'
           /\ \A e \in Event : xid'[e] <= Entries'
           /\ \A e \in Event : xid'[e] # xid[e] => e = emit[p] /\ Entries < xid'[e]
           /\ bus' \in [Proc -> BOOLEAN] /\ faults' \in 0 .. MaxFaults
           /\ emit' = [emit EXCEPT ![p] = None] /\ emit[p] \in Event
  <1> USE DEF IInv
  <1>1. /\ xid \in [Event -> Nat] /\ Entries \in Nat /\ \A e \in Event : xid[e] <= Entries
        /\ emit[p] \in Event /\ xid[emit[p]] = 0
        /\ bus \in [Proc -> BOOLEAN] /\ faults \in 0 .. MaxFaults /\ MaxFaults \in Nat
    BY Finite, EventAssumption DEF TypeOK, Counted, EmitIsNew, Publish, Entries
  <1>a. faults' \in 0 .. MaxFaults /\ bus' \in [Proc -> BOOLEAN]
    <2>1. Fault \/ faults' = faults
      BY DEF Publish
    <2>2. bus' = bus \/ bus' = [bus EXCEPT ![p] = FALSE]
      BY DEF Publish, redis
    <2> QED BY <1>1, <2>1, <2>2, FaultBound
  <1>b. emit' = [emit EXCEPT ![p] = None]
    BY DEF Publish
  <1>2. CASE UNCHANGED xid
    <2>1. Entries' = Entries
      BY <1>2 DEF Entries
    <2> QED BY <1>1, <1>a, <1>b, <1>2, <2>1
  <1>3. CASE AddsEntry(emit[p])
    <2>1. xid' = [xid EXCEPT ![emit[p]] = Entries + 1]
      BY <1>3 DEF AddsEntry
    <2>2. xid' \in [Event -> Nat] /\ Entries' = Entries + 1 /\ \A e \in Event : xid'[e] <= Entries'
      <3>1. xid' = [xid EXCEPT ![emit[p]] = Cardinality({f \in Event : xid[f] > 0}) + 1]
            /\ \A f \in Event : xid[f] <= Cardinality({x \in Event : xid[x] > 0})
        BY <1>1, <2>1 DEF Entries
      <3> HIDE DEF IInv
      <3> QED BY <1>1, <3>1, CountNew DEF Entries
    <2>3. \A e \in Event : xid'[e] = IF e = emit[p] THEN Entries + 1 ELSE xid[e]
      BY <1>1, <2>1
    <2> QED BY <1>1, <1>a, <1>b, <2>2, <2>3
  <1> QED BY <1>2, <1>3 DEF Publish, redis

\* Only publishing adds entries.
LEMMA StreamStep ==
    ASSUME IInv, [Next]_vars
    PROVE  /\ xid' \in [Event -> Nat] /\ Entries <= Entries'
           /\ \A e \in Event : xid'[e] <= Entries'
           /\ \A e \in Event : xid'[e] # xid[e] =>
                 Entries < xid'[e] /\ \E p \in Proc : Publish(p) /\ e = emit[p]
  <1> USE DEF IInv
  <1>1. CASE \E p \in Proc : Publish(p)
    BY <1>1, PublishAdds
  <1>2. CASE xid' = xid
    <2>1. Entries' = Entries /\ Entries \in Nat
      BY <1>2, Finite DEF Entries
    <2>2. xid \in [Event -> Nat] /\ \A e \in Event : xid[e] <= Entries
      BY DEF TypeOK, Counted
    <2> QED BY <1>2, <2>1, <2>2
  <1> QED
    BY <1>1, <1>2
    DEF Next, vars, redis, Append, Reconnect, WriterStep, Take, Look, Commit, Conflict,
        CommitFails, Delete, Crash, Flush, FlushEnds, Finish, ReaderStep, ReadStream, NoStream,
        ReadRows, CheckStatus, ReadFails, Idle

LEMMA InitInv == Init => IInv
  <1> SUFFICES ASSUME Init PROVE IInv
    OBVIOUS
  <1> USE EventAssumption DEF Init
  <1>1. TypeOK
    BY DEF TypeOK, IdleWriter, WriterPC
  <1>2. Stored = {} /\ Durable = {} /\ Accepted = {}
    BY DEF Stored, Durable, Accepted
  <1>3. Entries = 0 /\ Cardinality(Accepted) = 0
    <2>1. {e \in Event : xid[e] > 0} = {}
      OBVIOUS
    <2> QED BY <1>2, <2>1, FS_EmptySet DEF Entries
  <1>4. Counted
    BY <1>2, <1>3 DEF Counted
  <1>5. NothingLost /\ SentIsDurable /\ InOrder /\ OncePerReader /\ CursorsSkipNothing
    BY <1>2 DEF NothingLost, SentIsDurable, InOrder, OncePerReader, CursorsSkipNothing
  <1>6. EmitIsNew /\ EmitOnce /\ BatchSafe /\ BatchOldest /\ FlushedIsStored
    BY <1>2 DEF EmitIsNew, EmitOnce, BatchSafe, BatchOldest, FlushedIsStored, IdleWriter
  <1> QED BY <1>1, <1>4, <1>5, <1>6 DEF IInv

\* Where a thread can be, and what its steps make of that.
Writers == [pc : WriterPC, batch : SUBSET Event, known : SUBSET Event]

LEMMA WriterSteps ==
    ASSUME writer \in [Proc -> Writers], NEW p \in Proc
    PROVE  /\ writer[p].batch \in SUBSET Event /\ writer[p].known \in SUBSET Event
           /\ \A w \in Writers : [writer EXCEPT ![p] = w] \in [Proc -> Writers]
           /\ \A K \in SUBSET Event :
                 [writer EXCEPT ![p].pc = "commit", ![p].known = K] \in [Proc -> Writers]
           /\ [writer EXCEPT ![p].pc = "delete", ![p].known = {}] \in [Proc -> Writers]
           /\ IdleWriter \in Writers
           /\ \A S \in SUBSET Event, n \in Nat :
                 [pc |-> "look", batch |-> First(S, n), known |-> {}] \in Writers
  <1> DEFINE w == writer[p]
  <1>1. w \in Writers
    OBVIOUS
  <1>2. w.batch \in SUBSET Event /\ w.known \in SUBSET Event
    BY <1>1 DEF Writers
  <1>3. \A K \in SUBSET Event : [w EXCEPT !.pc = "commit", !.known = K] \in Writers
    BY <1>1 DEF Writers, WriterPC
  <1>4. [w EXCEPT !.pc = "delete", !.known = {}] \in Writers
    BY <1>1 DEF Writers, WriterPC
  <1>5. \A v \in Writers : [writer EXCEPT ![p] = v] \in [Proc -> Writers]
    OBVIOUS
  <1>6. /\ \A K : [writer EXCEPT ![p].pc = "commit", ![p].known = K]
                   = [writer EXCEPT ![p] = [w EXCEPT !.pc = "commit", !.known = K]]
        /\ [writer EXCEPT ![p].pc = "delete", ![p].known = {}]
           = [writer EXCEPT ![p] = [w EXCEPT !.pc = "delete", !.known = {}]]
    OBVIOUS
  <1>7. IdleWriter \in Writers
    BY DEF Writers, WriterPC, IdleWriter
  <1>8. \A S \in SUBSET Event, n \in Nat :
           [pc |-> "look", batch |-> First(S, n), known |-> {}] \in Writers
    BY DEF Writers, WriterPC, First
  <1> QED BY <1>2, <1>3, <1>4, <1>5, <1>6, <1>7, <1>8

\* Every step keeps the types.
LEMMA TypeStep == IInv /\ [Next]_vars => TypeOK'
  <1> SUFFICES ASSUME IInv, [Next]_vars PROVE TypeOK'
    OBVIOUS
  <1>1. TypeOK
    BY DEF IInv
  <1>2. nextId' \in Nat /\ id' \in [Event -> 0 .. nextId'] /\ xid' \in [Event -> Nat]
    BY StoreStep, StreamStep DEF StoreGrows
  <1>3. stamp' \in [Event -> Nat]
    BY <1>1, StampStep, AppendAccepts DEF TypeOK
  <1>4. CASE UNCHANGED vars
    BY <1>1, <1>4 DEF TypeOK, vars
  <1> USE EventAssumption DEF store, redis, client, threads
  <1>5. CASE \E p \in Proc, e \in Event : Append(p, e)
    <2>1. PICK p \in Proc, e \in Event : Append(p, e)
      BY <1>5
    <2>2. /\ spool' \in {spool, spool \cup {e}}
          /\ thread' \in [Proc -> BOOLEAN] /\ faults' \in 0 .. MaxFaults
      BY <2>1, AppendStores
    <2> QED BY <1>1, <1>2, <1>3, <2>1, <2>2 DEF TypeOK, Append
  <1>6. CASE \E p \in Proc : Publish(p)
    <2>1. PICK p \in Proc : Publish(p)
      BY <1>6
    <2>2. bus' \in [Proc -> BOOLEAN] /\ faults' \in 0 .. MaxFaults
          /\ emit' = [emit EXCEPT ![p] = None]
      BY <2>1, PublishAdds
    <2> QED BY <1>1, <1>2, <1>3, <2>1, <2>2 DEF TypeOK, Publish
  <1>7. CASE \E p \in Proc : Reconnect(p)
    BY <1>1, <1>2, <1>3, <1>7 DEF TypeOK, Reconnect
  <1>8. CASE \E p \in Proc : Take(p) \/ Look(p) \/ Commit(p) \/ Conflict(p) \/ CommitFails(p)
                            \/ Delete(p)
    <2>1. PICK p \in Proc : Take(p) \/ Look(p) \/ Commit(p) \/ Conflict(p) \/ CommitFails(p)
                           \/ Delete(p)
      BY <1>8
    <2>2. writer \in [Proc -> Writers] /\ spool \in SUBSET Event /\ MaxBatch \in Nat
      BY <1>1 DEF TypeOK, Writers
    <2>a. writer' \in {[writer EXCEPT ![p] = [pc |-> "look", batch |-> First(spool, MaxBatch),
                                             known |-> {}]],
                       [writer EXCEPT ![p].pc = "commit", ![p].known = writer[p].batch \cap Stored],
                       [writer EXCEPT ![p].pc = "delete", ![p].known = {}],
                       [writer EXCEPT ![p] = IdleWriter]}
      BY <2>1 DEF Take, Look, Commit, Conflict, CommitFails, Delete
    <2>b. writer[p].batch \cap Stored \in SUBSET Event
      BY DEF Stored
    <2>3. writer' \in [Proc -> Writers]
      <3>1. /\ \A w \in Writers : [writer EXCEPT ![p] = w] \in [Proc -> Writers]
            /\ \A K \in SUBSET Event :
                  [writer EXCEPT ![p].pc = "commit", ![p].known = K] \in [Proc -> Writers]
            /\ [writer EXCEPT ![p].pc = "delete", ![p].known = {}] \in [Proc -> Writers]
            /\ IdleWriter \in Writers
            /\ [pc |-> "look", batch |-> First(spool, MaxBatch), known |-> {}] \in Writers
        BY <2>2, WriterSteps
      <3>2. /\ [writer EXCEPT ![p] = IdleWriter] \in [Proc -> Writers]
            /\ [writer EXCEPT ![p] = [pc |-> "look", batch |-> First(spool, MaxBatch),
                                      known |-> {}]] \in [Proc -> Writers]
            /\ [writer EXCEPT ![p].pc = "commit", ![p].known = writer[p].batch \cap Stored]
               \in [Proc -> Writers]
        BY <2>b, <3>1
      <3> QED BY <2>a, <3>1, <3>2
    <2>c. Fault \/ faults' = faults
      BY <2>1 DEF Take, Look, Commit, Conflict, CommitFails, Delete
    <2>d. spool' = spool \/ spool' = spool \ writer[p].batch
      BY <2>1 DEF Take, Look, Commit, Conflict, CommitFails, Delete
    <2>4. faults' \in 0 .. MaxFaults /\ spool' \in SUBSET Event
      BY <1>1, <2>2, <2>c, <2>d, FaultBound DEF TypeOK
    <2>5. UNCHANGED <<backend, due, emit, bus, thread, fin, reader, sent, crashes>>
      BY <2>1 DEF Take, Look, Commit, Conflict, CommitFails, Delete
    <2> QED BY <1>1, <1>2, <1>3, <2>3, <2>4, <2>5 DEF TypeOK, Writers
  <1>14. CASE \E p \in Proc : Crash(p)
    <2>1. PICK p \in Proc : Crash(p)
      BY <1>14
    <2>2. writer' \in [Proc -> Writers]
      BY <1>1, <2>1, WriterSteps DEF Crash, TypeOK, Writers
    <2>3. reader' \in [pc : {"read", "rows", "check", "done", "gone"}, live : Nat, row : Nat]
      BY <1>1, <2>1 DEF Crash, TypeOK, NoReader
    <2>4. crashes' \in 0 .. MaxCrashes
      <3>1. crashes \in 0 .. MaxCrashes /\ crashes < MaxCrashes /\ crashes' = crashes + 1
        BY <1>1, <2>1 DEF Crash, TypeOK
      <3> QED BY <3>1
    <2>5. /\ thread' \in [Proc -> BOOLEAN] /\ bus' \in [Proc -> BOOLEAN]
          /\ emit' \in [Proc -> Event \cup {None}]
          /\ fin' \in {"running", "flushing", "flushed", "late", "ended", "ended late"}
      BY <1>1, <2>1 DEF Crash, TypeOK
    <2>6. UNCHANGED <<backend, spool, due, sent, faults>>
      BY <2>1 DEF Crash
    <2> QED BY <1>1, <1>2, <1>3, <2>2, <2>3, <2>4, <2>5, <2>6 DEF TypeOK, Writers
  <1>15. CASE Flush \/ FlushEnds \/ Finish
    BY <1>1, <1>2, <1>3, <1>15 DEF TypeOK, Flush, FlushEnds, Finish
  <1>16. CASE ReadStream \/ ReadRows
    <2>1. sent' \in [Event -> Nat] /\ reader' \in [pc : {"read", "check"}, live : Nat, row : Nat]
      BY <1>16, ReadFacts
    <2>2. reader' \in [pc : {"read", "rows", "check", "done", "gone"}, live : Nat, row : Nat]
      BY <2>1
    <2> QED BY <1>1, <1>2, <1>3, <1>16, <2>1, <2>2 DEF TypeOK, ReadStream, ReadRows
  <1>17. CASE NoStream \/ CheckStatus \/ ReadFails
    <2>1. /\ reader \in [pc : {"read", "rows", "check", "done", "gone"}, live : Nat, row : Nat]
          /\ faults \in 0 .. MaxFaults /\ MaxFaults \in Nat /\ bus \in [Proc -> BOOLEAN]
      BY <1>1 DEF TypeOK
    <2>2. \A x \in {"read", "rows", "check", "done", "gone"} :
            [reader EXCEPT !.pc = x]
            \in [pc : {"read", "rows", "check", "done", "gone"}, live : Nat, row : Nat]
      BY <2>1
    <2>3. reader' \in [pc : {"read", "rows", "check", "done", "gone"}, live : Nat, row : Nat]
      BY <1>17, <2>2 DEF NoStream, CheckStatus, ReadFails, NoReader
    <2>a. Fault \/ faults' = faults
      BY <1>17 DEF NoStream, CheckStatus, ReadFails
    <2>b. bus' = bus \/ bus' = [bus EXCEPT ![Api] = FALSE]
      BY <1>17 DEF NoStream, CheckStatus, ReadFails
    <2>4. faults' \in 0 .. MaxFaults /\ bus' \in [Proc -> BOOLEAN]
      BY <2>1, <2>a, <2>b, FaultBound
    <2>5. UNCHANGED <<backend, spool, due, emit, thread, writer, fin, sent, crashes>>
      BY <1>17 DEF NoStream, CheckStatus, ReadFails
    <2> QED BY <1>1, <1>2, <1>3, <2>3, <2>4, <2>5 DEF TypeOK
  <1> QED
    BY <1>4, <1>5, <1>6, <1>7, <1>8, <1>14, <1>15, <1>16, <1>17
    DEF Next, WriterStep, ReaderStep, Idle

-----------------------------------------------------------------------------
\* Which steps change what the remaining parts speak of.
LEMMA OnlyReaders ==
    ASSUME TypeOK, [Next]_vars, ~(ReadStream \/ ReadRows)
    PROVE  /\ sent' = sent
           /\ \/ reader'.live = reader.live /\ reader'.row = reader.row
              \/ reader'.live = 0 /\ reader'.row = 0
  <1>1. CASE UNCHANGED <<reader, sent>>
    BY <1>1
  <1>2. CASE NoStream \/ CheckStatus \/ ReadFails \/ \E p \in Proc : Crash(p)
    <2>1. sent' = sent
      BY <1>2 DEF NoStream, CheckStatus, ReadFails, Crash
    <2>2. reader' = NoReader \/ reader' = reader \/ \E x : reader' = [reader EXCEPT !.pc = x]
      BY <1>2 DEF NoStream, CheckStatus, ReadFails, Crash
    <2>3. \A x : [reader EXCEPT !.pc = x].live = reader.live /\ [reader EXCEPT !.pc = x].row = reader.row
      BY DEF TypeOK
    <2>4. NoReader.live = 0 /\ NoReader.row = 0
      BY DEF NoReader
    <2> QED BY <2>1, <2>2, <2>3, <2>4
  <1> QED
    BY <1>1, <1>2
    DEF Next, vars, client, Append, Publish, Reconnect, WriterStep, Take, Look, Commit, Conflict,
        CommitFails, Delete, Flush, FlushEnds, Finish, ReaderStep, Idle

LEMMA OnlyEmitters ==
    ASSUME [Next]_vars
    PROVE  \/ \E p \in Proc, e \in Event : Append(p, e)
           \/ \E p \in Proc : Publish(p)
           \/ emit' = emit \/ \E p \in Proc : emit' = [emit EXCEPT ![p] = None]
  BY DEF Next, vars, Reconnect, WriterStep, Take, Look, Commit, Conflict, CommitFails, Delete,
         Crash, Flush, FlushEnds, Finish, ReaderStep, ReadStream, NoStream, ReadRows,
         CheckStatus, ReadFails, Idle

\* Stamps of accepted events stay, and no new event comes before one of them.
LEMMA StampsStay ==
    ASSUME IInv, [Next]_vars, NEW f \in Accepted
    PROVE  /\ stamp'[f] = stamp[f]
           /\ \A e \in Event : 0 < stamp'[e] /\ stamp'[e] < stamp'[f] => stamp'[e] = stamp[e]
  <1>1. CASE \E p \in Proc, e \in Event : Append(p, e)
    <2>1. PICK p \in Proc, e \in Event : Append(p, e)
      BY <1>1
    <2>2. /\ stamp' \in [Event -> Nat] /\ e \notin Accepted
          /\ \A x \in Event \ {e} : stamp'[x] = stamp[x]
          /\ \A x \in Event : stamp[x] < stamp'[e]
      BY <2>1, AppendAccepts
    <2>3. f \in Event /\ f # e /\ stamp'[f] = stamp[f] /\ stamp[f] < stamp'[e]
          /\ stamp \in [Event -> Nat]
      BY <2>2 DEF Accepted, IInv, TypeOK
    <2> QED BY <2>2, <2>3
  <1>2. CASE stamp' = stamp
    BY <1>2
  <1> QED BY <1>1, <1>2, StampStep

\* Accepted events are durable, and only they.
LEMMA CountedStep == IInv /\ [Next]_vars => NothingLost' /\ Counted'
  <1> SUFFICES ASSUME IInv, [Next]_vars PROVE NothingLost' /\ Counted'
    OBVIOUS
  <1>1. NothingLost' /\ Durable' \subseteq Accepted' /\ due' \subseteq Accepted'
        /\ \A e \in Event : stamp'[e] <= Cardinality(Accepted)'
    <2>1. CASE \E p \in Proc, e \in Event : Append(p, e)
      <3>1. PICK p \in Proc, e \in Event : Append(p, e)
        BY <2>1
      <3>2. Accepted' = Accepted \cup {e} /\ \A f \in Event : stamp'[f] <= Cardinality(Accepted')
        BY <3>1, AppendAccepts
      <3>3. spool' \in {spool, spool \cup {e}} /\ Stored' \in {Stored, Stored \cup {e}}
            /\ e \in Durable'
        BY <3>1, AppendStores
      <3>4. Durable \subseteq Durable'
        BY DurableStep
      <3>5. due' \subseteq due \cup {e}
        BY <3>1 DEF Append
      <3> QED BY <3>2, <3>3, <3>4, <3>5 DEF IInv, NothingLost, Counted, Durable
    <2>2. CASE ~ \E p \in Proc, e \in Event : Append(p, e)
      <3>1. stamp' = stamp /\ Accepted' = Accepted
        BY <2>2, StampStep
      <3>2. Durable \subseteq Durable' /\ Durable' \subseteq Durable
        BY <2>2, DurableStep
      <3>3. due' = due
        BY <2>2
        DEF Next, vars, Publish, Reconnect, WriterStep, Take, Look, Commit, Conflict,
            CommitFails, Delete, Crash, Flush, FlushEnds, Finish, ReaderStep, ReadStream,
            NoStream, ReadRows, CheckStatus, ReadFails, Idle
      <3> QED BY <3>1, <3>2, <3>3 DEF IInv, NothingLost, Counted
    <2> QED BY <2>1, <2>2
  <1>2. \A e \in Event : xid'[e] <= Entries'
    BY StreamStep
  <1>3. reader'.live <= Entries' /\ reader'.row <= nextId'
    <2>1. CASE ReadStream \/ ReadRows
      BY <2>1, ReadFacts
    <2>2. CASE ~(ReadStream \/ ReadRows)
      <3>1. /\ Entries \in Nat /\ Entries' \in Nat /\ Entries <= Entries'
            /\ nextId \in Nat /\ nextId' \in Nat /\ nextId <= nextId'
        BY StreamStep, StoreStep, Finite DEF Entries, StoreGrows, IInv, TypeOK
      <3>2. reader.live \in Nat /\ reader.row \in Nat
        BY DEF IInv, TypeOK
      <3>3. reader.live <= Entries /\ reader.row <= nextId
        BY DEF IInv, Counted
      <3> QED BY <2>2, <3>1, <3>2, <3>3, OnlyReaders DEF IInv
    <2> QED BY <2>1, <2>2
  <1> QED BY <1>1, <1>2, <1>3 DEF Counted

\* What is published or sent is durable.
LEMMA SentStep == IInv /\ [Next]_vars => SentIsDurable'
  <1> SUFFICES ASSUME IInv, [Next]_vars PROVE SentIsDurable'
    OBVIOUS
  <1>1. CASE ReadStream \/ ReadRows
    BY <1>1, ReadFacts
  <1>2. CASE ~(ReadStream \/ ReadRows)
    <2>1. sent' = sent /\ Durable \subseteq Durable'
      BY <1>2, OnlyReaders, DurableStep DEF IInv
    <2>2. ASSUME NEW e \in Event, xid'[e] > 0, xid'[e] # xid[e]
          PROVE  e \in Durable
      <3>1. PICK p \in Proc : Publish(p) /\ e = emit[p]
        BY <2>2, StreamStep
      <3> QED BY <3>1 DEF Publish, IInv, EmitIsNew
    <2> QED BY <2>1, <2>2 DEF SentIsDurable, IInv
  <1> QED BY <1>1, <1>2

\* The client gets nothing twice, and the cursors skip nothing.
LEMMA ReaderInv == IInv /\ [Next]_vars => OncePerReader' /\ CursorsSkipNothing'
  <1> SUFFICES ASSUME IInv, [Next]_vars PROVE OncePerReader' /\ CursorsSkipNothing'
    OBVIOUS
  <1>1. CASE ReadStream \/ ReadRows
    BY <1>1, ReadFacts
  <1>2. CASE ~(ReadStream \/ ReadRows)
    <2>1. /\ sent' = sent
          /\ \/ reader'.live = reader.live /\ reader'.row = reader.row
             \/ reader'.live = 0 /\ reader'.row = 0
      BY <1>2, OnlyReaders DEF IInv
    <2>2. /\ reader.live \in Nat /\ reader.row \in Nat /\ nextId \in Nat
          /\ id \in [Event -> 0 .. nextId] /\ xid \in [Event -> Nat]
      BY DEF IInv, TypeOK
    <2>3. reader.live <= Entries /\ reader.row <= nextId /\ Entries \in Nat
      BY Finite DEF IInv, Counted, Entries
    <2>4. /\ \A e \in Event : id[e] > 0 => id'[e] = id[e]
          /\ \A e \in Event : id[e] = 0 /\ id'[e] > 0 => nextId < id'[e]
          /\ id' \in [Event -> Nat]
      BY StoreStep DEF StoreGrows
    <2>5. /\ \A e \in Event : xid'[e] # xid[e] => Entries < xid'[e]
          /\ xid' \in [Event -> Nat]
      BY StreamStep
    <2>6. ASSUME NEW e \in Event, id'[e] \in 1 .. reader'.row
          PROVE  id[e] \in 1 .. reader.row
      BY <2>1, <2>2, <2>3, <2>4, <2>6
    <2>7. ASSUME NEW e \in Event, xid'[e] \in 1 .. reader'.live
          PROVE  xid[e] \in 1 .. reader.live
      BY <2>1, <2>2, <2>3, <2>5, <2>7
    <2> QED BY <2>1, <2>6, <2>7 DEF IInv, OncePerReader, CursorsSkipNothing
  <1> QED BY <1>1, <1>2

\* A process publishes what is durable and new, and no other process does.
LEMMA EmitStep == IInv /\ [Next]_vars => EmitIsNew' /\ EmitOnce'
  <1> SUFFICES ASSUME IInv, [Next]_vars PROVE EmitIsNew' /\ EmitOnce'
    OBVIOUS
  <1> USE DEF EmitIsNew, EmitOnce
  <1>1. emit \in [Proc -> Event \cup {None}] /\ xid \in [Event -> Nat]
        /\ EmitIsNew /\ EmitOnce /\ Durable \subseteq Accepted /\ Durable \subseteq Durable'
    BY DurableStep DEF IInv, TypeOK, Counted
  <1>2. CASE \E p \in Proc, e \in Event : Append(p, e)
    <2>1. PICK p \in Proc, e \in Event : Append(p, e)
      BY <1>2
    <2>2. e \notin Accepted /\ e \in Durable'
      BY <2>1, AppendAccepts, AppendStores
    <2>3. xid[e] = 0 /\ xid' = xid
      BY <1>1, <2>1, <2>2 DEF IInv, SentIsDurable, Append, redis
    <2>4. emit' = [emit EXCEPT ![p] = e]
      BY <2>1 DEF Append
    <2>5. \A q \in Proc : emit'[q] = IF q = p THEN e ELSE emit[q]
      BY <1>1, <2>4
    <2>6. \A q \in Proc : emit[q] # e
      BY <1>1, <2>2, EventAssumption
    <2> QED BY <1>1, <2>2, <2>3, <2>5, <2>6
  <1>3. CASE \E p \in Proc : Publish(p)
    <2>1. PICK p \in Proc : Publish(p)
      BY <1>3
    <2>2. /\ emit' = [emit EXCEPT ![p] = None] /\ emit[p] # None
          /\ \A e \in Event : xid'[e] # xid[e] => e = emit[p]
      BY <2>1, PublishAdds DEF Publish
    <2>3. \A q \in Proc : emit'[q] = IF q = p THEN None ELSE emit[q]
      BY <1>1, <2>2
    <2>4. \A q \in Proc : q # p /\ emit[q] # None => emit[q] # emit[p] /\ emit[q] \in Event
      BY <1>1, <2>2
    <2> QED BY <1>1, <2>2, <2>3, <2>4
  <1>4. CASE ~ \E p \in Proc : Publish(p)
    <2>1. CASE emit' = emit \/ \E p \in Proc : emit' = [emit EXCEPT ![p] = None]
      <3>1. \A q \in Proc : emit'[q] \in {None, emit[q]}
        BY <1>1, <2>1
      <3>2. \A e \in Event : xid'[e] = xid[e]
        BY <1>4, StreamStep
      <3>3. \A q \in Proc : emit[q] # None => emit[q] \in Event
        BY <1>1
      <3> QED BY <1>1, <3>1, <3>2, <3>3
    <2> QED BY <1>2, <1>4, <2>1, OnlyEmitters
  <1> QED BY <1>3, <1>4

-----------------------------------------------------------------------------
\* What a step makes of the state of a thread.
LEMMA WriterMoves ==
    ASSUME IInv, [Next]_vars, NEW q \in Proc
    PROVE  \/ writer'[q] = writer[q]
           \/ writer'[q] = IdleWriter
           \/ /\ writer'[q].batch = First(spool, MaxBatch)
              /\ writer'[q].known = {} /\ writer'[q].pc = "look"
           \/ /\ writer'[q].batch = writer[q].batch
              /\ writer'[q].known = writer[q].batch \cap Stored /\ writer'[q].pc = "commit"
           \/ /\ writer'[q].batch = writer[q].batch /\ writer'[q].known = {}
              /\ Commit(q)
  <1>1. writer \in [Proc -> [pc : WriterPC, batch : SUBSET Event, known : SUBSET Event]]
    BY DEF IInv, TypeOK
  <1>2. CASE writer' = writer
    BY <1>2
  <1>3. CASE \E p \in Proc : writer' = [writer EXCEPT ![p] = IdleWriter]
    BY <1>1, <1>3
  <1>4. CASE \E p \in Proc : Take(p)
    <2>1. PICK p \in Proc : writer' = [writer EXCEPT ![p] = [pc |-> "look",
                                batch |-> First(spool, MaxBatch), known |-> {}]]
      BY <1>4 DEF Take
    <2> QED BY <1>1, <2>1
  <1>5. CASE \E p \in Proc : Look(p)
    <2>1. PICK p \in Proc : writer' = [writer EXCEPT ![p].pc = "commit",
                                ![p].known = writer[p].batch \cap Stored]
      BY <1>5 DEF Look
    <2> QED BY <1>1, <2>1
  <1>6. CASE \E p \in Proc : Commit(p)
    <2>1. PICK p \in Proc : Commit(p)
      BY <1>6
    <2>2. writer' = [writer EXCEPT ![p].pc = "delete", ![p].known = {}]
      BY <2>1 DEF Commit
    <2> QED BY <1>1, <2>1, <2>2
  <1> QED
    BY <1>2, <1>3, <1>4, <1>5, <1>6
    DEF Next, vars, threads, Append, Publish, Reconnect, WriterStep, Conflict, CommitFails, Delete,
        Crash, Flush, FlushEnds, Finish, ReaderStep, ReadStream, NoStream, ReadRows,
        CheckStatus, ReadFails, Idle

\* A thread holds durable events, and stored ones when it deletes them.
LEMMA BatchStep == IInv /\ [Next]_vars => BatchSafe'
  <1> SUFFICES ASSUME IInv, [Next]_vars, NEW q \in Proc
               PROVE  /\ writer'[q].batch \subseteq Durable'
                      /\ writer'[q].known \subseteq Stored'
                      /\ writer'[q].pc = "delete" => writer'[q].batch \subseteq Stored'
    BY DEF BatchSafe
  <1>1. /\ writer[q].batch \subseteq Durable /\ writer[q].known \subseteq Stored
        /\ writer[q].pc = "delete" => writer[q].batch \subseteq Stored
    BY DEF IInv, BatchSafe
  <1>2. Durable \subseteq Durable' /\ Stored \subseteq Stored'
    BY DurableStep
  <1>3. CASE writer'[q] = writer[q] \/ writer'[q] = IdleWriter
    BY <1>1, <1>2, <1>3 DEF IdleWriter
  <1>4. CASE /\ writer'[q].batch = First(spool, MaxBatch)
             /\ writer'[q].known = {} /\ writer'[q].pc = "look"
    BY <1>2, <1>4 DEF First, Durable
  <1>5. CASE /\ writer'[q].batch = writer[q].batch
             /\ writer'[q].known = writer[q].batch \cap Stored /\ writer'[q].pc = "commit"
    BY <1>1, <1>2, <1>5
  <1>6. CASE /\ writer'[q].batch = writer[q].batch /\ writer'[q].known = {}
             /\ Commit(q)
    <2>1. Missing(writer[q]) \in SUBSET Event /\ Missing(writer[q]) \cap Stored = {}
          /\ Insert(Missing(writer[q]))
      BY <1>6 DEF Commit, Missing, IInv, TypeOK
    <2>2. Stored' = Stored \cup Missing(writer[q])
      BY <2>1, InsertAdds DEF IInv
    <2>3. writer[q].batch \subseteq Stored'
      BY <1>1, <2>2 DEF Missing
    <2> QED BY <1>1, <1>2, <1>6, <2>3
  <1> QED BY <1>3, <1>4, <1>5, <1>6, WriterMoves

\* With MySQL a batch is closed under what is older and not stored.
LEMMA OldestStep == IInv /\ [Next]_vars => BatchOldest'
  <1>1. ASSUME IInv, [Next]_vars, backend' # "sqlite",
               NEW q \in Proc, NEW e \in Event, NEW f \in writer'[q].batch,
               0 < stamp'[e], stamp'[e] < stamp'[f]
        PROVE  e \in writer'[q].batch \cup Stored'
    <2> USE <1>1
    <2>1. backend # "sqlite"
      BY DEF Next, vars, Append, Publish, Reconnect, WriterStep, Take, Look, Commit, Conflict,
         CommitFails, Delete, Crash, Flush, FlushEnds, Finish, ReaderStep, ReadStream, NoStream,
         ReadRows, CheckStatus, ReadFails, Idle
    <2>2. writer'[q].batch = writer[q].batch \/ writer'[q].batch = First(spool, MaxBatch)
      <3>1. IdleWriter.batch = {}
        BY DEF IdleWriter
      <3> QED BY <3>1, WriterMoves
    <2>3. f \in Durable /\ f \in Accepted /\ f \in Event
      BY <2>2 DEF IInv, BatchSafe, First, Counted, Durable, Accepted
    <2>4. stamp'[f] = stamp[f] /\ stamp'[e] = stamp[e]
      BY <2>3, StampsStay
    <2>5. Stored \subseteq Stored'
      BY DurableStep
    <2>6. CASE writer'[q].batch = writer[q].batch
      BY <2>1, <2>4, <2>5, <2>6 DEF IInv, BatchOldest
    <2>7. CASE writer'[q].batch = First(spool, MaxBatch)
      <3>1. f \in spool /\ Rank(spool, f) <= MaxBatch
        BY <2>7 DEF First
      <3>2. e \in spool \/ e \in Stored
        BY <2>4 DEF IInv, NothingLost, Accepted, Durable
      <3>3. CASE e \in spool
        <4>1. stamp \in [Event -> Nat] /\ spool \in SUBSET Event
          BY DEF IInv, TypeOK
        <4>2. Rank(spool, e) < Rank(spool, f) /\ Rank(spool, e) \in Nat /\ Rank(spool, f) \in Nat
          BY <2>3, <2>4, <3>1, <3>3, <4>1, Ranks
        <4>3. Rank(spool, e) <= MaxBatch
          BY <3>1, <4>2, EventAssumption
        <4> QED BY <2>7, <3>3, <4>3 DEF First
      <3> QED BY <2>5, <3>2, <3>3
    <2> QED BY <2>2, <2>6, <2>7
  <1> QED BY <1>1 DEF BatchOldest

\* With MySQL the history stays a numbered prefix of the appends.
LEMMA OrderStep == IInv /\ [Next]_vars => InOrder'
  <1>1. ASSUME IInv, [Next]_vars, backend' # "sqlite",
               NEW e \in Event, NEW f \in Event,
               0 < stamp'[e], stamp'[e] < stamp'[f], id'[f] > 0
        PROVE  0 < id'[e] /\ id'[e] < id'[f]
    <2> USE <1>1
    <2>1. backend # "sqlite"
      BY DEF Next, vars, Append, Publish, Reconnect, WriterStep, Take, Look, Commit, Conflict,
         CommitFails, Delete, Crash, Flush, FlushEnds, Finish, ReaderStep, ReadStream, NoStream,
         ReadRows, CheckStatus, ReadFails, Idle
    <2>2. /\ nextId \in Nat /\ id \in [Event -> 0 .. nextId]
          /\ nextId' \in Nat /\ id' \in [Event -> 0 .. nextId']
          /\ \A x \in Event : id[x] > 0 => id'[x] = id[x]
          /\ \A x \in Event : id[x] = 0 /\ id'[x] > 0 => nextId < id'[x]
      BY StoreStep DEF StoreGrows, IInv, TypeOK
    <2>3. CASE id' = id
      <3>1. f \in Accepted
        BY <2>3 DEF IInv, Counted, Durable, Stored
      <3>2. stamp'[f] = stamp[f] /\ stamp'[e] = stamp[e]
        BY <3>1, StampsStay
      <3> QED BY <2>1, <2>3, <3>2 DEF IInv, InOrder
    <2>4. CASE id' # id
      <3>1. PICK p \in Proc : Commit(p) \/ CommitFails(p)
        BY <2>1, <2>4, AppendStores
        DEF Next, vars, store, Publish, Reconnect, WriterStep, Take, Look, Conflict, Delete,
            Crash, Flush, FlushEnds, Finish, ReaderStep, ReadStream, NoStream, ReadRows,
            CheckStatus, ReadFails, Idle
      <3> DEFINE M == Missing(writer[p])
      <3>2. M \cap Stored = {} /\ Insert(M)
        BY <2>4, <3>1, CommitStores
      <3>3. M \in SUBSET Event /\ TypeOK
        BY DEF Missing, IInv, TypeOK
      <3>4. /\ Stored' = Stored \cup M
            /\ \A x, y \in M : stamp[x] < stamp[y] => id'[x] < id'[y]
        BY <3>2, <3>3, InsertAdds
      <3>5. stamp' = stamp
        BY <3>1 DEF Commit, CommitFails
      <3>6. CASE f \in Stored
        BY <2>1, <2>2, <3>5, <3>6 DEF IInv, InOrder, Stored
      <3>7. CASE f \in M
        <4>1. e \in writer[p].batch \cup Stored
          BY <2>1, <3>5, <3>7 DEF IInv, BatchOldest, Missing
        <4>2. e \in M \cup Stored
          BY <4>1 DEF IInv, BatchSafe, Missing
        <4>3. CASE e \in M
          <5>1. id'[e] < id'[f] /\ e \in Stored'
            BY <3>4, <3>5, <3>7, <4>3
          <5> QED BY <5>1 DEF Stored
        <4>4. CASE e \in Stored
          <5>1. f \notin Stored
            BY <3>2, <3>7
          <5>2. id[f] = 0
            BY <2>2, <5>1 DEF Stored
          <5> QED BY <2>2, <4>4, <5>2 DEF Stored
        <4> QED BY <4>2, <4>3, <4>4
      <3>8. f \in Stored'
        BY DEF Stored
      <3> QED BY <3>4, <3>6, <3>7, <3>8
    <2> QED BY <2>3, <2>4
  <1> QED BY <1>1 DEF InOrder

\* An outbox that was seen empty left nothing of the worker behind.
LEMMA FlushStep == IInv /\ [Next]_vars => FlushedIsStored'
  <1> SUFFICES ASSUME IInv, [Next]_vars, fin' \in {"flushed", "ended"}
               PROVE  due' \subseteq Stored'
    BY DEF FlushedIsStored
  <1>1. Stored \subseteq Stored' /\ (fin \in {"flushed", "ended"} => due \subseteq Stored)
    BY DurableStep DEF IInv, FlushedIsStored
  <1>2. CASE FlushEnds
    <2>1. spool = {} /\ due' = due
      BY <1>2 DEF FlushEnds
    <2>2. due \subseteq Stored
      BY <2>1 DEF IInv, Counted, NothingLost, Durable
    <2> QED BY <1>1, <2>1, <2>2
  <1>3. CASE ~FlushEnds
    <2>1. fin \in {"flushed", "ended"} /\ due' = due
      BY <1>3
      DEF Next, vars, Append, Publish, Reconnect, WriterStep, Take, Look, Commit, Conflict,
          CommitFails, Delete, Crash, Flush, Finish, Ended, ReaderStep, ReadStream, NoStream,
          ReadRows, CheckStatus, ReadFails, Idle
    <2> QED BY <1>1, <2>1
  <1> QED BY <1>2, <1>3

LEMMA NextInv == IInv /\ [Next]_vars => IInv'
  <1> SUFFICES ASSUME IInv, [Next]_vars PROVE IInv'
    OBVIOUS
  <1>1. TypeOK' /\ NothingLost' /\ Counted' /\ SentIsDurable'
    BY TypeStep, CountedStep, SentStep
  <1>2. OncePerReader' /\ CursorsSkipNothing' /\ EmitIsNew' /\ EmitOnce'
    BY ReaderInv, EmitStep
  <1>3. BatchSafe' /\ BatchOldest' /\ InOrder' /\ FlushedIsStored'
    BY BatchStep, OldestStep, OrderStep, FlushStep
  <1> QED BY <1>1, <1>2, <1>3 DEF IInv

\* The inductive invariant holds for any number of processes, events, faults and crashes.
THEOREM Invariance == Spec => []IInv
  BY InitInv, NextInv, PTL DEF Spec

\* Every variable keeps its type.
THEOREM TypeCorrect == Spec => []TypeOK
  <1>1. IInv => TypeOK
    BY DEF IInv
  <1> QED BY Invariance, <1>1, PTL

\* No accepted event is lost, however many threads drain the outbox and whatever fails.
THEOREM NoEventIsLost == Spec => []NothingLost
  <1>1. IInv => NothingLost
    BY DEF IInv
  <1> QED BY Invariance, <1>1, PTL

\* What a client was shown, or can read from Redis, is durable.
THEOREM ShownIsDurable == Spec => []SentIsDurable
  <1>1. IInv => SentIsDurable
    BY DEF IInv
  <1> QED BY Invariance, <1>1, PTL

\* With MySQL the history is a prefix of the appends, numbered in their order.
THEOREM HistoryInOrder == Spec => []InOrder
  <1>1. IInv => InOrder
    BY DEF IInv
  <1> QED BY Invariance, <1>1, PTL

\* The history is complete when the end of a flushed task becomes visible.
THEOREM FlushCompletes == Spec => []FlushedIsComplete
  <1>1. IInv => FlushedIsComplete
    BY DEF IInv, FlushedIsStored, FlushedIsComplete
  <1> QED BY Invariance, <1>1, PTL

\* A client gets an event at most once.
THEOREM SentOnce == Spec => []OncePerReader
  <1>1. IInv => OncePerReader
    BY DEF IInv
  <1> QED BY Invariance, <1>1, PTL

\* Neither cursor passes over an event.
THEOREM NoEventSkipped == Spec => []CursorsSkipNothing
  <1>1. IInv => CursorsSkipNothing
    BY DEF IInv
  <1> QED BY Invariance, <1>1, PTL

\* Together: a client gets an event at most once and its cursors pass over none.
THEOREM StreamIsSound == Spec => []StreamSound
  <1>1. IInv => StreamSound
    BY DEF IInv, StreamSound
  <1> QED BY Invariance, <1>1, PTL

\* No replay renumbers a stored event.
THEOREM RowsAreFinal == Spec => IdsAreFinal
  <1>1. IInv /\ [Next]_vars => [\A e \in Event : id[e] > 0 => id'[e] = id[e]]_vars
    <2> SUFFICES ASSUME IInv, [Next]_vars PROVE \A e \in Event : id[e] > 0 => id'[e] = id[e]
      OBVIOUS
    <2> QED BY StoreStep DEF StoreGrows
  <1> QED BY Invariance, <1>1, PTL DEF Spec, IdsAreFinal

=============================================================================
