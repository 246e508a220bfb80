----------------------------- MODULE MemoryStore -----------------------------
(* The memories of one user in one scope: rows of MySQL, the source of truth, *)
(* and the semantic index that mirrors them after each commit, best effort.  *)
(* Requests and extractions read before they write, in any interleaving.     *)
EXTENDS Naturals, Sequences, FiniteSets

CONSTANTS
    Memory,       \* identifiers, a fresh one per inserted row
    Key, Value,   \* normalised keys and values
    Writer,       \* requests and extractions in flight
    NoMemory,     \* no row found
    MaxRecords,   \* memory_max_records_per_user
    MaxCommits    \* bound: upserts that commit

ASSUME MemoryStoreAssumption ==
    /\ NoMemory \notin Memory \union Key \union Value /\ {MaxRecords, MaxCommits} \subseteq Nat
    /\ IsFiniteSet(Writer) /\ Writer # {}
    /\ MaxCommits <= 20   \* a row keeps the newest 20 values it had

VARIABLES
    memory,     \* the rows present: key, value, history of values
    index,      \* identifiers with an entry in the index
    writer,     \* per request: its place, the row and fields it works with
    forgotten,  \* history: identifiers whose row was deleted
    stored      \* history: what each commit wrote

memoryVars == <<memory, index, writer, forgotten, stored>>

Ids == DOMAIN memory
WithKey(k) == {m \in Ids : memory[m].key = k}
NoWork == [pc |-> "idle", id |-> NoMemory, key |-> NoMemory, value |-> NoMemory,
           tries |-> 0, ids |-> {}, before |-> {}]

MemoryInit ==
    /\ memory = << >> /\ index = {} /\ forgotten = {} /\ stored = {}
    /\ writer = [w \in Writer |-> NoWork]

(* A new memory is looked up by its key; an edit keeps the id it read for its
   later upsert, and so does an extraction that found a row to merge with: the
   one with its key, or a similar one, whose key it then stores again. *)
BeginCreate(w, k, v) ==
    /\ writer[w] = NoWork
    /\ writer' = [writer EXCEPT ![w] = [NoWork EXCEPT !.pc = "upsert", !.key = k, !.value = v]]
    /\ UNCHANGED <<memory, index, forgotten, stored>>
BeginEdit(w, m, k, v) ==
    /\ writer[w] = NoWork /\ m \in Ids
    /\ writer' = [writer EXCEPT ![w] = [NoWork EXCEPT !.pc = "upsert", !.id = m,
           !.key = k, !.value = v]]
    /\ UNCHANGED <<memory, index, forgotten, stored>>

BeginMerge(w, m, v) == m \in Ids /\ BeginEdit(w, m, memory[m].key, v)

(* upsert reads its row for update. Without one, and below the limit, it goes
   on to insert, and the limit is not looked at again. *)
Target(w) == IF writer[w].id # NoMemory THEN {writer[w].id} \intersect Ids
             ELSE WithKey(writer[w].key)
\* Mutant: the row is not read for update.
NoLock(w, m) == TRUE
Unlocked(w, m) == \A u \in Writer \ {w} : ~(writer[u].pc = "update" /\ writer[u].ids = {m})
Replaced(row, k, v) ==
    [key |-> k, value |-> v,
     history |-> IF row.value = v THEN row.history ELSE Append(row.history, row.value)]
ReadRow(w) ==
    /\ writer[w].pc = "upsert"
    /\ \/ \E m \in Target(w) :
             /\ Unlocked(w, m)
             /\ writer' = [writer EXCEPT ![w].pc = "update", ![w].ids = {m}, ![w].before =
                    {Replaced(memory[m], writer[w].key, writer[w].value)}]
       \/ /\ Target(w) = {}
          /\ writer' = [writer EXCEPT ![w] = IF Cardinality(Ids) < MaxRecords
                                             THEN [@ EXCEPT !.pc = "insert"] ELSE NoWork]
    /\ UNCHANGED <<memory, index, forgotten, stored>>

(* The unique key of the table refuses a second row: the upsert starts once
   more, and then gives up. *)
Clash(w, m) == WithKey(writer[w].key) \ {m} # {}
TryAgain(w) ==
    IF writer[w].tries = 0
    THEN [writer[w] EXCEPT !.pc = "upsert", !.tries = 1, !.ids = {}, !.before = {}]
    ELSE NoWork
Mirror(w, m) == [NoWork EXCEPT !.pc = "mirror", !.id = m]
CommitUpdate(w) ==
    /\ writer[w].pc = "update" /\ Cardinality(stored) < MaxCommits
    /\ \E m \in writer[w].ids, row \in writer[w].before :
          IF Clash(w, m)
          THEN /\ writer' = [writer EXCEPT ![w] = TryAgain(w)]
               /\ UNCHANGED <<memory, stored>>
          ELSE /\ memory' = [memory EXCEPT ![m] = row]
               /\ stored' = stored \union {<<Cardinality(stored), m, row.value>>}
               /\ writer' = [writer EXCEPT ![w] = Mirror(w, m)]
    /\ UNCHANGED <<index, forgotten>>
CommitInsert(w, m) ==
    /\ writer[w].pc = "insert" /\ Cardinality(stored) < MaxCommits
    /\ m \in Memory \ (Ids \union forgotten)
    /\ IF Clash(w, m)
       THEN /\ writer' = [writer EXCEPT ![w] = TryAgain(w)]
            /\ UNCHANGED <<memory, stored>>
       ELSE /\ memory' = [n \in Ids \union {m} |-> IF n # m THEN memory[n] ELSE
                   [key |-> writer[w].key, value |-> writer[w].value, history |-> << >>]]
            /\ stored' = stored \union {<<Cardinality(stored), m, writer[w].value>>}
            /\ writer' = [writer EXCEPT ![w] = Mirror(w, m)]
    /\ UNCHANGED <<index, forgotten>>

(* The index is told after the commit; it may be out of reach. *)
MirrorUpsert(w) ==
    /\ writer[w].pc = "mirror"
    /\ index' \in {index, index \union {writer[w].id}}
    /\ writer' = [writer EXCEPT ![w] = NoWork]
    /\ UNCHANGED <<memory, forgotten, stored>>

(* delete, clear and purge_expired: identifiers are read, the rows deleted for
   good, then the entries one by one. The deletion may also find rows that
   were inserted after the identifiers were read. *)
DeleteRows(w, gone, ids) ==
    /\ writer[w] = NoWork /\ ids # {} /\ ids \subseteq gone /\ gone \subseteq Ids
    /\ \A m \in gone : Unlocked(w, m)
    /\ memory' = [m \in Ids \ gone |-> memory[m]]
    /\ forgotten' = forgotten \union gone
    /\ writer' = [writer EXCEPT ![w] = [NoWork EXCEPT !.pc = "unmirror", !.ids = ids]]
    /\ UNCHANGED <<index, stored>>
MirrorDelete(w) ==
    /\ writer[w].pc = "unmirror"
    /\ \E m \in writer[w].ids :
          /\ index' \in {index, index \ {m}}
          /\ writer' = [writer EXCEPT ![w] = IF @.ids = {m} THEN NoWork
                                             ELSE [@ EXCEPT !.ids = writer[w].ids \ {m}]]
    /\ UNCHANGED <<memory, forgotten, stored>>

(* recall reads the rows, then asks the index: its hits only rank rows. *)
BeginRecall(w) ==
    /\ writer[w] = NoWork
    /\ writer' = [writer EXCEPT ![w] = [NoWork EXCEPT !.pc = "recall", !.ids = Ids,
           !.before = forgotten]]
    /\ UNCHANGED <<memory, index, forgotten, stored>>
Recall(w) ==
    /\ writer[w].pc = "recall"
    /\ \E named \in SUBSET writer[w].ids :
          writer' = [writer EXCEPT ![w].pc = "recalled",
                                   ![w].ids = named \union (@ \intersect index)]
    /\ UNCHANGED <<memory, index, forgotten, stored>>
EndWork(w) ==
    /\ writer[w].pc # "idle" /\ writer' = [writer EXCEPT ![w] = NoWork]
    /\ UNCHANGED <<memory, index, forgotten, stored>>

MemoryNext ==
    \E w \in Writer :
        \/ ReadRow(w) \/ CommitUpdate(w) \/ MirrorUpsert(w) \/ MirrorDelete(w)
        \/ BeginRecall(w) \/ Recall(w) \/ EndWork(w)
        \/ \E gone, ids \in SUBSET Memory : DeleteRows(w, gone, ids)
        \/ \E m \in Memory : CommitInsert(w, m)
        \/ \E k \in Key, v \in Value :
              BeginCreate(w, k, v) \/ \E m \in Memory : BeginEdit(w, m, k, v)
        \/ \E m \in Memory, v \in Value : BeginMerge(w, m, v)
MemorySpec == MemoryInit /\ [][MemoryNext]_memoryVars
----------------------------------------------------------------------------
MemoryTypeOK ==
    /\ Ids \subseteq Memory /\ index \subseteq Memory /\ forgotten \subseteq Memory
    /\ \A m \in Ids : memory[m] \in [key: Key, value: Value, history: Seq(Value)]
    /\ \A w \in Writer : writer[w].pc \in {"idle", "upsert", "update", "insert", "mirror",
                                           "unmirror", "recall", "recalled"}

(* While a memory exists no value that was saved for it is lost: it is the
   current one or in the history, although edits work with values they read
   earlier. A forgotten memory is never recalled by a request that began
   later, although the index may keep its entry. And concurrent creations
   exceed the limit by at most one row each (memory/service.py). *)
NoValueLost ==
    \A s \in stored : s[2] \in Ids =>
        \/ memory[s[2]].value = s[3]
        \/ \E i \in DOMAIN memory[s[2]].history : memory[s[2]].history[i] = s[3]
ForgottenStaysForgotten ==
    \A w \in Writer : writer[w].pc = "recalled" => writer[w].ids \intersect writer[w].before = {}
LimitOverrun == Cardinality(Ids) <= MaxRecords + Cardinality(Writer) - 1
MemoriesKept == NoValueLost /\ ForgottenStaysForgotten /\ LimitOverrun
=============================================================================
