----------------------------- MODULE MemoryJobs -----------------------------
(* The durable queue of memory extractions: a row per finished task, workers *)
(* that claim, extract and settle it, and the recovery at each worker start, *)
(* which also takes back rows another worker is still executing. The Redis   *)
(* list only shortens the poll of the rows and is left out.                  *)
EXTENDS Naturals

CONSTANTS
    MemoryJob,     \* identifiers of memory_extraction_jobs rows, one per task
    MemoryWorker,  \* worker processes, each with one extraction at a time
    NoJob,         \* a worker without a job
    MaxStarts      \* bound: how often worker processes start

ASSUME MemoryJobsAssumption == NoJob \notin MemoryJob /\ MaxStarts \in Nat

VARIABLES
    memoryJob,     \* the rows: status and attempts
    extractor,     \* per worker: down, or its place in execute_memory_job
    extracted,     \* the jobs whose memories have been stored
    starts         \* history: how often a worker has started

memoryJobVars == <<memoryJob, extractor, extracted, starts>>

At(pc, j) == [pc |-> pc, job |-> j]

MemoryJobsInit ==
    /\ memoryJob = [j \in MemoryJob |-> [status |-> "absent", attempts |-> 0]]
    /\ extractor = [w \in MemoryWorker |-> At("down", NoJob)]
    /\ extracted = {} /\ starts = 0

(* enqueue, when the user's settings allow it; a task has at most one row. *)
EnqueueMemory(j) ==
    /\ memoryJob[j].status = "absent"
    /\ memoryJob' = [memoryJob EXCEPT ![j].status = "queued"]
    /\ UNCHANGED <<extractor, extracted, starts>>

(* run_memory_worker starts with wake_recovered. *)
\* Mutant: the rows a worker left running stay as they are.
KeepRunning(row) == row
Recovered(row) == IF row.status = "running" THEN [row EXCEPT !.status = "queued"] ELSE row
StartMemoryWorker(w) ==
    /\ extractor[w].pc = "down" /\ starts < MaxStarts
    /\ starts' = starts + 1
    /\ extractor' = [extractor EXCEPT ![w] = At("idle", NoJob)]
    /\ memoryJob' = [j \in MemoryJob |-> Recovered(memoryJob[j])]
    /\ UNCHANGED extracted

(* next returns a queued row, which may be claimed by another worker by the
   time this one updates it. *)
NextMemory(w) ==
    /\ extractor[w].pc = "idle"
    /\ \E j \in MemoryJob : /\ memoryJob[j].status = "queued"
                            /\ extractor' = [extractor EXCEPT ![w] = At("next", j)]
    /\ UNCHANGED <<memoryJob, extracted, starts>>
ClaimMemory(w) ==
    LET j == extractor[w].job
        free == memoryJob[j].status = "queued"
    IN  /\ extractor[w].pc = "next"
        /\ memoryJob' = IF free
               THEN [memoryJob EXCEPT ![j].status = "running", ![j].attempts = @ + 1]
               ELSE memoryJob
        /\ extractor' = [extractor EXCEPT ![w] = IF free THEN At("extract", j)
                                                 ELSE At("idle", NoJob)]
        /\ UNCHANGED <<extracted, starts>>

(* auto_extract within its timeout, usage and event: an exception may come
   before or after the memories are stored. *)
Extract(w, stored, ok) ==
    /\ extractor[w].pc = "extract" /\ (ok => stored)
    /\ extracted' = IF stored THEN extracted \union {extractor[w].job} ELSE extracted
    /\ extractor' = [extractor EXCEPT ![w].pc = IF ok THEN "complete" ELSE "fail"]
    /\ UNCHANGED <<memoryJob, starts>>

(* The outcome is stored by id: the status found there is not compared. *)
\* Mutant: a failed extraction is always tried again.
AlwaysAgain(row) == "queued"
AfterFailure(row) == IF row.attempts < 3 THEN "queued" ELSE "failed"
SettleMemory(w) ==
    LET j == extractor[w].job
    IN  /\ extractor[w].pc \in {"complete", "fail"}
        /\ memoryJob' = [memoryJob EXCEPT ![j].status =
               IF extractor[w].pc = "complete" THEN "completed" ELSE AfterFailure(memoryJob[j])]
        /\ extractor' = [extractor EXCEPT ![w] = At("idle", NoJob)]
        /\ UNCHANGED <<extracted, starts>>

(* The process ends, or its shutdown cancels the extraction: the row stays. *)
StopMemoryWorker(w) ==
    /\ extractor[w].pc # "down" /\ starts < MaxStarts
    /\ extractor' = [extractor EXCEPT ![w] = At("down", NoJob)]
    /\ UNCHANGED <<memoryJob, extracted, starts>>

MemoryStep(w) ==
    \/ NextMemory(w) \/ ClaimMemory(w) \/ SettleMemory(w)
    \/ \E stored, ok \in BOOLEAN : Extract(w, stored, ok)
MemoryJobsNext ==
    \/ \E j \in MemoryJob : EnqueueMemory(j)
    \/ \E w \in MemoryWorker : StartMemoryWorker(w) \/ MemoryStep(w) \/ StopMemoryWorker(w)
MemoryJobsFairness == \A w \in MemoryWorker : WF_memoryJobVars(StartMemoryWorker(w))
                                              /\ WF_memoryJobVars(MemoryStep(w))
MemoryJobsSpec == MemoryJobsInit /\ [][MemoryJobsNext]_memoryJobVars /\ MemoryJobsFairness
----------------------------------------------------------------------------
MemoryJobsTypeOK ==
    /\ memoryJob \in [MemoryJob -> [status: {"absent", "queued", "running", "completed",
                                             "failed"}, attempts: Nat]]
    /\ extractor \in [MemoryWorker -> [pc: {"down", "idle", "next", "extract", "complete",
                                            "fail"}, job: MemoryJob \union {NoJob}]]
    /\ extracted \subseteq MemoryJob /\ starts \in Nat

(* A job is extracted at most three times and once more per worker start that
   recovered it, which does not compare its attempts; and a job shown as
   completed has stored its memories (jobs.py, wake_recovered, execute). *)
AttemptsBounded == \A j \in MemoryJob : memoryJob[j].attempts <= 3 + starts
CompletedWasExtracted ==
    \A j \in MemoryJob : memoryJob[j].status = "completed" => j \in extracted
ExtractionBounded == AttemptsBounded /\ CompletedWasExtracted

(* Every enqueued job comes to rest as completed or failed, although workers
   that lost it to a recovery still write their outcome over a newer one. *)
MemoryJobSettles ==
    \A j \in MemoryJob :
        memoryJob[j].status = "queued" ~> [](memoryJob[j].status \in {"completed", "failed"})
=============================================================================
