--------------------------- MODULE ServicesProofs ---------------------------
(* The background services, for any number of rows, workers, ticks, children *)
(* and calls: the inductive invariants of Automations, MemoryJobs and        *)
(* Subagents, the types of McpConnections, and, with the outbox of           *)
(* DeliveriesProofs, what holds of all of them together in MCServices.       *)
EXTENDS MCServices, DeliveriesProofs, WellFoundedInduction

(***************************************************************************)
(* The queue of memory extractions.                                        *)
(***************************************************************************)

(* A job that may be claimed has an attempt left, counting one for each start
   that may have recovered it. *)
AttemptLeft == \A j \in MemoryJob :
    memoryJob[j].status \in {"absent", "queued"} => memoryJob[j].attempts <= 2 + starts

(* A worker in the middle of a job has one, and stored its memories if it is
   about to call it completed. *)
Busy == {"next", "extract", "complete", "fail"}
WorkerInv == \A w \in MemoryWorker :
    /\ extractor[w].pc \in Busy => extractor[w].job \in MemoryJob
    /\ extractor[w].pc = "complete" => extractor[w].job \in extracted

MemoryJobsInv == MemoryJobsTypeOK /\ AttemptLeft /\ WorkerInv /\ ExtractionBounded

(* No job exists and no worker runs in the initial state. *)
LEMMA MemoryJobsInitHolds == MemoryJobsInit => MemoryJobsInv
BY DEF MemoryJobsInit, MemoryJobsInv, MemoryJobsTypeOK, AttemptLeft, WorkerInv, Busy, At,
       ExtractionBounded, AttemptsBounded, CompletedWasExtracted

(* A worker that reads, claims or loses a job keeps the invariant: only a claim
   counts an attempt, and only of a queued job. *)
LEMMA MemoryClaimKeeps == ASSUME NEW w \in MemoryWorker, MemoryJobsInv, NextMemory(w) \/ ClaimMemory(w)
                    PROVE  MemoryJobsInv'
<1> USE DEF MemoryJobsInv, MemoryJobsTypeOK, AttemptLeft, WorkerInv, Busy, At,
            ExtractionBounded, AttemptsBounded, CompletedWasExtracted
<1>1. CASE NextMemory(w)
  BY <1>1 DEF NextMemory
<1>2. CASE ClaimMemory(w)
  <2> DEFINE j == extractor[w].job
  <2>1. j \in MemoryJob /\ UNCHANGED <<extracted, starts>>
    BY <1>2 DEF ClaimMemory
  <2>2. CASE memoryJob[j].status = "queued"
    <3>1. memoryJob' = [memoryJob EXCEPT ![j] = [status |-> "running",
                                                 attempts |-> memoryJob[j].attempts + 1]]
      BY <1>2, <2>1, <2>2 DEF ClaimMemory
    <3>2. extractor' = [extractor EXCEPT ![w] = At("extract", j)]
      BY <1>2, <2>2 DEF ClaimMemory
    <3>3. memoryJob[j].attempts + 1 <= 3 + starts
      BY <2>1, <2>2
    <3> QED BY <2>1, <2>2, <3>1, <3>2, <3>3
  <2>3. CASE memoryJob[j].status # "queued"
    BY <1>2, <2>3 DEF ClaimMemory
  <2> QED BY <2>2, <2>3
<1> QED BY <1>1, <1>2

(* The extraction and its outcome keep the invariant: completed follows the
   storing of memories, and a failed job is queued with at most two attempts. *)
LEMMA MemoryOutcomeKeeps ==
    ASSUME NEW w \in MemoryWorker, MemoryJobsInv,
           SettleMemory(w) \/ \E kept, ok \in BOOLEAN : Extract(w, kept, ok)
    PROVE  MemoryJobsInv'
<1> USE DEF MemoryJobsInv, MemoryJobsTypeOK, AttemptLeft, WorkerInv, Busy, At,
            ExtractionBounded, AttemptsBounded, CompletedWasExtracted
<1>1. CASE \E kept, ok \in BOOLEAN : Extract(w, kept, ok)
  BY <1>1 DEF Extract
<1>2. CASE SettleMemory(w)
  <2> DEFINE j == extractor[w].job
  <2>1. j \in MemoryJob /\ UNCHANGED <<extracted, starts>>
    BY <1>2 DEF SettleMemory
  <2>2. extractor' = [extractor EXCEPT ![w] = At("idle", NoJob)]
    BY <1>2 DEF SettleMemory
  <2>3. CASE extractor[w].pc = "complete"
    <3>1. memoryJob' = [memoryJob EXCEPT ![j].status = "completed"]
      BY <1>2, <2>3 DEF SettleMemory
    <3> QED BY <2>1, <2>2, <2>3, <3>1
  <2>4. CASE extractor[w].pc = "fail"
    <3>1. memoryJob' = [memoryJob EXCEPT ![j].status = AfterFailure(memoryJob[j])]
      BY <1>2, <2>4 DEF SettleMemory
    <3> QED BY <2>1, <2>2, <3>1 DEF AfterFailure
  <2> QED BY <1>2, <2>3, <2>4 DEF SettleMemory
<1> QED BY <1>1, <1>2

(* The start of a worker gives every running job back with all its attempts,
   which the start itself pays for. *)
LEMMA MemoryStartKeeps == ASSUME NEW w \in MemoryWorker, MemoryJobsInv, StartMemoryWorker(w)
                    PROVE  MemoryJobsInv'
<1> USE DEF MemoryJobsInv, MemoryJobsTypeOK, AttemptLeft, WorkerInv, Busy, At,
            ExtractionBounded, AttemptsBounded, CompletedWasExtracted
<1>1. /\ starts' = starts + 1 /\ extracted' = extracted
      /\ extractor' = [extractor EXCEPT ![w] = At("idle", NoJob)]
      /\ memoryJob' = [j \in MemoryJob |-> Recovered(memoryJob[j])]
  BY DEF StartMemoryWorker
<1>2. \A j \in MemoryJob :
          /\ memoryJob'[j].attempts = memoryJob[j].attempts
          /\ memoryJob'[j].status = IF memoryJob[j].status = "running" THEN "queued"
                                    ELSE memoryJob[j].status
          /\ memoryJob'[j] \in [status: {"absent", "queued", "running", "completed", "failed"},
                                attempts: Nat]
  BY <1>1 DEF Recovered
<1>3. MemoryJobsTypeOK'
  BY <1>1, <1>2
<1>4. AttemptLeft' /\ ExtractionBounded'
  BY <1>1, <1>2
<1>5. WorkerInv'
  BY <1>1
<1> QED BY <1>3, <1>4, <1>5

(* Every step keeps the invariant. *)
LEMMA MemoryJobsStepHolds == MemoryJobsInv /\ [MemoryJobsNext]_memoryJobVars => MemoryJobsInv'
<1> SUFFICES ASSUME MemoryJobsInv, [MemoryJobsNext]_memoryJobVars PROVE MemoryJobsInv'
  OBVIOUS
<1>1. ASSUME NEW j \in MemoryJob, EnqueueMemory(j) PROVE MemoryJobsInv'
  BY <1>1 DEF EnqueueMemory, MemoryJobsInv, MemoryJobsTypeOK, AttemptLeft, WorkerInv, Busy,
              ExtractionBounded, AttemptsBounded, CompletedWasExtracted
<1>2. ASSUME NEW w \in MemoryWorker, StartMemoryWorker(w) PROVE MemoryJobsInv'
  BY <1>2, MemoryStartKeeps
<1>3. ASSUME NEW w \in MemoryWorker, MemoryStep(w) PROVE MemoryJobsInv'
  BY <1>3, MemoryClaimKeeps, MemoryOutcomeKeeps DEF MemoryStep
<1>4. ASSUME NEW w \in MemoryWorker, StopMemoryWorker(w) PROVE MemoryJobsInv'
  BY <1>4 DEF StopMemoryWorker, MemoryJobsInv, MemoryJobsTypeOK, AttemptLeft, WorkerInv, Busy, At,
              ExtractionBounded, AttemptsBounded, CompletedWasExtracted
<1>5. CASE UNCHANGED memoryJobVars
  BY <1>5 DEF memoryJobVars, MemoryJobsInv, MemoryJobsTypeOK, AttemptLeft, WorkerInv, Busy,
              ExtractionBounded, AttemptsBounded, CompletedWasExtracted
<1> QED BY <1>1, <1>2, <1>3, <1>4, <1>5 DEF MemoryJobsNext

(* The invariant holds in every reachable state. *)
THEOREM MemoryJobsInvariance == MemoryJobsSpec => []MemoryJobsInv
BY MemoryJobsInitHolds, MemoryJobsStepHolds, PTL DEF MemoryJobsSpec

(* A job is extracted at most three times and once more per start, and one that
   is shown as completed has stored its memories (jobs.py:155-228). *)
THEOREM ExtractionIsBounded == MemoryJobsSpec => []ExtractionBounded
<1>1. MemoryJobsInv => ExtractionBounded
  BY DEF MemoryJobsInv
<1> QED BY MemoryJobsInvariance, <1>1, PTL

(***************************************************************************)
(* Child agents.                                                           *)
(***************************************************************************)

(* A job that is being cancelled belongs to a child somebody interrupted: the
   handler of its CancelledError may call it cancelled. *)
CancellingWasAsked == \A c \in Child : job[c] = "cancelling" => c \in asked

SubagentsInv == SubagentsTypeOK /\ ChildOutcome /\ CancellingWasAsked

(* There are no children yet. *)
LEMMA SubagentsInitHolds == SubagentsInit => SubagentsInv
<1> SUFFICES ASSUME SubagentsInit PROVE SubagentsInv
  OBVIOUS
<1> USE DEF SubagentsInit, Live
<1>1. SubagentsTypeOK
  <2>1. 0 \in 0..MaxMail /\ 0 \in 0..MaxRecoveries
    BY SubagentsAssumption
  <2>2. parent \in {Running, [pc |-> "ended"], [pc |-> "killed"]}
                     \union {WaitingFor(c) : c \in Child}
    BY Zenon
  <2> QED BY <2>1, <2>2 DEF SubagentsTypeOK
<1>2. ChildOutcome /\ CancellingWasAsked
  BY DEF ChildOutcome, ActiveHasJob, CancelledWasAsked, ReportIsShown, CancellingWasAsked
<1> QED BY <1>1, <1>2 DEF SubagentsInv

(* A step of run_child keeps the invariant: it stores active only with a job,
   cancelled only if it was told so, and its report together with completed. *)
LEMMA ChildKeeps == ASSUME NEW c \in Child, SubagentsInv, ChildStep(c) PROVE SubagentsInv'
<1> USE DEF SubagentsInv, SubagentsTypeOK, Live
<1>1. SubagentsTypeOK'
  <2>1. CASE ConsumeMessages(c)
    BY <2>1 DEF ConsumeMessages
  <2>2. CASE StartChild(c)
    BY <2>2 DEF StartChild
  <2>3. CASE UnwindChild(c)
    BY <2>3 DEF UnwindChild
  <2>4. CASE CompleteChild(c) \/ FailChild(c) \/ StopChild(c)
    BY <2>4 DEF CompleteChild, FailChild, StopChild, EndChild
  <2> QED BY <2>1, <2>2, <2>3, <2>4 DEF ChildStep
<1>2. ChildOutcome' /\ CancellingWasAsked'
  <2> USE DEF ChildOutcome, ActiveHasJob, CancelledWasAsked, ReportIsShown, CancellingWasAsked
  <2>1. CASE ConsumeMessages(c)
    BY <2>1 DEF ConsumeMessages
  <2>2. CASE StartChild(c)
    BY <2>2 DEF StartChild
  <2>3. CASE UnwindChild(c)
    BY <2>3 DEF UnwindChild
  <2>4. CASE CompleteChild(c)
    BY <2>4 DEF CompleteChild, EndChild
  <2>5. CASE FailChild(c)
    BY <2>5 DEF FailChild, EndChild
  <2>6. CASE StopChild(c)
    BY <2>6 DEF StopChild, EndChild
  <2> QED BY <2>1, <2>2, <2>3, <2>4, <2>5, <2>6 DEF ChildStep
<1> QED BY <1>1, <1>2

(* The tools of the parent keep the invariant: only they create jobs, and only
   interrupt_agent cancels one. *)
LEMMA ParentKeeps == ASSUME NEW c \in Child, SubagentsInv, ParentStep(c) PROVE SubagentsInv'
<1> USE DEF SubagentsInv, SubagentsTypeOK, Live
<1>1. CASE SpawnAgent(c)
  <2>1. SubagentsTypeOK'
    BY <1>1 DEF SpawnAgent
  <2>2. ChildOutcome' /\ CancellingWasAsked'
    BY <1>1 DEF SpawnAgent, ChildOutcome, ActiveHasJob, CancelledWasAsked, ReportIsShown,
                CancellingWasAsked
  <2> QED BY <2>1, <2>2
<1>2. CASE WaitAgent(c)
  <2>1. /\ job' = [job EXCEPT ![c] = IF Relaunches(c) THEN "created" ELSE @]
        /\ parent' \in {Running, WaitingFor(c)}
        /\ UNCHANGED <<child, mail, cancelled, asked, recoveries>>
    BY <1>2 DEF WaitAgent
  <2>2. SubagentsTypeOK'
    BY <2>1
  <2>3. ChildOutcome' /\ CancellingWasAsked'
    BY <2>1 DEF Relaunches, ChildOutcome, ActiveHasJob, CancelledWasAsked, ReportIsShown,
                CancellingWasAsked
  <2> QED BY <2>2, <2>3
<1>3. CASE InterruptAgent(c)
  <2>1. SubagentsTypeOK'
    BY <1>3 DEF InterruptAgent
  <2>2. ChildOutcome' /\ CancellingWasAsked'
    BY <1>3 DEF InterruptAgent, ChildOutcome, ActiveHasJob, CancelledWasAsked, ReportIsShown,
                CancellingWasAsked
  <2> QED BY <2>1, <2>2
<1> QED BY <1>1, <1>2, <1>3 DEF ParentStep

(* A recovery keeps the invariant: no row is left active, with or without the
   jobs that were behind it. *)
LEMMA RecoveryKeeps == ASSUME NEW crash \in BOOLEAN, SubagentsInv, RecoverSubtasks(crash)
                       PROVE  SubagentsInv'
<1> USE DEF SubagentsInv, SubagentsTypeOK, Live, Unfinished
<1>1. /\ \A c \in Child : child'[c] = IF child[c] \in {"queued", "running"} THEN "interrupted"
                                      ELSE child[c]
      /\ DOMAIN child' = Child
      /\ UNCHANGED <<mail, cancelled, asked>>
      /\ recoveries' \in 0..MaxRecoveries
  BY SubagentsAssumption DEF RecoverSubtasks
<1>2. \/ job' = job /\ parent' = parent
      \/ job' = [c \in Child |-> "none"] /\ parent' = Running
  BY DEF RecoverSubtasks
<1>3. SubagentsTypeOK'
  <2>1. child' \in [Child -> {"absent", "queued", "running", "interrupted", "completed",
                              "failed", "cancelled"}]
    BY DEF RecoverSubtasks
  <2>2. job' \in [Child -> {"none", "ok", "raised", "cancelled"} \union Live]
        /\ parent' \in {Running, [pc |-> "ended"], [pc |-> "killed"]}
                         \union {WaitingFor(c) : c \in Child}
    BY <1>2
  <2> QED BY <1>1, <2>1, <2>2
<1>4. ChildOutcome' /\ CancellingWasAsked'
  BY <1>1, <1>2 DEF ChildOutcome, ActiveHasJob, CancelledWasAsked, ReportIsShown,
                    CancellingWasAsked
<1> QED BY <1>3, <1>4

(* Every step keeps the invariant. *)
LEMMA SubagentsStepHolds == SubagentsInv /\ [SubagentsNext]_subagentVars => SubagentsInv'
<1> SUFFICES ASSUME SubagentsInv, [SubagentsNext]_subagentVars PROVE SubagentsInv'
  OBVIOUS
<1>1. ASSUME NEW c \in Child, ChildStep(c) \/ ParentStep(c) PROVE SubagentsInv'
  BY <1>1, ChildKeeps, ParentKeeps
<1>2. ASSUME NEW c \in Child, SendAgent(c) PROVE SubagentsInv'
  <2>1. mail[c].accepted + 1 \in 0..MaxMail
    BY <1>2, SubagentsAssumption DEF SendAgent, SubagentsInv, SubagentsTypeOK
  <2>2. SubagentsTypeOK'
    BY <1>2, <2>1 DEF SendAgent, SubagentsInv, SubagentsTypeOK, Live
  <2>3. ChildOutcome' /\ CancellingWasAsked'
    BY <1>2 DEF SendAgent, SubagentsInv, ChildOutcome, ActiveHasJob, CancelledWasAsked, ReportIsShown,
                CancellingWasAsked
  <2> QED BY <2>2, <2>3 DEF SubagentsInv
<1>3. ASSUME NEW c \in Child, InterruptSubtask(c) PROVE SubagentsInv'
  <2>1. SubagentsTypeOK'
    BY <1>3 DEF InterruptSubtask, SubagentsInv, SubagentsTypeOK, Live
  <2>2. ChildOutcome' /\ CancellingWasAsked'
    BY <1>3 DEF InterruptSubtask, SubagentsInv, SubagentsTypeOK, ChildOutcome, ActiveHasJob,
                CancelledWasAsked, ReportIsShown, CancellingWasAsked
  <2> QED BY <2>1, <2>2 DEF SubagentsInv
<1>4. CASE WaitReturns \/ EndParent \/ CancelParent
  <2>1. UNCHANGED <<child, job, mail, asked, recoveries>> /\ (cancelled => cancelled')
    BY <1>4 DEF WaitReturns, EndParent, CancelParent
  <2>2. parent' \in {parent, Running, [pc |-> "ended"], [pc |-> "killed"]}
        /\ cancelled' \in {cancelled, TRUE}
    BY <1>4 DEF WaitReturns, EndParent, CancelParent
  <2>3. SubagentsTypeOK'
    BY <2>1, <2>2 DEF SubagentsInv, SubagentsTypeOK, Live
  <2>4. ChildOutcome' /\ CancellingWasAsked'
    BY <2>1 DEF SubagentsInv, ChildOutcome, ActiveHasJob, CancelledWasAsked, ReportIsShown,
                CancellingWasAsked
  <2> QED BY <2>3, <2>4 DEF SubagentsInv
<1>5. ASSUME NEW crash \in BOOLEAN, RecoverSubtasks(crash) PROVE SubagentsInv'
  BY <1>5, RecoveryKeeps
<1>6. CASE UNCHANGED subagentVars
  BY <1>6 DEF subagentVars, SubagentsInv, SubagentsTypeOK, ChildOutcome, ActiveHasJob,
              CancelledWasAsked, ReportIsShown, CancellingWasAsked
<1> QED BY <1>1, <1>2, <1>3, <1>4, <1>5, <1>6 DEF SubagentsNext

(* The invariant holds in every reachable state. *)
THEOREM SubagentsInvariance == SubagentsSpec => []SubagentsInv
BY SubagentsInitHolds, SubagentsStepHolds, PTL DEF SubagentsSpec

(* An active row has a job, a cancelled one was interrupted or its parent
   cancelled, and a report is shown unless the child was interrupted
   (extension.py:90-151, task_runtime.py update_subtask, database.py:551-565). *)
THEOREM OutcomesAgree == SubagentsSpec => []ChildOutcome
<1>1. SubagentsInv => ChildOutcome
  BY DEF SubagentsInv
<1> QED BY SubagentsInvariance, <1>1, PTL

(* A set of times has a first one. *)
LEMMA FirstMoment == ASSUME NEW S \in SUBSET Nat, S # {}
                     PROVE  \E x \in S : \A y \in S : x <= y
<1>1. PICK x \in S : \A y \in S : <<y, x>> \notin OpToRel(<, Nat)
  BY WFMin, NatLessThanWellFounded, Zenon
<1>2. \A y \in S : ~(y < x)
  BY <1>1, Zenon DEF OpToRel
<1> QED BY <1>2

(* The next occurrence of a rule is one of its occurrences, and later. *)
LEMMA FollowingOccurs ==
    ASSUME NEW r \in SUBSET Nat, NEW t \in Nat, Later(r, t) # {}
    PROVE  Following(r, t) \in r /\ Following(r, t) \in Nat /\ Following(r, t) > t
<1>1. Later(r, t) \in SUBSET Nat
  BY DEF Later
<1>2. \E x \in Later(r, t) : \A y \in Later(r, t) : x <= y
  BY <1>1, FirstMoment
<1>3. Following(r, t) \in Later(r, t)
  BY <1>2 DEF Following
<1> QED BY <1>1, <1>3 DEF Later

(***************************************************************************)
(* Scheduled automations.                                                  *)
(***************************************************************************)

(* A task or a claim was made for an arming of its row that is already spent,
   and for a time that has come. *)
SpentArming(x) ==
    /\ x.auto \in Automation /\ x.arming < automation[x.auto].arming
    /\ x.at <= clock
SameArming(x, y) == x.auto = y.auto /\ x.arming = y.arming

(* An arming is claimed by one tick, and run by one task after that. *)
ClaimInv ==
    /\ \A o \in Occasion : occasion[o].status # "none" => SpentArming(occasion[o])
    /\ \A p \in Ticker : \A c \in ticker[p].todo : SpentArming(c)
    /\ \A p, q \in Ticker : \A c \in ticker[p].todo, d \in ticker[q].todo :
           SameArming(c, d) => p = q /\ c = d
    /\ \A o \in Occasion, p \in Ticker : \A c \in ticker[p].todo :
           occasion[o].status # "none" => ~SameArming(occasion[o], c)

(* What a tick read is its own past: a rule that changed since has armed its row
   for a later time. *)
TickInv == \A p \in Ticker :
    /\ ticker[p].now <= clock
    /\ ticker[p].pc \in Occasion => occasion[ticker[p].pc].status # "none"
    /\ \A d \in ticker[p].due :
           automation[d.auto].next <= ticker[p].now => automation[d.auto].rule = d.rule

RowInv == \A a \in Automation :
    /\ automation[a].status = "absent" => automation[a].arming = 0
    /\ automation[a].next > clock => automation[a].next \in automation[a].rule

(* No task is numbered by the time zero of a row that was never there. *)
UnusedOccasion == \A o \in Occasion : occasion[o].status = "none" => occasion[o].at = 0

ScheduleInv == /\ AutoTypeOK /\ ClaimInv /\ TickInv /\ RowInv /\ UnusedOccasion
               /\ OneTaskPerArming /\ OneNoticePerTask

(* There are no rows, ticks and tasks yet. *)
LEMMA ScheduleInitHolds == AutoInit => ScheduleInv
<1> SUFFICES ASSUME AutoInit PROVE ScheduleInv
  OBVIOUS
<1>1. AutoTypeOK
  <2>1. (CHOOSE po \in Policy : TRUE) \in Policy
    BY PolicyAssumption
  <2> QED BY <2>1 DEF AutoInit, AutoTypeOK, AutomationRow, IdleTicker
<1>2. ClaimInv /\ TickInv /\ RowInv /\ UnusedOccasion /\ OneTaskPerArming /\ OneNoticePerTask
  BY OccasionAssumption DEF AutoInit, IdleTicker, ClaimInv, TickInv, RowInv, UnusedOccasion,
     OneTaskPerArming, OneNoticePerTask
<1> QED BY <1>1, <1>2 DEF ScheduleInv

(* Spent armings stay spent while armings and the clock only grow: a step that
   neither claims a row nor creates a task keeps what claims and tasks say. *)
LEMMA ClaimFrame ==
    ASSUME ScheduleInv, AutoTypeOK', clock <= clock',
           \A a \in Automation : automation[a].arming <= automation'[a].arming,
           \A p \in Ticker : ticker'[p].todo \subseteq ticker[p].todo,
           \A o \in Occasion : /\ occasion'[o].status # "none" => occasion[o].status # "none"
                               /\ occasion'[o].auto = occasion[o].auto
                               /\ occasion'[o].arming = occasion[o].arming
                               /\ occasion'[o].at = occasion[o].at
                               /\ occasion'[o].status = "none" => occasion[o].status = "none"
    PROVE  ClaimInv' /\ OneTaskPerArming' /\ UnusedOccasion'
<1>1. AutoTypeOK /\ ClaimInv /\ OneTaskPerArming /\ UnusedOccasion
  BY DEF ScheduleInv
<1>2. \A o \in Occasion : occasion'[o].status # "none" => SpentArming(occasion[o])'
  BY <1>1 DEF ClaimInv, SpentArming, AutoTypeOK, AutomationRow
<1>3. \A p \in Ticker : \A c \in ticker'[p].todo :
          /\ c.auto \in Automation /\ c.arming < automation'[c.auto].arming
          /\ c.at <= clock'
  <2> SUFFICES ASSUME NEW p \in Ticker, NEW c \in ticker'[p].todo
               PROVE  /\ c.auto \in Automation /\ c.arming < automation'[c.auto].arming
                      /\ c.at <= clock'
    OBVIOUS
  <2>1. c \in ticker[p].todo /\ SpentArming(c) /\ c \in Claim
    BY <1>1 DEF ClaimInv, AutoTypeOK
  <2> QED BY <1>1, <2>1 DEF SpentArming, AutoTypeOK, AutomationRow, Claim
<1>4. \A p, q \in Ticker : \A c \in ticker'[p].todo, d \in ticker'[q].todo :
          SameArming(c, d) => p = q /\ c = d
  BY <1>1 DEF ClaimInv
<1>5. \A o \in Occasion, p \in Ticker : \A c \in ticker'[p].todo :
          occasion'[o].status # "none" => ~SameArming(occasion'[o], c)
  BY <1>1 DEF ClaimInv, SameArming
<1>6. OneTaskPerArming' /\ UnusedOccasion'
  BY <1>1 DEF OneTaskPerArming, UnusedOccasion
<1> QED BY <1>2, <1>3, <1>4, <1>5, <1>6 DEF ClaimInv, SpentArming

(* A write of one row keeps the schedule if it does not lower the arming, and a
   new time is in the future and, unless it is this very instant, of the rule. *)
LEMMA EditKeeps ==
    ASSUME ScheduleInv, NEW a \in Automation, NEW row \in AutomationRow,
           automation' = [automation EXCEPT ![a] = row], automation[a].arming <= row.arming,
           row.status = "absent" => automation[a].status = "absent" /\ row = automation[a],
           row.next > clock' => row.next \in row.rule,
           \/ row.next = automation[a].next /\ row.rule = automation[a].rule
           \/ row.next > clock,
           clock' \in {clock, clock + 1}, UNCHANGED <<ticker, occasion, notices>>
    PROVE  ScheduleInv'
<1>1. AutoTypeOK /\ TickInv /\ RowInv /\ OneNoticePerTask
  BY DEF ScheduleInv
<1>2. AutoTypeOK' /\ clock <= clock'
  BY <1>1 DEF AutoTypeOK
<1>3. automation'[a] = row /\ \A b \in Automation \ {a} : automation'[b] = automation[b]
  BY <1>1 DEF AutoTypeOK
<1>4. \A b \in Automation : automation[b].arming <= automation'[b].arming
  BY <1>1, <1>3 DEF AutoTypeOK, AutomationRow
<1>5. ClaimInv' /\ OneTaskPerArming' /\ UnusedOccasion'
  BY <1>2, <1>4, ClaimFrame
<1>6. TickInv'
  <2>1. ASSUME NEW p \in Ticker, NEW d \in ticker[p].due
        PROVE  automation'[d.auto].next <= ticker[p].now => automation'[d.auto].rule = d.rule
    <3>1. d.auto \in Automation /\ ticker[p].now <= clock /\ ticker[p].now \in Nat
      BY <1>1 DEF AutoTypeOK, TickInv, Due
    <3>2. CASE d.auto = a
      BY <1>1, <1>3, <3>1, <3>2 DEF AutoTypeOK, TickInv, AutomationRow
    <3>3. CASE d.auto # a
      BY <1>1, <1>3, <3>1, <3>3 DEF TickInv
    <3> QED BY <3>2, <3>3
  <2>2. \A p \in Ticker : ticker[p].now <= clock'
    BY <1>1, <1>2 DEF AutoTypeOK, TickInv
  <2> QED BY <1>1, <2>1, <2>2 DEF TickInv
<1>7. RowInv'
  BY <1>1, <1>2, <1>3 DEF RowInv, AutoTypeOK, AutomationRow
<1> QED BY <1>1, <1>2, <1>5, <1>6, <1>7 DEF ScheduleInv, OneNoticePerTask

(* What a user does to a row keeps the schedule. *)
LEMMA UserKeeps == ASSUME ScheduleInv, NEW a \in Automation, UserEdits(a) PROVE ScheduleInv'
<1>1. AutoTypeOK /\ RowInv /\ automation[a] \in AutomationRow /\ clock \in Nat
  BY DEF ScheduleInv, AutoTypeOK
<1>2. ASSUME NEW r \in Rules, NEW po \in Policy, CreateAutomation(a, r, po) PROVE ScheduleInv'
  <2> DEFINE row == [status |-> "active", rule |-> r, next |-> Following(r, clock),
                     arming |-> 1, policy |-> po, last |-> NoOccasion]
  <2>1. r \in SUBSET Nat /\ Later(r, clock) # {} /\ automation[a].arming = 0
    BY <1>1, <1>2, RulesAssumption DEF CreateAutomation, RowInv
  <2>2. Following(r, clock) \in r /\ Following(r, clock) \in Nat /\ Following(r, clock) > clock
    BY <1>1, <2>1, FollowingOccurs
  <2>3. row \in AutomationRow
    BY <2>1, <2>2 DEF AutomationRow
  <2>4. automation' = [automation EXCEPT ![a] = row] /\ UNCHANGED <<clock, ticker, occasion, notices>>
    BY <1>2 DEF CreateAutomation
  <2>5. /\ row.arming = 1 /\ row.next = Following(r, clock) /\ row.rule = r
        /\ row.status = "active" /\ automation[a].arming <= row.arming
    BY <2>1
  <2> HIDE DEF row
  <2> QED BY <2>2, <2>3, <2>4, <2>5, EditKeeps
<1>3. ASSUME NEW r \in Rules, NEW s \in {"active", "paused"}, NEW po \in Policy,
             Reschedule(a, r, s, po)
      PROVE  ScheduleInv'
  <2> DEFINE later == [automation[a] EXCEPT !.rule = r, !.next = Following(r, clock),
                                            !.arming = @ + 1]
             row == [later EXCEPT !.status = s, !.policy = po]
  <2>1. r \in SUBSET Nat /\ Later(r, clock) # {}
    BY <1>1, <1>3, RulesAssumption DEF Reschedule
  <2>2. Following(r, clock) \in r /\ Following(r, clock) \in Nat /\ Following(r, clock) > clock
    BY <1>1, <2>1, FollowingOccurs
  <2>3. row \in AutomationRow
    <3>1. automation[a].arming + 1 \in Nat
      BY <1>1 DEF AutomationRow
    <3>2. later \in AutomationRow
      BY <1>1, <2>1, <2>2, <3>1 DEF AutomationRow
    <3> HIDE DEF later
    <3> QED BY <3>2 DEF AutomationRow
  <2>4. /\ row.arming = automation[a].arming + 1 /\ row.next = Following(r, clock)
        /\ row.rule = r /\ row.status = s
    BY <1>1 DEF AutomationRow
  <2>5. automation' = [automation EXCEPT ![a] = row]
    BY <1>1, <1>3 DEF Reschedule, AutoTypeOK, AutomationRow
  <2>6. UNCHANGED <<clock, ticker, occasion, notices>>
    BY <1>3 DEF Reschedule
  <2>7. automation[a].arming <= row.arming
    BY <1>1, <2>4 DEF AutomationRow
  <2> HIDE DEF row
  <2> QED BY <2>2, <2>3, <2>4, <2>5, <2>6, <2>7, EditKeeps
<1>4. ASSUME NEW s \in {"active", "paused"}, NEW po \in Policy, UpdateAutomation(a, s, po)
      PROVE  ScheduleInv'
  <2> DEFINE row == [automation[a] EXCEPT !.status = s, !.policy = po]
  <2>1. row \in AutomationRow
    BY <1>1 DEF AutomationRow
  <2>2. /\ row.arming = automation[a].arming /\ row.next = automation[a].next
        /\ row.rule = automation[a].rule /\ row.status = s
    BY <1>1 DEF AutomationRow
  <2>3. automation' = [automation EXCEPT ![a] = row]
    BY <1>1, <1>4 DEF UpdateAutomation, AutoTypeOK, AutomationRow
  <2>4. UNCHANGED <<clock, ticker, occasion, notices>>
    BY <1>4 DEF UpdateAutomation
  <2>5. row.arming <= row.arming /\ (row.next > clock => row.next \in row.rule)
    BY <1>1, <2>2 DEF AutomationRow, RowInv
  <2> HIDE DEF row
  <2> QED BY <2>1, <2>2, <2>3, <2>4, <2>5, EditKeeps
<1>5. CASE DeleteAutomation(a)
  <2> DEFINE row == [automation[a] EXCEPT !.status = "deleted"]
  <2>1. row \in AutomationRow
    BY <1>1 DEF AutomationRow
  <2>2. /\ row.arming = automation[a].arming /\ row.next = automation[a].next
        /\ row.rule = automation[a].rule /\ row.status = "deleted"
    BY <1>1 DEF AutomationRow
  <2>3. automation' = [automation EXCEPT ![a] = row]
    BY <1>1, <1>5 DEF DeleteAutomation, AutoTypeOK, AutomationRow
  <2>4. UNCHANGED <<clock, ticker, occasion, notices>>
    BY <1>5 DEF DeleteAutomation
  <2>5. row.arming <= row.arming /\ (row.next > clock => row.next \in row.rule)
    BY <1>1, <2>2 DEF AutomationRow, RowInv
  <2> HIDE DEF row
  <2> QED BY <2>1, <2>2, <2>3, <2>4, <2>5, EditKeeps
<1>6. CASE RunNow(a)
  <2> DEFINE row == [automation[a] EXCEPT !.status = "active", !.next = clock + 1,
                                          !.arming = @ + 1]
  <2>1. row \in AutomationRow
    <3>1. automation[a].arming + 1 \in Nat /\ clock + 1 \in Nat
      BY <1>1 DEF AutomationRow
    <3> QED BY <1>1, <3>1 DEF AutomationRow
  <2>2. /\ row.arming = automation[a].arming + 1 /\ row.next = clock + 1
        /\ row.status = "active"
    BY <1>1 DEF AutomationRow
  <2>3. automation' = [automation EXCEPT ![a] = row]
    BY <1>1, <1>6 DEF RunNow, AutoTypeOK, AutomationRow
  <2>4. clock' = clock + 1 /\ UNCHANGED <<ticker, occasion, notices>>
    BY <1>6 DEF RunNow
  <2>5. automation[a].arming <= row.arming /\ ~(row.next > clock') /\ row.next > clock
    BY <1>1, <2>2, <2>4 DEF AutomationRow
  <2> HIDE DEF row
  <2> QED BY <2>1, <2>2, <2>3, <2>4, <2>5, EditKeeps
<1> QED BY <1>2, <1>3, <1>4, <1>5, <1>6 DEF UserEdits

(* The locals of a tick, and those of none. *)
TickPlace == [pc: {"idle", "selected", "creating"} \union Occasion,
              now: Nat, due: SUBSET Due, todo: SUBSET Claim]
LEMMA IdlePlace == /\ IdleTicker \in TickPlace /\ IdleTicker.pc = "idle" /\ IdleTicker.now = 0
                   /\ IdleTicker.due = {} /\ IdleTicker.todo = {}
BY DEF IdleTicker, TickPlace

(* A tick that selects reads the rows as they are. *)
LEMMA SelectKeeps == ASSUME ScheduleInv, NEW p \in Ticker, SelectDue(p) PROVE ScheduleInv'
<1> DEFINE found == {[auto |-> a, rule |-> automation[a].rule] :
                        a \in {b \in Automation : IsDue(b, clock)}}
           place == [IdleTicker EXCEPT !.pc = "selected", !.now = clock, !.due = found]
<1>1. AutoTypeOK /\ TickInv /\ RowInv /\ OneNoticePerTask /\ clock \in Nat
  BY DEF ScheduleInv, AutoTypeOK
<1>2. ticker' = [ticker EXCEPT ![p] = place] /\ UNCHANGED <<clock, automation, occasion, notices>>
  BY DEF SelectDue
<1>3. found \subseteq Due /\ \A d \in found : automation[d.auto].rule = d.rule
  BY <1>1 DEF Due, AutoTypeOK, AutomationRow
<1> HIDE DEF found
<1>4. /\ place \in TickPlace /\ place.pc = "selected" /\ place.now = clock
      /\ place.due = found /\ place.todo = {}
  BY <1>1, <1>3, IdlePlace DEF TickPlace
<1> HIDE DEF place
<1>5. ticker'[p] = place /\ \A q \in Ticker \ {p} : ticker'[q] = ticker[q]
  BY <1>1, <1>2 DEF AutoTypeOK
<1>6. AutoTypeOK'
  BY <1>1, <1>2, <1>4 DEF AutoTypeOK, TickPlace
<1>7. \A q \in Ticker : ticker'[q].todo \subseteq ticker[q].todo
  BY <1>4, <1>5
<1>8. ClaimInv' /\ OneTaskPerArming' /\ UnusedOccasion'
  BY <1>1, <1>2, <1>6, <1>7, ClaimFrame DEF AutoTypeOK, AutomationRow
<1>9. TickInv'
  BY <1>1, <1>2, <1>3, <1>4, <1>5, OccasionAssumption DEF TickInv
<1> QED BY <1>1, <1>2, <1>6, <1>8, <1>9 DEF ScheduleInv, RowInv, OneNoticePerTask

(* A row that is claimed was due by the rule it still has; it is armed anew for
   the occurrence that follows. *)
LEMMA ClaimMoves ==
    ASSUME ScheduleInv, NEW p \in Ticker, ClaimDue(p), NEW a \in Automation,
           \E d \in Claimable(p) : d.auto = a
    PROVE  /\ automation'[a] \in AutomationRow
           /\ automation'[a].arming = automation[a].arming + 1
           /\ automation'[a].rule = automation[a].rule /\ automation'[a].status # "absent"
           /\ automation[a].next <= ticker[p].now
           /\ automation[a].next <= automation'[a].next
           /\ automation'[a].next > ticker[p].now => automation'[a].next \in automation'[a].rule
<1> DEFINE d == CHOOSE d \in Claimable(p) : d.auto = a
           now == ticker[p].now
           more == Later(d.rule, now) # {}
           row == automation[a]
           following == Following(d.rule, now)
<1>1. row \in AutomationRow /\ now \in Nat /\ TickInv
  BY DEF ScheduleInv, AutoTypeOK
<1>2. d \in ticker[p].due /\ d.auto = a /\ row.next <= now
  BY DEF Claimable, IsDue
<1>3. row.rule = d.rule /\ d.rule \in SUBSET Nat
  BY <1>1, <1>2 DEF TickInv, AutomationRow
<1>4. more => Following(d.rule, now) \in d.rule /\ Following(d.rule, now) \in Nat
              /\ Following(d.rule, now) > now
  BY <1>1, <1>3, FollowingOccurs
<1>5. automation'[a] = Moved(row, d, now)
  BY DEF ClaimDue
<1>6. row.arming + 1 \in Nat /\ row.next \in Nat
  BY <1>1 DEF AutomationRow
<1>7. CASE more
  <2>1. automation'[a] = [row EXCEPT !.status = "active", !.arming = @ + 1,
                                     !.next = following]
    BY <1>5, <1>7 DEF Moved
  <2>2. following \in d.rule /\ following \in Nat /\ following > now
    BY <1>4, <1>7
  <2> HIDE DEF following, d, now, row, more
  <2>3. /\ automation'[a] \in AutomationRow /\ automation'[a].arming = row.arming + 1
        /\ automation'[a].rule = row.rule /\ automation'[a].next = following
        /\ automation'[a].status = "active"
    BY <1>1, <1>6, <2>1, <2>2 DEF AutomationRow
  <2>4. row.next <= automation'[a].next
    BY <1>1, <1>2, <1>6, <2>2, <2>3
  <2> QED BY <1>2, <1>3, <2>2, <2>3, <2>4 DEF now, row
<1>8. CASE ~more
  <2>1. automation'[a] = [row EXCEPT !.status = "paused", !.arming = @ + 1, !.next = now]
    BY <1>5, <1>8 DEF Moved
  <2> HIDE DEF following, d, now, row, more
  <2>2. /\ automation'[a] \in AutomationRow /\ automation'[a].arming = row.arming + 1
        /\ automation'[a].rule = row.rule /\ automation'[a].next = now
        /\ automation'[a].status = "paused"
    BY <1>1, <1>6, <2>1 DEF AutomationRow
  <2>3. ~(now > now)
    BY <1>1
  <2> QED BY <1>2, <2>2, <2>3 DEF now, row
<1> QED BY <1>7, <1>8

(* The claims of a tick are of armings nobody claimed before. *)
LEMMA ClaimDueKeeps == ASSUME ScheduleInv, NEW p \in Ticker, ClaimDue(p) PROVE ScheduleInv'
<1> DEFINE Taken(a) == \E d \in Claimable(p) : d.auto = a
           made == {[auto |-> d.auto, arming |-> automation[d.auto].arming,
                     at |-> automation[d.auto].next] : d \in Claimable(p)}
           place == [IdleTicker EXCEPT !.pc = "creating", !.todo = made]
<1>1. AutoTypeOK /\ ClaimInv /\ TickInv /\ RowInv /\ OneNoticePerTask /\ OneTaskPerArming
      /\ UnusedOccasion
  BY DEF ScheduleInv
<1>2. /\ ticker' = [ticker EXCEPT ![p] = place] /\ UNCHANGED <<clock, occasion, notices>>
      /\ \A a \in Automation : ~Taken(a) => automation'[a] = automation[a]
      /\ DOMAIN automation' = Automation
  BY DEF ClaimDue
<1>3. \A a \in Automation : Taken(a) =>
          /\ automation'[a] \in AutomationRow
          /\ automation'[a].arming = automation[a].arming + 1
          /\ automation'[a].rule = automation[a].rule /\ automation'[a].status # "absent"
          /\ automation[a].next <= ticker[p].now
          /\ automation[a].next <= automation'[a].next
          /\ automation'[a].next > ticker[p].now => automation'[a].next \in automation'[a].rule
  BY ClaimMoves
<1>4. \A c \in made : /\ c \in Claim /\ Taken(c.auto) /\ c.arming = automation[c.auto].arming
                      /\ c.at = automation[c.auto].next
  <2>1. ASSUME NEW d \in Claimable(p)
        PROVE  d.auto \in Automation /\ automation[d.auto].arming \in Nat
               /\ automation[d.auto].next \in Nat
    BY <1>1 DEF Claimable, AutoTypeOK, Due, AutomationRow
  <2> QED BY <2>1 DEF Claim
<1>5. \A c, d \in made : c.auto = d.auto => c = d
  OBVIOUS
<1> HIDE DEF made
<1>6. /\ place \in TickPlace /\ place.pc = "creating" /\ place.now = 0
      /\ place.due = {} /\ place.todo = made
  <2>1. made \subseteq Claim
    BY <1>4
  <2> QED BY <2>1, IdlePlace DEF TickPlace
<1> HIDE DEF place
<1>7. ticker'[p] = place /\ \A q \in Ticker \ {p} : ticker'[q] = ticker[q]
  BY <1>1, <1>2 DEF AutoTypeOK
<1>8. AutoTypeOK'
  <2>1. automation' \in [Automation -> AutomationRow]
    <3>1. automation' = [a \in Automation |-> automation'[a]]
      BY DEF ClaimDue
    <3>2. \A a \in Automation : automation'[a] \in AutomationRow
      BY <1>1, <1>2, <1>3 DEF AutoTypeOK
    <3> QED BY <3>1, <3>2
  <2>2. ticker' \in [Ticker -> TickPlace]
    BY <1>1, <1>2, <1>6 DEF AutoTypeOK, TickPlace
  <2> QED BY <1>1, <1>2, <2>1, <2>2 DEF AutoTypeOK, TickPlace
<1>9. \A a \in Automation : /\ automation[a].arming <= automation'[a].arming
                            /\ automation'[a].rule = automation[a].rule
                            /\ automation[a].next <= automation'[a].next
                            /\ automation[a].arming \in Nat /\ automation[a].next \in Nat
                            /\ automation'[a].arming \in Nat /\ automation'[a].next \in Nat
  <2>1. \A a \in Automation : automation[a] \in AutomationRow
    BY <1>1 DEF AutoTypeOK
  <2>2. \A a \in Automation : automation'[a] \in AutomationRow
    BY <1>8 DEF AutoTypeOK
  <2> QED BY <1>2, <1>3, <2>1, <2>2 DEF AutomationRow
<1>10. ticker[p].now \in Nat /\ ticker[p].now <= clock /\ clock \in Nat
  BY <1>1 DEF AutoTypeOK, TickInv
<1>11. ClaimInv'
  <2>1. ASSUME NEW x \in [auto: Automation \union {{}}, arming: Nat, at: Nat], SpentArming(x)
        PROVE  x.auto \in Automation /\ x.arming < automation'[x.auto].arming /\ x.at <= clock
    BY <1>9, <2>1 DEF SpentArming
  <2>2. \A o \in Occasion : occasion[o].status # "none" =>
            /\ occasion[o].auto \in Automation
            /\ occasion[o].arming < automation'[occasion[o].auto].arming
            /\ occasion[o].at <= clock
    BY <1>1, <1>9 DEF ClaimInv, SpentArming, AutoTypeOK
  <2>3. \A c \in made : /\ c.auto \in Automation /\ c.arming < automation'[c.auto].arming
                        /\ c.at <= clock
    BY <1>3, <1>4, <1>9, <1>10 DEF Claim
  <2>4. \A q \in Ticker \ {p} : \A c \in ticker[q].todo :
            /\ c.auto \in Automation /\ c.arming < automation'[c.auto].arming
            /\ c.at <= clock
    <3> SUFFICES ASSUME NEW q \in Ticker \ {p}, NEW c \in ticker[q].todo
                 PROVE  /\ c.auto \in Automation /\ c.arming < automation'[c.auto].arming
                        /\ c.at <= clock
      OBVIOUS
    <3>1. SpentArming(c) /\ c \in Claim
      BY <1>1 DEF ClaimInv, AutoTypeOK
    <3> QED BY <1>9, <3>1 DEF SpentArming, Claim
  <2>5. ASSUME NEW q \in Ticker \ {p}, NEW c \in made, NEW d \in ticker[q].todo
        PROVE  ~SameArming(c, d) /\ ~SameArming(d, c)
    <3>1. SpentArming(d) /\ d \in Claim
      BY <1>1 DEF ClaimInv, AutoTypeOK
    <3> QED BY <1>4, <1>9, <3>1 DEF SpentArming, Claim, SameArming
  <2>6. ASSUME NEW o \in Occasion, occasion[o].status # "none", NEW c \in made
        PROVE  ~SameArming(occasion[o], c)
    <3>1. SpentArming(occasion[o]) /\ occasion[o].arming \in Nat
      BY <1>1, <2>6 DEF ClaimInv, AutoTypeOK
    <3> QED BY <1>4, <1>9, <3>1 DEF SpentArming, Claim, SameArming
  <2>7. ticker'[p].todo = made /\ clock' = clock /\ occasion' = occasion
    BY <1>2, <1>6, <1>7
  <2>8. \A q \in Ticker : \A c \in ticker'[q].todo : SpentArming(c)'
    BY <1>7, <2>3, <2>4, <2>7 DEF SpentArming
  <2>9. \A q, s \in Ticker : \A c \in ticker'[q].todo, d \in ticker'[s].todo :
            SameArming(c, d) => q = s /\ c = d
    <3> SUFFICES ASSUME NEW q \in Ticker, NEW s \in Ticker, NEW c \in ticker'[q].todo,
                        NEW d \in ticker'[s].todo, SameArming(c, d)
                 PROVE  q = s /\ c = d
      OBVIOUS
    <3>1. CASE q = p /\ s = p
      BY <1>5, <2>7, <3>1 DEF SameArming
    <3>2. CASE q = p /\ s # p
      BY <1>7, <2>5, <2>7, <3>2
    <3>3. CASE q # p /\ s = p
      BY <1>7, <2>5, <2>7, <3>3
    <3>4. CASE q # p /\ s # p
      BY <1>1, <1>7, <3>4 DEF ClaimInv
    <3> QED BY <3>1, <3>2, <3>3, <3>4
  <2>10. \A o \in Occasion, q \in Ticker : \A c \in ticker'[q].todo :
             occasion'[o].status # "none" => ~SameArming(occasion'[o], c)
    BY <1>1, <1>7, <2>6, <2>7 DEF ClaimInv
  <2> QED BY <2>2, <2>7, <2>8, <2>9, <2>10 DEF ClaimInv, SpentArming
<1>12. TickInv'
  <2>1. ASSUME NEW q \in Ticker \ {p}, NEW d \in ticker[q].due
        PROVE  automation'[d.auto].next <= ticker[q].now => automation'[d.auto].rule = d.rule
    <3>1. d.auto \in Automation /\ ticker[q].now \in Nat
      BY <1>1 DEF AutoTypeOK, Due
    <3>2. automation[d.auto].next <= ticker[q].now => automation[d.auto].rule = d.rule
      BY <1>1 DEF TickInv
    <3> QED BY <1>9, <3>1, <3>2
  <2> QED BY <1>1, <1>2, <1>6, <1>7, <1>10, <2>1, OccasionAssumption DEF TickInv
<1>13. RowInv'
  <2> SUFFICES ASSUME NEW a \in Automation
               PROVE  /\ automation'[a].status = "absent" => automation'[a].arming = 0
                      /\ automation'[a].next > clock => automation'[a].next \in automation'[a].rule
    BY <1>2 DEF RowInv
  <2> QED BY <1>1, <1>2, <1>3, <1>9, <1>10 DEF RowInv
<1>14. OneTaskPerArming' /\ UnusedOccasion' /\ OneNoticePerTask'
  BY <1>1, <1>2 DEF OneTaskPerArming, UnusedOccasion, OneNoticePerTask
<1> QED BY <1>8, <1>11, <1>12, <1>13, <1>14 DEF ScheduleInv

(* A task takes its claim with it. *)
LEMMA CreateTaskKeeps ==
    ASSUME ScheduleInv, NEW p \in Ticker, NEW c \in ticker[p].todo, NEW o \in Occasion,
           CreateTask(p, c, o)
    PROVE  ScheduleInv'
<1> DEFINE task == [status |-> "queued", auto |-> c.auto, arming |-> c.arming, at |-> c.at]
           place == [ticker[p] EXCEPT !.pc = o, !.todo = @ \ {c}]
<1>1. AutoTypeOK /\ ClaimInv /\ TickInv /\ RowInv /\ OneNoticePerTask /\ OneTaskPerArming
      /\ UnusedOccasion
  BY DEF ScheduleInv
<1>2. /\ occasion' = [occasion EXCEPT ![o] = task]
      /\ UNCHANGED <<clock, automation, notices>> /\ occasion[o].status = "none"
  BY DEF CreateTask
<1>3. ticker' = [ticker EXCEPT ![p] = place] /\ ticker[p] \in TickPlace
  BY <1>1 DEF CreateTask, AutoTypeOK, TickPlace
<1>4. /\ place \in TickPlace /\ place.pc = o /\ place.now = ticker[p].now
      /\ place.due = ticker[p].due /\ place.todo = ticker[p].todo \ {c}
  BY <1>3 DEF TickPlace
<1>5. c \in Claim /\ SpentArming(c)
  BY <1>1 DEF AutoTypeOK, ClaimInv
<1>6. /\ task \in [status: {"none", "queued", "completed", "failed"},
                   auto: Automation \union {{}}, arming: Nat, at: Nat]
      /\ task.auto = c.auto /\ task.arming = c.arming /\ task.at = c.at /\ task.status = "queued"
  BY <1>5 DEF Claim
<1> HIDE DEF task, place
<1>7. AutoTypeOK'
  BY <1>1, <1>2, <1>3, <1>4, <1>6 DEF AutoTypeOK, TickPlace
<1>8. /\ occasion'[o] = task /\ \A u \in Occasion \ {o} : occasion'[u] = occasion[u]
      /\ ticker'[p] = place /\ \A q \in Ticker \ {p} : ticker'[q] = ticker[q]
  BY <1>1, <1>2, <1>3 DEF AutoTypeOK
<1>9. \A q \in Ticker : ticker'[q].todo \subseteq ticker[q].todo
  BY <1>4, <1>8
<1>10. \A u \in Occasion : occasion'[u].status # "none" => SpentArming(occasion'[u])
  BY <1>1, <1>5, <1>6, <1>8 DEF ClaimInv, SpentArming
<1>11. \A q \in Ticker : \A d \in ticker'[q].todo : SpentArming(d)
  BY <1>1, <1>9 DEF ClaimInv
<1>12. \A q, s \in Ticker : \A d \in ticker'[q].todo, e \in ticker'[s].todo :
           SameArming(d, e) => q = s /\ d = e
  BY <1>1, <1>9 DEF ClaimInv
<1>13. \A u \in Occasion, q \in Ticker : \A d \in ticker'[q].todo :
           occasion'[u].status # "none" => ~SameArming(occasion'[u], d)
  <2> SUFFICES ASSUME NEW u \in Occasion, NEW q \in Ticker, NEW d \in ticker'[q].todo,
                      occasion'[u].status # "none"
               PROVE  ~SameArming(occasion'[u], d)
    OBVIOUS
  <2>1. CASE u = o
    <3>1. ~SameArming(c, d)
      <4>1. d \in ticker[q].todo
        BY <1>9
      <4>2. CASE q = p
        BY <1>1, <1>4, <1>8, <4>1, <4>2 DEF ClaimInv
      <4>3. CASE q # p
        BY <1>1, <4>1, <4>3 DEF ClaimInv
      <4> QED BY <4>2, <4>3
    <3> QED BY <1>6, <1>8, <2>1, <3>1 DEF SameArming
  <2>2. CASE u # o
    BY <1>1, <1>8, <1>9, <2>2 DEF ClaimInv
  <2> QED BY <2>1, <2>2
<1>14. ClaimInv'
  BY <1>2, <1>10, <1>11, <1>12, <1>13 DEF ClaimInv, SpentArming
<1>15. OneTaskPerArming'
  <2>1. \A u \in Occasion : occasion[u].status # "none" => ~SameArming(occasion[u], c)
    BY <1>1 DEF ClaimInv
  <2> QED BY <1>1, <1>6, <1>8, <2>1 DEF OneTaskPerArming, SameArming
<1>16. TickInv' /\ RowInv' /\ UnusedOccasion' /\ OneNoticePerTask'
  BY <1>1, <1>2, <1>4, <1>6, <1>8 DEF TickInv, RowInv, UnusedOccasion, OneNoticePerTask
<1> QED BY <1>7, <1>14, <1>15, <1>16 DEF ScheduleInv

(* The end of a claim, of a tick or of the process, and a link to a task, take
   claims away and arm nothing. *)
LEMMA TicksEndKeeps ==
    ASSUME ScheduleInv, UNCHANGED <<clock, occasion, notices>>,
           ticker' \in [Ticker -> TickPlace],
           \A p \in Ticker : \/ ticker'[p] = IdleTicker
                             \/ /\ ticker'[p].now = ticker[p].now /\ ticker'[p].due = ticker[p].due
                                /\ ticker'[p].todo \subseteq ticker[p].todo
                                /\ ticker'[p].pc \in {ticker[p].pc, "creating"},
           automation' \in [Automation -> AutomationRow],
           \A a \in Automation : /\ automation'[a].arming = automation[a].arming
                                 /\ automation'[a].next = automation[a].next
                                 /\ automation'[a].rule = automation[a].rule
                                 /\ automation'[a].status = automation[a].status
    PROVE  ScheduleInv'
<1>1. AutoTypeOK /\ ClaimInv /\ TickInv /\ RowInv /\ OneNoticePerTask
  BY DEF ScheduleInv
<1>2. AutoTypeOK'
  BY <1>1 DEF AutoTypeOK, TickPlace
<1>3. \A p \in Ticker : ticker'[p].todo \subseteq ticker[p].todo
  BY IdlePlace
<1>4. ClaimInv' /\ OneTaskPerArming' /\ UnusedOccasion'
  BY <1>1, <1>2, <1>3, ClaimFrame DEF AutoTypeOK, AutomationRow
<1>5. TickInv'
  <2> SUFFICES ASSUME NEW p \in Ticker
               PROVE  /\ ticker'[p].now <= clock
                      /\ ticker'[p].pc \in Occasion => occasion[ticker'[p].pc].status # "none"
                      /\ \A d \in ticker'[p].due :
                             automation'[d.auto].next <= ticker'[p].now
                                 => automation'[d.auto].rule = d.rule
    BY DEF TickInv
  <2>1. CASE ticker'[p] = IdleTicker
    BY <1>1, <2>1, IdlePlace, OccasionAssumption DEF AutoTypeOK
  <2>2. CASE ticker'[p] # IdleTicker
    <3>1. \A d \in ticker[p].due : d.auto \in Automation
      BY <1>1 DEF AutoTypeOK, Due
    <3> QED BY <1>1, <2>2, <3>1, OccasionAssumption DEF TickInv
  <2> QED BY <2>1, <2>2
<1> QED BY <1>1, <1>2, <1>4, <1>5 DEF ScheduleInv, RowInv, OneNoticePerTask

(* Every step of a tick keeps the schedule. *)
LEMMA TickKeeps == ASSUME ScheduleInv, NEW p \in Ticker, TickStep(p) PROVE ScheduleInv'
<1>1. AutoTypeOK /\ ticker \in [Ticker -> TickPlace] /\ ticker[p] \in TickPlace
      /\ automation \in [Automation -> AutomationRow] /\ TickInv /\ ClaimInv
  BY DEF ScheduleInv, AutoTypeOK, TickPlace
<1>2. ASSUME NEW c \in ticker[p].todo, SkipClaim(p, c) PROVE ScheduleInv'
  <2> DEFINE place == [ticker[p] EXCEPT !.todo = @ \ {c}]
  <2>1. ticker' = [ticker EXCEPT ![p] = place] /\ UNCHANGED <<clock, automation, occasion, notices>>
    BY <1>1, <1>2 DEF SkipClaim, TickPlace
  <2>2. /\ place \in TickPlace /\ place.pc = ticker[p].pc /\ place.now = ticker[p].now
        /\ place.due = ticker[p].due /\ place.todo = ticker[p].todo \ {c}
    BY <1>1 DEF TickPlace
  <2> HIDE DEF place
  <2>3. ticker'[p] = place /\ \A q \in Ticker \ {p} : ticker'[q] = ticker[q]
    BY <1>1, <2>1
  <2>4. ticker' \in [Ticker -> TickPlace]
    BY <1>1, <2>1, <2>2
  <2>5. \A q \in Ticker : /\ ticker'[q].now = ticker[q].now /\ ticker'[q].due = ticker[q].due
                          /\ ticker'[q].todo \subseteq ticker[q].todo
                          /\ ticker'[q].pc = ticker[q].pc
    BY <2>2, <2>3
  <2> QED BY <1>1, <2>1, <2>4, <2>5, TicksEndKeeps
<1>3. ASSUME NEW o \in Occasion, LinkTask(p, o) PROVE ScheduleInv'
  <2> DEFINE place == [ticker[p] EXCEPT !.pc = "creating"]
             b == occasion[o].auto
             row == [automation[b] EXCEPT !.last = o]
  <2>1. ticker' = [ticker EXCEPT ![p] = place] /\ UNCHANGED <<clock, occasion, notices>>
    BY <1>1, <1>3 DEF LinkTask, TickPlace
  <2>2. /\ place \in TickPlace /\ place.pc = "creating" /\ place.now = ticker[p].now
        /\ place.due = ticker[p].due /\ place.todo = ticker[p].todo
    BY <1>1 DEF TickPlace
  <2> HIDE DEF place
  <2>3. ticker'[p] = place /\ \A q \in Ticker \ {p} : ticker'[q] = ticker[q]
    BY <1>1, <2>1
  <2>4. ticker' \in [Ticker -> TickPlace]
    BY <1>1, <2>1, <2>2
  <2>5. \A q \in Ticker : /\ ticker'[q].now = ticker[q].now /\ ticker'[q].due = ticker[q].due
                          /\ ticker'[q].todo \subseteq ticker[q].todo
                          /\ ticker'[q].pc \in {ticker[q].pc, "creating"}
    BY <2>2, <2>3
  <2>6. b \in Automation
    BY <1>1, <1>3 DEF LinkTask, TickInv, ClaimInv, SpentArming
  <2>7. automation' = automation \/ automation' = [automation EXCEPT ![b] = row]
    BY <1>1, <1>3, <2>6 DEF LinkTask, AutomationRow
  <2>8. /\ row \in AutomationRow /\ row.arming = automation[b].arming
        /\ row.next = automation[b].next /\ row.rule = automation[b].rule
        /\ row.status = automation[b].status
    BY <1>1, <2>6 DEF AutomationRow
  <2> HIDE DEF row, b
  <2>9. /\ automation' \in [Automation -> AutomationRow]
        /\ \A a \in Automation : /\ automation'[a].arming = automation[a].arming
                                 /\ automation'[a].next = automation[a].next
                                 /\ automation'[a].rule = automation[a].rule
                                 /\ automation'[a].status = automation[a].status
    BY <1>1, <2>6, <2>7, <2>8
  <2> QED BY <2>1, <2>4, <2>5, <2>9, TicksEndKeeps
<1>4. CASE TickEnds(p)
  <2>1. ticker' = [ticker EXCEPT ![p] = IdleTicker]
        /\ UNCHANGED <<clock, automation, occasion, notices>>
    BY <1>4 DEF TickEnds
  <2>2. ticker' \in [Ticker -> TickPlace] /\ \A q \in Ticker : ticker'[q] \in {ticker[q], IdleTicker}
    BY <1>1, <2>1, IdlePlace
  <2> QED BY <1>1, <2>1, <2>2, TicksEndKeeps
<1> QED BY <1>2, <1>3, <1>4, SelectKeeps, ClaimDueKeeps, CreateTaskKeeps DEF TickStep

(* Every step keeps the schedule. *)
LEMMA ScheduleStepHolds == ScheduleInv /\ [AutoNext]_autoVars => ScheduleInv'
<1> SUFFICES ASSUME ScheduleInv, [AutoNext]_autoVars PROVE ScheduleInv'
  OBVIOUS
<1>1. AutoTypeOK /\ TickInv /\ RowInv /\ OneNoticePerTask
  BY DEF ScheduleInv
<1>2. CASE Pass
  <2>1. clock' = clock + 1 /\ UNCHANGED <<automation, ticker, occasion, notices>> /\ clock \in Nat
    BY <1>1, <1>2 DEF Pass, AutoTypeOK
  <2>2. AutoTypeOK'
    BY <1>1, <2>1 DEF AutoTypeOK
  <2>3. ClaimInv' /\ OneTaskPerArming' /\ UnusedOccasion'
    BY <1>1, <2>1, <2>2, ClaimFrame DEF AutoTypeOK, AutomationRow
  <2>4. TickInv' /\ RowInv'
    BY <1>1, <2>1 DEF AutoTypeOK, AutomationRow, TickInv, RowInv
  <2> QED BY <1>1, <2>1, <2>2, <2>3, <2>4 DEF ScheduleInv, OneNoticePerTask
<1>3. CASE SchedulerCrash
  <2>1. ticker' = [p \in Ticker |-> IdleTicker] /\ UNCHANGED <<clock, automation, occasion, notices>>
    BY <1>3 DEF SchedulerCrash
  <2>2. automation \in [Automation -> AutomationRow] /\ ticker' \in [Ticker -> TickPlace]
    BY <1>1, <2>1, IdlePlace DEF AutoTypeOK
  <2> QED BY <2>1, <2>2, TicksEndKeeps
<1>4. ASSUME NEW o \in Occasion, NEW s \in {"queued", "completed", "failed"},
             occasion' = [occasion EXCEPT ![o].status = s], occasion[o].status # "none",
             UNCHANGED <<clock, automation, ticker>>, notices' \in [Occasion -> 0..1]
      PROVE  ScheduleInv'
  <2>1. AutoTypeOK'
    BY <1>1, <1>4 DEF AutoTypeOK
  <2>2. \A u \in Occasion : /\ occasion'[u].auto = occasion[u].auto
                            /\ occasion'[u].arming = occasion[u].arming
                            /\ occasion'[u].at = occasion[u].at
                            /\ occasion'[u].status = "none" <=> occasion[u].status = "none"
    BY <1>1, <1>4 DEF AutoTypeOK
  <2>3. ClaimInv' /\ OneTaskPerArming' /\ UnusedOccasion'
    BY <1>1, <1>4, <2>1, <2>2, ClaimFrame DEF AutoTypeOK, AutomationRow
  <2>4. TickInv' /\ RowInv' /\ OneNoticePerTask'
    BY <1>1, <1>4, <2>2 DEF TickInv, RowInv, OneNoticePerTask
  <2> QED BY <2>1, <2>3, <2>4 DEF ScheduleInv
<1>5. notices \in [Occasion -> 0..1]
  <2>1. \A o \in Occasion : notices[o] \in Nat /\ notices[o] <= 1
    BY <1>1 DEF AutoTypeOK, OneNoticePerTask
  <2>2. \A o \in Occasion : notices[o] \in 0..1
    BY <2>1
  <2> QED BY <1>1, <2>2 DEF AutoTypeOK
<1>6. ASSUME NEW o \in Occasion, NEW s \in {"completed", "failed"}, FinishOccasion(o, s)
      PROVE  ScheduleInv'
  <2>1. Notified(o, s) \in 0..1
    BY <1>5 DEF Notified, Notifies
  <2> QED BY <1>4, <1>5, <1>6, <2>1 DEF FinishOccasion
<1>7. ASSUME NEW o \in Occasion, ResumeOccasion(o) PROVE ScheduleInv'
  BY <1>4, <1>5, <1>7 DEF ResumeOccasion
<1>8. CASE UNCHANGED autoVars
  BY <1>8 DEF autoVars, ScheduleInv, AutoTypeOK, ClaimInv, SpentArming, TickInv, RowInv,
     UnusedOccasion, OneTaskPerArming, OneNoticePerTask
<1> QED BY <1>2, <1>3, <1>6, <1>7, <1>8, UserKeeps, TickKeeps DEF AutoNext

(* The invariant of the scheduler, for any number of automations, ticks and
   tasks, any rules and any clock. *)
THEOREM ScheduleInvariance == AutoSpec => []ScheduleInv
BY ScheduleInitHolds, ScheduleStepHolds, PTL DEF AutoSpec

(* The invariant says what the rows promise. *)
LEMMA ScheduleImplies == ScheduleInv => ScheduleKept
<1> SUFFICES ASSUME ScheduleInv PROVE ScheduleKept
  OBVIOUS
<1>1. NotBeforeItsTime
  BY DEF ScheduleInv, NotBeforeItsTime, UnusedOccasion, ClaimInv, SpentArming, AutoTypeOK
<1> QED BY <1>1 DEF ScheduleInv, ScheduleKept, NextFollowsRule, RowInv

(* Every arming of a row is run by at most one task and none before its time, a
   future time is of the rule the row has, and a task leaves one notice
   (scheduler.py tick, task_runtime.py _create_automation_notification). *)
THEOREM ScheduleIsKept == AutoSpec => []ScheduleKept
BY ScheduleInvariance, ScheduleImplies, PTL

(***************************************************************************)
(* Connections to MCP servers.                                             *)
(***************************************************************************)

(* A future nobody answered yet is that of a request in the queue or of the one
   that is served: whoever empties the queue settles it, also across workers. *)
NoneForgotten == \A r \in Call : call[r] = "queued" =>
    (\E i \in 1..Len(calls) : calls[i] = r) \/ session = Serving(r)

McpInv == McpTypeOK /\ NoneForgotten /\ (session.pc = "serving" => session.serves \in Call)

(* Nothing was called yet. *)
LEMMA McpInitHolds == McpInit => McpInv
<1> SUFFICES ASSUME McpInit PROVE McpInv
  OBVIOUS
<1>0. /\ call \in [Call -> {"new", "queued", "answered", "failed", "cancelled"}]
      /\ closed \in BOOLEAN /\ late \subseteq Call
  BY DEF McpInit
<1>3. calls \in Seq(Call \union {StopItem})
  BY DEF McpInit
<1>4. /\ session \in [pc: {"done", "opening", "waiting", "serving", "leaving", "broken"},
                      serves: Call \union {StopItem}]
      /\ session.pc # "serving"
  BY DEF McpInit, NoSession
<1>1. McpTypeOK /\ session.pc # "serving"
  BY <1>0, <1>3, <1>4 DEF McpTypeOK
<1>2. NoneForgotten
  BY DEF McpInit, NoneForgotten
<1> QED BY <1>1, <1>2 DEF McpInv

(* The session's places. *)
LEMMA SessionFacts ==
    /\ NoSession.pc = "done" /\ NoSession.serves = StopItem
    /\ \A r : Serving(r).pc = "serving" /\ Serving(r).serves = r
    /\ \A q : State(q).pc = q /\ State(q).serves = StopItem
BY DEF NoSession, Serving, State

(* A drained queue leaves only the served call unsettled. *)
LEMMA DrainSettles ==
    ASSUME McpInv
    PROVE  /\ Drained \in [Call -> {"new", "queued", "answered", "failed", "cancelled"}]
           /\ \A r \in Call : Drained[r] = "queued" => session = Serving(r)
BY DEF McpInv, McpTypeOK, NoneForgotten, Drained

(* Every step keeps the invariant. *)
LEMMA McpStepHolds == McpInv /\ [McpNext]_mcpVars => McpInv'
<1> SUFFICES ASSUME McpInv, [McpNext]_mcpVars PROVE McpInv'
  OBVIOUS
<1> DEFINE Outcome == {"new", "queued", "answered", "failed", "cancelled"}
           Item == Call \union {StopItem}
<1>1. /\ call \in [Call -> Outcome] /\ calls \in Seq(Item) /\ closed \in BOOLEAN
      /\ late \subseteq Call /\ session.serves \in Item
      /\ session.pc \in {"done", "opening", "waiting", "serving", "leaving", "broken"}
  BY DEF McpInv, McpTypeOK
<1> DEFINE Place == [pc: {"done", "opening", "waiting", "serving", "leaving", "broken"},
                     serves: Item]
<1>2. /\ NoSession \in Place /\ (\A r \in Call : Serving(r) \in Place)
      /\ \A q \in {"opening", "waiting", "leaving", "broken"} : State(q) \in Place
  BY DEF NoSession, Serving, State
<1>3. session \in Place
  BY DEF McpInv, McpTypeOK
<1> USE StopAssumption
\* A step that empties the queue has drained it, and leaves no call served.
<1>4. ASSUME calls' = <<>>, session' \in Place, session'.pc # "serving",
             closed' \in BOOLEAN, late' \subseteq Call, call' \in [Call -> Outcome],
             \A r \in Call : call'[r] # "queued"
      PROVE  McpInv'
  BY <1>4 DEF McpInv, McpTypeOK, NoneForgotten
<1>5. ASSUME NEW r \in Call, McpRequest(r) PROVE McpInv'
  <2>1. /\ call' = [call EXCEPT ![r] = "queued"] /\ calls' = Append(calls, r)
        /\ session' \in {session, State("opening")} /\ (session' # session => session.pc = "done")
        /\ closed' = closed /\ late' \subseteq Call
    BY <1>1, <1>5 DEF McpRequest, NeedsWorker
  <2>2. /\ calls' \in Seq(Item) /\ Len(calls') = Len(calls) + 1 /\ calls'[Len(calls) + 1] = r
        /\ \A i \in 1..Len(calls) : calls'[i] = calls[i]
    BY <1>1, <2>1
  <2>3. McpTypeOK' /\ (session'.pc = "serving" => session'.serves \in Call)
    BY <1>1, <1>2, <1>3, <2>1, <2>2, SessionFacts DEF McpInv, McpTypeOK
  <2>4. NoneForgotten'
    <3> SUFFICES ASSUME NEW s \in Call, call'[s] = "queued"
                 PROVE  (\E i \in 1..Len(calls') : calls'[i] = s) \/ session' = Serving(s)
      BY DEF NoneForgotten
    <3>0. Len(calls) \in Nat
      BY <1>1
    <3>1. CASE s = r
      BY <2>2, <3>0, <3>1
    <3>2. CASE s # r
      <4>1. call[s] = "queued"
        BY <1>1, <2>1, <3>2
      <4>2. (\E i \in 1..Len(calls) : calls[i] = s) \/ session = Serving(s)
        BY <4>1 DEF McpInv, NoneForgotten
      <4>3. session = Serving(s) => session' = session
        BY <2>1, SessionFacts
      <4> QED BY <2>2, <3>0, <4>2, <4>3
    <3> QED BY <3>1, <3>2
  <2> QED BY <2>3, <2>4 DEF McpInv
<1>6. CASE OpenFails \/ LeaveBroken
  <2>1. /\ call' = Drained /\ calls' = <<>> /\ session' = NoSession /\ UNCHANGED <<closed, late>>
        /\ session.pc # "serving"
    BY <1>6 DEF OpenFails, LeaveBroken
  <2> QED BY <1>1, <1>2, <1>4, <2>1, DrainSettles, SessionFacts
<1>7. CASE OperationFails
  <2>1. session.pc = "serving" /\ session.serves \in Call /\ UNCHANGED <<closed, late>>
    BY <1>7 DEF OperationFails, McpInv
  <2>2. CASE call[session.serves] = "cancelled"
    <3>1. session' = State("broken") /\ UNCHANGED <<call, calls>>
      BY <1>7, <2>2 DEF OperationFails
    <3>2. \A r \in Call : call[r] = "queued" => session # Serving(r)
      BY <2>2, SessionFacts
    <3> QED BY <1>1, <1>2, <2>1, <3>1, <3>2, SessionFacts DEF McpInv, McpTypeOK, NoneForgotten
  <2>3. CASE call[session.serves] # "cancelled"
    <3>1. /\ call' = [Drained EXCEPT ![session.serves] = "failed"]
          /\ calls' = <<>> /\ session' = State("leaving")
      BY <1>7, <2>3 DEF OperationFails
    <3>2. \A r \in Call : call'[r] # "queued"
      BY <2>1, <3>1, DrainSettles, SessionFacts
    <3> QED BY <1>1, <1>2, <1>4, <2>1, <3>1, <3>2, DrainSettles, SessionFacts
  <2> QED BY <2>2, <2>3
<1>8. CASE TakeRequest
  <2>1. /\ session.pc = "waiting" /\ calls # <<>> /\ calls' = Tail(calls)
        /\ UNCHANGED <<call, closed, late>>
        /\ session' = IF Head(calls) = StopItem THEN State("leaving")
                      ELSE IF call[Head(calls)] = "cancelled" THEN session
                      ELSE Serving(Head(calls))
    BY <1>8 DEF TakeRequest
  <2>2. /\ Head(calls) \in Item /\ Tail(calls) \in Seq(Item) /\ Len(calls) \in Nat
        /\ Head(calls) = calls[1] /\ Len(calls') = Len(calls) - 1
        /\ \A i \in 1..(Len(calls) - 1) : calls'[i] = calls[i + 1]
    BY <1>1, <2>1
  <2>3. McpTypeOK' /\ (session'.pc = "serving" => session'.serves \in Call)
    BY <1>1, <1>2, <1>3, <2>1, <2>2, SessionFacts DEF McpTypeOK
  <2>4. NoneForgotten'
    <3> SUFFICES ASSUME NEW s \in Call, call[s] = "queued"
                 PROVE  (\E i \in 1..Len(calls') : calls'[i] = s) \/ session' = Serving(s)
      BY <2>1 DEF NoneForgotten
    <3>1. PICK i \in 1..Len(calls) : calls[i] = s
      BY <2>1, SessionFacts DEF McpInv, NoneForgotten
    <3>2. CASE i = 1
      BY <2>1, <2>2, <3>1, <3>2
    <3>3. CASE i # 1
      <4>1. i - 1 \in 1..Len(calls') /\ calls'[i - 1] = s
        BY <2>2, <3>1, <3>3
      <4> QED BY <4>1
    <3> QED BY <3>2, <3>3
  <2> QED BY <2>3, <2>4 DEF McpInv
<1>9. CASE Answer
  <2>1. session.pc = "serving" /\ session.serves \in Call /\ UNCHANGED <<calls, closed, late>>
    BY <1>9 DEF Answer, McpInv
  <2>2. /\ call' \in {call, [call EXCEPT ![session.serves] = "answered"]}
        /\ call'[session.serves] \in {"cancelled", "answered"}
        /\ session' \in {State("broken"), State("waiting")}
    BY <1>1, <1>9, <2>1 DEF Answer
  <2>3. McpTypeOK' /\ session'.pc # "serving"
    BY <1>1, <1>2, <2>1, <2>2, SessionFacts DEF McpTypeOK
  <2>4. NoneForgotten'
    BY <1>1, <2>1, <2>2, SessionFacts DEF McpInv, NoneForgotten
  <2> QED BY <2>3, <2>4 DEF McpInv
<1>10. CASE OpenSession \/ IdleTimeout \/ LeaveSession
  <2>1. /\ session.pc # "serving" /\ session' \in {State("waiting"), State("leaving"), NoSession}
        /\ UNCHANGED <<call, calls, closed, late>>
    BY <1>10 DEF OpenSession, IdleTimeout, LeaveSession
  <2> QED BY <1>1, <1>2, <2>1, SessionFacts DEF McpInv, McpTypeOK, NoneForgotten
<1>11. ASSUME NEW r \in Call, CancelCall(r) PROVE McpInv'
  <2>1. call' = [call EXCEPT ![r] = "cancelled"] /\ UNCHANGED <<calls, session, closed, late>>
    BY <1>11 DEF CancelCall
  <2> QED BY <1>1, <2>1 DEF McpInv, McpTypeOK, NoneForgotten
<1>12. CASE CloseConnection
  <2>1. /\ calls' \in {calls, Append(calls, StopItem)} /\ closed' = TRUE
        /\ UNCHANGED <<call, session, late>>
    BY <1>12 DEF CloseConnection
  <2>2. /\ calls' \in Seq(Item) /\ Len(calls) \in Nat /\ Len(calls') >= Len(calls)
        /\ Len(calls') \in Nat /\ \A i \in 1..Len(calls) : calls'[i] = calls[i]
    BY <1>1, <2>1
  <2>3. McpTypeOK'
    BY <1>1, <1>3, <2>1, <2>2 DEF McpTypeOK
  <2>4. NoneForgotten'
    BY <2>1, <2>2 DEF McpInv, NoneForgotten
  <2> QED BY <2>1, <2>3, <2>4 DEF McpInv
<1>13. CASE UNCHANGED mcpVars
  BY <1>13 DEF mcpVars, McpInv, McpTypeOK, NoneForgotten
<1> QED BY <1>5, <1>6, <1>7, <1>8, <1>9, <1>10, <1>11, <1>12, <1>13
        DEF McpNext, ServerStep, WorkerStep

(* No call is forgotten, for any number of calls: what is left unanswered waits in
   the queue or is being served (request and _worker of mcp service.py). *)
THEOREM NoCallIsForgotten == McpSpec => [](McpTypeOK /\ NoneForgotten)
<1>1. McpInv => McpTypeOK /\ NoneForgotten
  BY DEF McpInv
<1> QED BY McpInitHolds, McpStepHolds, <1>1, PTL DEF McpSpec

(***************************************************************************)
(* All services together.                                                  *)
(***************************************************************************)

(* Whichever service moves, every service keeps its own invariant. *)
ServicesInv == /\ part \in Parts /\ ScheduleInv /\ DeliveryInv /\ MemoryJobsInv
               /\ SubagentsInv /\ McpInv

(* The step of one service is a step of its own, and a stutter of the others. *)
LEMMA ServicesStep == ServicesInv /\ [ServicesNext]_servicesVars => ServicesInv'
<1> SUFFICES ASSUME ServicesInv, [ServicesNext]_servicesVars PROVE ServicesInv'
  OBVIOUS
<1>1. /\ [AutoNext]_autoVars /\ [DeliveryNext]_deliveryVars /\ [MemoryJobsNext]_memoryJobVars
      /\ [SubagentsNext]_subagentVars /\ [McpNext]_mcpVars /\ part' = part
  BY DEF ServicesNext, servicesVars, AutomationsMove, DeliveriesMove, MemoryJobsMove,
         SubagentsMove, McpMoves
<1> QED BY <1>1, ScheduleStepHolds, DeliveryStepHolds, MemoryJobsStepHolds, SubagentsStepHolds,
           McpStepHolds DEF ServicesInv

(* The services keep their types and their promises side by side. *)
THEOREM ServicesAreSound ==
    ServicesSpec => [](ServicesTypeOK /\ ScheduleKept /\ OutboxSafe /\ ExtractionBounded
                       /\ ChildOutcome /\ NoneForgotten)
<1>1. ServicesInit => ServicesInv
  BY ScheduleInitHolds, DeliveryInitHolds, MemoryJobsInitHolds, SubagentsInitHolds, McpInitHolds
     DEF ServicesInit, ServicesInv
<1>2. ServicesInv => ServicesTypeOK /\ ScheduleKept /\ OutboxSafe /\ ExtractionBounded
                     /\ ChildOutcome /\ NoneForgotten
  BY ScheduleImplies DEF ServicesInv, ServicesTypeOK, ScheduleInv, DeliveryInv, DeliveryParts,
     MemoryJobsInv, SubagentsInv, McpInv
<1> QED BY <1>1, <1>2, ServicesStep, PTL DEF ServicesSpec
=============================================================================
