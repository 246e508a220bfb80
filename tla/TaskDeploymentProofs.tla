------------------------ MODULE TaskDeploymentProofs ------------------------
(***************************************************************************)
(* More of TaskLifecycle: the answers of a task, in every deployment, and  *)
(* what holds only when one process serves HTTP and runs the executions    *)
(* (agent_worker_mode = "embedded"): no row is left running by itself, a   *)
(* completed task is final, and a cancelled execution starts no turn.      *)
(* The many steps of an execution are put into two shapes first, so that   *)
(* each invariant looks at a step of an execution only once.               *)
(***************************************************************************)
EXTENDS TaskLifecycleProofs, FiniteSetTheorems

\* The LiveTasks only lose freshness: a signal stays, and none is dropped.
LiveKept == \A p \in Proc : \A t \in Task :
    /\ live[p][t] = "signalled" => live'[p][t] = "signalled"
    /\ live[p][t] # "none" => live'[p][t] # "none"

\* A step of the execution in s that goes on with the same task and opens no section.
GoesOn(s) ==
    /\ Free(Host[s]) /\ Active(s) /\ exec[s].pc # "finish"
    /\ UNCHANGED <<status, epoch, up, txn, stranded>> /\ LiveKept
    /\ exec' = [exec EXCEPT ![s] = exec'[s]]
    /\ exec'[s].task = exec[s].task /\ exec'[s].doomed = exec[s].doomed
    /\ exec'[s].pc # "idle"
    /\ exec'[s].pc = "llm" => exec[s].pc # "turn" \/ L(s) # "signalled"
    /\ \/ UNCHANGED answers
       \/ /\ answers' = [answers EXCEPT ![T(s)] = @ + 1]
          /\ exec'[s].pc = "finish"

\* A step that opens section x in process p, of what it has just read.
Opens(p, x) ==
    /\ Free(p) /\ txn' = [txn EXCEPT ![p] = x]
    /\ UNCHANGED <<status, epoch, up, stranded, exec, answers>> /\ LiveKept
    /\ x.op \in {"cancel", "resume", "resolve", "ask", "finish"} => x.seen = status[x.task]
    /\ x.op \in {"ask", "finish"} => exec[x.slot].task = x.task
    /\ x.op \in {"cancel", "resume", "enqueue"} => p = Api
    /\ x.op = "resume" => x.seen \in {"failed", "cancelled"} /\ epoch[x.task] < MaxResumes
    /\ x.op = "cancel" => x.seen \notin Terminal /\ live'[Api][x.task] \in {"none", "signalled"}

\* A step that touches nothing the invariants below speak of.
Elsewhere ==
    /\ UNCHANGED <<status, epoch, up, txn, stranded, exec, answers>> /\ LiveKept
    /\ UNCHANGED live \/ Free(Api)

\* Steps of an execution that neither check for cancellation nor open a section.
LEMMA UncheckedGoOn ==
    ASSUME IInv, IInv', NEW s \in Slot,
           Start(s) \/ TurnsExhausted(s) \/ CallDecided(s) \/ PermissionHooksPass(s)
             \/ WaitEnds(s) \/ ToolsDone(s) \/ PersistAnswer(s) \/ Fail(s)
    PROVE  GoesOn(s)
<1>1. exec \in [Slot -> Exec] /\ exec' \in [Slot -> Exec]
  BY DEF IInv, TypeOK
<1> USE DEF GoesOn, LiveKept, At, Active, Become, ToFinish, NextCall, rows, hist, Exec
<1>2. CASE Start(s)
  BY <1>1, <1>2 DEF Start
<1>3. CASE TurnsExhausted(s)
  BY <1>1, <1>3 DEF TurnsExhausted
<1>4. CASE CallDecided(s)
  BY <1>1, <1>4 DEF CallDecided
<1>5. CASE PermissionHooksPass(s)
  BY <1>1, <1>5 DEF PermissionHooksPass
<1>6. CASE WaitEnds(s)
  BY <1>1, <1>6 DEF WaitEnds
<1>7. CASE ToolsDone(s)
  BY <1>1, <1>7 DEF ToolsDone
<1>8. CASE PersistAnswer(s)
  BY <1>1, <1>8 DEF PersistAnswer
<1>9. CASE Fail(s)
  BY <1>1, <1>9 DEF Fail
<1> QED
  BY <1>2, <1>3, <1>4, <1>5, <1>6, <1>7, <1>8, <1>9

\* A check for cancellation that finds none has seen no signal, and keeps every signal.
LEMMA CheckKeeps ==
    ASSUME TypeOK, NEW s \in Slot, T(s) \in Task, NEW hit, Check(s, hit)
    PROVE  LiveKept /\ (hit = FALSE => L(s) # "signalled")
<1>1. PICK o \in Checks(s) : o.hit = hit /\ live' = [live EXCEPT ![Host[s]][T(s)] = o.live]
  BY DEF Check
<1>2. CASE L(s) = "signalled"
  BY <1>1, <1>2 DEF Checks, L, LiveKept, TypeOK
<1>3. CASE L(s) # "signalled"
  <2>1. L(s) # "none" => o.live # "none"
    BY <1>1, <1>3 DEF Checks, FreshCheck
  <2>2. QED
    BY <1>1, <1>3, <2>1 DEF L, LiveKept, TypeOK
<1> QED
  BY <1>2, <1>3

\* Steps of an execution that check for cancellation.
LEMMA CheckedGoOn ==
    ASSUME IInv, IInv', NEW s \in Slot,
           TurnStart(s) \/ LlmRetries(s) \/ LlmAnswers(s) \/ LlmCallsTools(s) \/ PrepareCall(s)
             \/ CallAnswered(s) \/ RaiseCancelled(s) \/ EndsWithoutAnswer(s)
    PROVE  GoesOn(s)
<1>1. exec \in [Slot -> Exec] /\ exec' \in [Slot -> Exec] /\ TypeOK
  BY DEF IInv, TypeOK
<1>2. Active(s) => T(s) \in Task
  BY ActiveFacts
<1>3. \A hit \in BOOLEAN : T(s) \in Task /\ Check(s, hit) =>
          LiveKept /\ (hit = FALSE => L(s) # "signalled")
  BY <1>1, CheckKeeps
<1>4. UNCHANGED live => LiveKept
  BY DEF LiveKept
<1> USE DEF GoesOn, At, Active, Become, ToFinish, NextCall, rows, hist, Exec
<1>5. CASE TurnStart(s)
  BY <1>1, <1>2, <1>3, <1>5 DEF TurnStart
<1>6. CASE LlmRetries(s)
  BY <1>1, <1>2, <1>3, <1>6 DEF LlmRetries
<1>7. CASE LlmAnswers(s)
  BY <1>1, <1>2, <1>3, <1>4, <1>7 DEF LlmAnswers, Responds
<1>8. CASE LlmCallsTools(s)
  BY <1>1, <1>2, <1>3, <1>4, <1>8 DEF LlmCallsTools, Responds
<1>9. CASE PrepareCall(s)
  BY <1>1, <1>2, <1>3, <1>9 DEF PrepareCall
<1>10. CASE CallAnswered(s)
  BY <1>1, <1>2, <1>3, <1>10 DEF CallAnswered
<1>11. CASE RaiseCancelled(s)
  BY <1>1, <1>2, <1>3, <1>11 DEF RaiseCancelled
<1>12. CASE EndsWithoutAnswer(s)
  BY <1>1, <1>2, <1>3, <1>12 DEF EndsWithoutAnswer
<1> QED
  BY <1>5, <1>6, <1>7, <1>8, <1>9, <1>10, <1>11, <1>12

\* A resolution of its own request: the row is still pending and a section opens, or
\* the execution goes on.
LEMMA ResolvesOrGoesOn ==
    ASSUME IInv, IInv', NEW s \in Slot, HookRejects(s) \/ WaitTimesOut(s)
    PROVE  GoesOn(s) \/ \E x : Opens(Host[s], x)
<1>1. exec \in [Slot -> Exec] /\ exec' \in [Slot -> Exec]
  BY DEF IInv, TypeOK
<1>2. Free(Host[s]) /\ Active(s) /\ exec[s].pc # "finish"
  BY DEF HookRejects, WaitTimesOut, At, Active
<1>3. UNCHANGED <<status, epoch, up, stranded, answers, live>>
  BY DEF HookRejects, WaitTimesOut, rows, hist
<1>4. PICK v \in {"rejected", "expired"} : ResolveOwn(s, v)
  BY DEF HookRejects, WaitTimesOut
<1>5. CASE Pending(exec[s].ask)
  <2> DEFINE a == exec[s].ask
             x == [op |-> "resolve", task |-> owner[a], seen |-> status[owner[a]], slot |-> s,
                   ask |-> a, verdict |-> v]
  <2>1. txn' = [txn EXCEPT ![Host[s]] = x] /\ UNCHANGED exec
    BY <1>4, <1>5 DEF ResolveOwn, ResolveRead
  <2>2. Opens(Host[s], x)
    BY <1>2, <1>3, <2>1 DEF Opens, LiveKept
  <2> QED
    BY <2>2
<1>6. CASE ~Pending(exec[s].ask)
  BY <1>1, <1>2, <1>3, <1>4, <1>6 DEF ResolveOwn, GoesOn, LiveKept, Become, Exec
<1> QED
  BY <1>5, <1>6

\* Every other step that opens a section read the row it is about in the same step.
LEMMA SectionsOpenFresh ==
    ASSUME IInv
    PROVE  /\ \A s \in Slot : AskRead(s) \/ FinishRead(s) => \E x : Opens(Host[s], x)
           /\ \A t \in Task : CancelRead(t) =>
                  Elsewhere \/ \E x : Opens(Api, x)
           /\ \A t \in Task : ResumeRead(t) => \E x : Opens(Api, x)
           /\ \A a \in Approval, v \in {"approved", "rejected"} :
                  UserDecides(a, v) => \E x : Opens(Api, x)
<1> USE DEF Opens, LiveKept, NoTxn, rows, hist
<1>1. ASSUME NEW s \in Slot, AskRead(s) \/ FinishRead(s) PROVE \E x : Opens(Host[s], x)
  <2> DEFINE x(op) == [NoTxn EXCEPT !.op = op, !.task = T(s), !.seen = status[T(s)], !.slot = s]
  <2>1. CASE AskRead(s)
    <3>1. Opens(Host[s], x("ask"))
      BY <2>1 DEF AskRead, At, T
    <3> QED
      BY <3>1
  <2>2. CASE FinishRead(s)
    <3>1. Opens(Host[s], x("finish"))
      BY <2>2 DEF FinishRead, At, T
    <3> QED
      BY <3>1
  <2> QED
    BY <1>1, <2>1, <2>2
<1>2. ASSUME NEW t \in Task, CancelRead(t) PROVE Elsewhere \/ \E x : Opens(Api, x)
  <2>1. live \in [Proc -> [Task -> LiveState]]
    BY DEF IInv, TypeOK
  <2>2. live' = [live EXCEPT ![Api][t] = Signal(@)]
    BY <1>2 DEF CancelRead
  <2>3. LiveKept /\ live'[Api][t] \in {"none", "signalled"}
    BY <2>1, <2>2, ConstantsAssumption DEF Signal
  <2>4. UNCHANGED <<status, epoch, up, stranded, exec, answers>> /\ Free(Api)
    BY <1>2 DEF CancelRead
  <2> HIDE DEF LiveKept
  <2>5. CASE Cancellable(t)
    <3> DEFINE x == [NoTxn EXCEPT !.op = "cancel", !.task = t, !.seen = status[t]]
    <3>1. txn' = [txn EXCEPT ![Api] = x]
      BY <1>2, <2>5 DEF CancelRead
    <3>2. Opens(Api, x)
      BY <2>3, <2>4, <2>5, <3>1 DEF Cancellable
    <3> QED
      BY <3>2
  <2>6. CASE ~Cancellable(t)
    BY <1>2, <2>3, <2>4, <2>6 DEF CancelRead, Elsewhere
  <2> QED
    BY <2>5, <2>6
<1>3. ASSUME NEW t \in Task, ResumeRead(t) PROVE \E x : Opens(Api, x)
  <2> DEFINE x == [NoTxn EXCEPT !.op = "resume", !.task = t, !.seen = status[t]]
  <2>1. Opens(Api, x)
    BY <1>3 DEF ResumeRead
  <2> QED
    BY <2>1
<1>4. ASSUME NEW a \in Approval, NEW v \in {"approved", "rejected"}, UserDecides(a, v)
      PROVE  \E x : Opens(Api, x)
  <2> DEFINE x == [op |-> "resolve", task |-> owner[a], seen |-> status[owner[a]],
                   slot |-> None, ask |-> a, verdict |-> v]
  <2>1. Opens(Api, x)
    BY <1>4 DEF UserDecides, ResolveRead
  <2> QED
    BY <2>1
<1> QED
  BY <1>1, <1>2, <1>3, <1>4

(***************************************************************************)
(* Answers.                                                                *)
(***************************************************************************)

\* The executions of a task that may still persist an answer.
Unanswered(t) == {s \in Slot : Active(s) /\ exec[s].task = t /\ exec[s].pc # "finish"}

\* Whether the current epoch of a task has had its execution.
Spent(t) == IF status[t] \in {"absent", "queued"} THEN 0 ELSE 1

\* Each answer, and each execution that may still give one, used an epoch of its own.
AnswerInv == \A t \in Task :
    /\ IsFiniteSet(Unanswered(t))
    /\ answers[t] + Cardinality(Unanswered(t)) <= epoch[t] + Spent(t)

\* A step without a new answer or execution, which puts no row back to queued unless
\* it counts a new epoch, keeps the bound.
LEMMA AnswerFrame ==
    ASSUME IInv, IInv', AnswerInv, UNCHANGED answers,
           \A s \in Slot : exec'[s].pc \notin {"idle", "finish"} =>
               exec[s].pc \notin {"idle", "finish"} /\ exec'[s].task = exec[s].task,
           \A t \in Task : epoch[t] + Spent(t) <= epoch'[t] + Spent(t)'
    PROVE  AnswerInv'
<1> SUFFICES ASSUME NEW t \in Task
             PROVE  /\ IsFiniteSet(Unanswered(t)')
                    /\ answers'[t] + Cardinality(Unanswered(t)') <= epoch'[t] + Spent(t)'
  BY DEF AnswerInv
<1>1. Unanswered(t)' \in SUBSET Unanswered(t)
  BY DEF Unanswered, Active
<1>2. IsFiniteSet(Unanswered(t)')
      /\ Cardinality(Unanswered(t)') <= Cardinality(Unanswered(t))
  BY <1>1, FS_Subset DEF AnswerInv
<1>3. Cardinality(Unanswered(t)) \in Nat /\ Cardinality(Unanswered(t)') \in Nat
  BY <1>2, FS_CardinalityType DEF AnswerInv
<1>4. /\ answers[t] \in Nat /\ epoch[t] \in Nat /\ epoch'[t] \in Nat
      /\ Spent(t) \in Nat /\ Spent(t)' \in Nat
  BY DEF IInv, TypeOK, Spent
<1>5. answers[t] + Cardinality(Unanswered(t)) <= epoch[t] + Spent(t)
  BY DEF AnswerInv
<1> QED
  BY <1>2, <1>3, <1>4, <1>5

\* An execution that goes on keeps the bound: its answer takes its own place.
LEMMA GoesOnAnswers ==
    ASSUME IInv, IInv', AnswerInv, NEW s \in Slot, GoesOn(s)
    PROVE  AnswerInv'
<1>1. exec \in [Slot -> Exec] /\ Active(s) /\ exec[s].pc # "finish"
  BY DEF IInv, TypeOK, GoesOn
<1>2. \A r \in Slot : r # s => exec'[r] = exec[r]
  BY <1>1 DEF GoesOn
<1>3. \A t \in Task : Spent(t)' = Spent(t) /\ epoch'[t] = epoch[t]
  BY DEF GoesOn, Spent
<1>4. CASE UNCHANGED answers
  <2>1. \A r \in Slot : exec'[r].pc \notin {"idle", "finish"} =>
            exec[r].pc \notin {"idle", "finish"} /\ exec'[r].task = exec[r].task
    BY <1>1, <1>2 DEF GoesOn, Active
  <2>2. \A t \in Task : epoch[t] + Spent(t) <= epoch'[t] + Spent(t)'
    BY <1>3 DEF IInv, TypeOK, Spent
  <2> QED
    BY <1>4, <2>1, <2>2, AnswerFrame
<1>5. CASE answers' = [answers EXCEPT ![T(s)] = @ + 1] /\ exec'[s].pc = "finish"
  <2>1. T(s) \in Task /\ answers \in [Task -> Nat] /\ epoch \in [Task -> Nat]
    BY <1>1, ActiveFacts DEF IInv, TypeOK
  <2>2. SUFFICES ASSUME NEW t \in Task
                 PROVE  /\ IsFiniteSet(Unanswered(t)')
                        /\ answers'[t] + Cardinality(Unanswered(t)') <= epoch'[t] + Spent(t)'
    BY DEF AnswerInv
  <2>3. Unanswered(t)' = Unanswered(t) \ {s}
    BY <1>1, <1>2, <1>5 DEF Unanswered, Active
  <2>4. s \in Unanswered(t) <=> t = T(s)
    BY <1>1 DEF Unanswered, T
  <2>5. /\ IsFiniteSet(Unanswered(t)) /\ Cardinality(Unanswered(t)) \in Nat
        /\ answers[t] + Cardinality(Unanswered(t)) <= epoch[t] + Spent(t)
    BY FS_CardinalityType DEF AnswerInv
  <2>6. /\ IsFiniteSet(Unanswered(t)')
        /\ Cardinality(Unanswered(t)') = IF t = T(s) THEN Cardinality(Unanswered(t)) - 1
                                         ELSE Cardinality(Unanswered(t))
    BY <2>3, <2>4, <2>5, FS_RemoveElement
  <2>7. answers'[t] = answers[t] + (IF t = T(s) THEN 1 ELSE 0)
    BY <1>5, <2>1
  <2> QED
    BY <1>3, <2>1, <2>5, <2>6, <2>7 DEF Spent
<1> QED
  BY <1>4, <1>5 DEF GoesOn

\* A claim starts the one execution of a queued row's epoch.
LEMMA ActivateAnswers ==
    ASSUME IInv, IInv', AnswerInv, NEW p \in Proc, NEW s \in Slot, Activate(p, s)
    PROVE  AnswerInv'
<1> DEFINE u == held[p]
<1>1. /\ exec \in [Slot -> Exec] /\ status \in [Task -> Status] /\ epoch \in [Task -> Nat]
      /\ answers \in [Task -> Nat] /\ u \in Task
  BY DEF IInv, TypeOK, Activate
<1>2. UNCHANGED <<epoch, answers>> /\ exec[s].pc = "idle"
  BY DEF Activate, Active, hist
<1>3. CASE ~Claimable(u)
  <2>1. UNCHANGED <<status, exec>>
    BY <1>3 DEF Activate
  <2> QED
    BY <1>1, <1>2, <2>1, AnswerFrame DEF Spent
<1>4. CASE Claimable(u)
  <2>1. /\ status[u] = "queued" /\ status' = [status EXCEPT ![u] = "running"]
        /\ exec' = [exec EXCEPT ![s] = [Idle EXCEPT !.task = u, !.pc = "start",
                                                    !.epoch = epoch[u]]]
    BY <1>4 DEF Activate, Claimable
  <2>2. exec'[s].pc = "start" /\ exec'[s].task = u /\ \A r \in Slot \ {s} : exec'[r] = exec[r]
    BY <1>1, <2>1 DEF Idle
  <2>3. SUFFICES ASSUME NEW t \in Task
                 PROVE  /\ IsFiniteSet(Unanswered(t)')
                        /\ answers'[t] + Cardinality(Unanswered(t)') <= epoch'[t] + Spent(t)'
    BY DEF AnswerInv
  <2>4. /\ IsFiniteSet(Unanswered(t)) /\ Cardinality(Unanswered(t)) \in Nat
        /\ answers[t] + Cardinality(Unanswered(t)) <= epoch[t] + Spent(t)
    BY FS_CardinalityType DEF AnswerInv
  <2>5. CASE t = u
    <3>1. Unanswered(t)' = Unanswered(t) \cup {s} /\ s \notin Unanswered(t)
      BY <1>2, <2>2, <2>5 DEF Unanswered, Active
    <3>2. IsFiniteSet(Unanswered(t)') /\ Cardinality(Unanswered(t)') = Cardinality(Unanswered(t)) + 1
      BY <2>4, <3>1, FS_AddElement
    <3>3. Spent(t) = 0 /\ Spent(t)' = 1
      BY <1>1, <2>1, <2>5 DEF Spent
    <3> QED
      BY <1>1, <1>2, <2>4, <3>2, <3>3
  <2>6. CASE t # u
    <3>1. Unanswered(t)' = Unanswered(t)
      BY <1>2, <2>2, <2>6 DEF Unanswered, Active
    <3>2. Spent(t)' = Spent(t)
      BY <1>1, <2>1, <2>6 DEF Spent
    <3> QED
      BY <1>2, <2>4, <3>1, <3>2
  <2> QED
    BY <2>5, <2>6
<1> QED
  BY <1>3, <1>4

\* Steps that open a section, or happen elsewhere, leave answers and executions alone.
LEMMA StillAnswers ==
    ASSUME IInv, IInv', AnswerInv, UNCHANGED <<status, epoch, exec, answers>>
    PROVE  AnswerInv'
<1>1. \A t \in Task : epoch[t] + Spent(t) <= epoch'[t] + Spent(t)'
  BY DEF IInv, TypeOK, Spent
<1> QED
  BY <1>1, AnswerFrame

\* The second halves of the sections: only a resume puts a row back to queued, and it
\* counts an epoch.
LEMMA CommitAnswers ==
    ASSUME IInv, IInv', AnswerInv, NEW p \in Proc, Commits(p)
    PROVE  AnswerInv'
<1>1. /\ exec \in [Slot -> Exec] /\ status \in [Task -> Status] /\ epoch \in [Task -> Nat]
      /\ txn \in [Proc -> Txn] /\ TxnInv
  BY DEF IInv, TypeOK
<1>2. CASE p = Api /\ Enqueue
  BY <1>2, StillAnswers DEF Enqueue, rows, hist
<1>3. CASE p = Api /\ CancelWrite
  <2> DEFINE t == txn[Api].task
  <2>1. status' = [status EXCEPT ![t] = Commit(txn[Api].seen, "cancelled", @)]
    BY <1>3 DEF CancelWrite
  <2>2. exec' = [s \in Slot |-> IF s \in RunsOf(t)
                                THEN [exec[s] EXCEPT !.doomed = TRUE] ELSE exec[s]]
    BY <1>3 DEF CancelWrite
  <2>3. \A u \in Task : Spent(u) <= Spent(u)'
    BY <1>1, <2>1 DEF Spent, Commit
  <2>4. \A s \in Slot : exec'[s].pc = exec[s].pc /\ exec'[s].task = exec[s].task
    BY <1>1, <2>2 DEF Exec
  <2>5. UNCHANGED <<epoch, answers>>
    BY <1>3 DEF CancelWrite, hist
  <2>6. \A u \in Task : epoch[u] + Spent(u) <= epoch'[u] + Spent(u)'
    BY <1>1, <2>3, <2>5 DEF Spent
  <2> QED
    BY <2>4, <2>5, <2>6, AnswerFrame
<1>4. CASE p = Api /\ ResumeWrite
  <2> DEFINE t == txn[Api].task
  <2>1. /\ status' = [status EXCEPT ![t] = Commit(txn[Api].seen, "queued", @)]
        /\ epoch' = [epoch EXCEPT ![t] = @ + 1] /\ UNCHANGED <<answers, exec>>
    BY <1>4 DEF ResumeWrite
  <2>2. \A u \in Task : epoch[u] + Spent(u) <= epoch'[u] + Spent(u)'
    BY <1>1, <2>1 DEF Spent, Commit
  <2> QED
    BY <2>1, <2>2, AnswerFrame
<1>5. CASE ResolveWrite(p)
  <2> DEFINE x == txn[p]
  <2>1. status' = IF x.seen = "waiting-approval" THEN [status EXCEPT ![x.task] = "running"]
                  ELSE status
    BY <1>5 DEF ResolveWrite
  <2>2. exec' = IF x.slot = None THEN exec ELSE [exec EXCEPT ![x.slot].pc = "refused"]
    BY <1>5 DEF ResolveWrite
  <2>3. UNCHANGED <<epoch, answers>> /\ x.op = "resolve"
    BY <1>5 DEF ResolveWrite, hist
  <2>4. \A u \in Task : epoch[u] + Spent(u) <= epoch'[u] + Spent(u)'
    BY <1>1, <2>1, <2>3 DEF Spent
  <2>5. x.slot # None => exec[x.slot].pc \in {"asking", "waiting"}
    BY <1>1, <2>3 DEF TxnInv, SectionOK
  <2>6. \A s \in Slot : exec'[s].task = exec[s].task /\ (s # x.slot => exec'[s].pc = exec[s].pc)
    BY <1>1, <2>2 DEF Exec
  <2>7. \A s \in Slot : s = x.slot => exec[s].pc \notin {"idle", "finish"}
    BY <2>5, ConstantsAssumption
  <2> QED
    BY <2>3, <2>4, <2>6, <2>7, AnswerFrame
<1>6. CASE \E a \in Approval : AskWrite(p, a)
  <2> DEFINE x == txn[p]
  <2>1. PICK a \in Approval : AskWrite(p, a)
    BY <1>6
  <2>2. /\ status' = [status EXCEPT ![x.task] = Commit(x.seen, "waiting-approval", @)]
        /\ exec' = [exec EXCEPT ![x.slot].pc = "asking", ![x.slot].ask = a]
        /\ UNCHANGED <<epoch, answers>> /\ x.op = "ask"
    BY <2>1 DEF AskWrite, hist
  <2>3. \A u \in Task : epoch[u] + Spent(u) <= epoch'[u] + Spent(u)'
    BY <1>1, <2>2 DEF Spent, Commit
  <2>4. x.slot \in Slot /\ exec[x.slot].pc = "hooks"
    BY <1>1, <2>2 DEF TxnInv, SectionOK
  <2>5. \A s \in Slot : exec'[s].task = exec[s].task /\ (s # x.slot => exec'[s].pc = exec[s].pc)
    BY <1>1, <2>2 DEF Exec
  <2> QED
    BY <2>2, <2>3, <2>4, <2>5, AnswerFrame
<1>7. CASE FinishWrite(p)
  <2> DEFINE x == txn[p]
  <2>1. /\ status' = [status EXCEPT ![x.task] = Commit(x.seen, exec[x.slot].result, @)]
        /\ exec' = [exec EXCEPT ![x.slot] = Idle]
        /\ UNCHANGED <<epoch, answers>> /\ x.op = "finish"
    BY <1>7 DEF FinishWrite, hist
  <2>2. x.slot \in Slot
    BY <1>1, <2>1 DEF TxnInv, SectionOK
  <2>3. exec[x.slot].result \in Terminal
    BY <1>1, <2>2 DEF Exec
  <2>4. \A u \in Task : epoch[u] + Spent(u) <= epoch'[u] + Spent(u)'
    BY <1>1, <2>1, <2>3 DEF Spent, Commit, Terminal
  <2>5. \A s \in Slot : exec'[s] = exec[s] \/ exec'[s].pc = "idle"
    BY <1>1, <2>1 DEF Idle
  <2> QED
    BY <2>1, <2>4, <2>5, AnswerFrame
<1> QED
  BY <1>2, <1>3, <1>4, <1>5, <1>6, <1>7 DEF Commits

\* The end of a job, a crash and a restart; a recovered row counts an epoch.
LEMMA FailureAnswers ==
    ASSUME IInv, IInv', AnswerInv,
           \/ \E s \in Slot : JobCrashes(s)
           \/ \E p \in Proc : RedisFails(p) \/ Crash(p) \/ Restart(p)
    PROVE  AnswerInv'
<1>1. exec \in [Slot -> Exec] /\ status \in [Task -> Status] /\ epoch \in [Task -> Nat]
  BY DEF IInv, TypeOK
<1>2. ASSUME NEW s \in Slot, JobCrashes(s) PROVE AnswerInv'
  <2>1. UNCHANGED <<status, epoch, answers>> /\ exec' = [exec EXCEPT ![s] = Idle]
    BY <1>2 DEF JobCrashes, Become, rows
  <2>2. \A r \in Slot : exec'[r] = exec[r] \/ exec'[r].pc = "idle"
    BY <1>1, <2>1 DEF Idle
  <2> QED
    BY <1>1, <2>1, <2>2, AnswerFrame DEF Spent
<1>3. ASSUME NEW p \in Proc, RedisFails(p) PROVE AnswerInv'
  BY <1>3, StillAnswers DEF RedisFails, rows, hist
<1>4. ASSUME NEW p \in Proc, Crash(p) PROVE AnswerInv'
  <2>1. /\ UNCHANGED <<status, epoch, answers>>
        /\ exec' = [s \in Slot |-> IF Host[s] = p THEN Idle ELSE exec[s]]
    BY <1>4 DEF Crash, rows
  <2>2. \A r \in Slot : exec'[r] = exec[r] \/ exec'[r].pc = "idle"
    BY <1>1, <2>1 DEF Idle
  <2> QED
    BY <1>1, <2>1, <2>2, AnswerFrame DEF Spent
<1>5. ASSUME NEW p \in Proc, Restart(p) PROVE AnswerInv'
  <2>1. UNCHANGED <<answers, exec>>
    BY <1>5 DEF Restart
  <2>2. \A u \in Task : epoch[u] + Spent(u) <= epoch'[u] + Spent(u)'
    BY <1>1, <1>5 DEF Restart, Unfinished, Spent
  <2> QED
    BY <2>1, <2>2, AnswerFrame
<1> QED
  BY <1>2, <1>3, <1>4, <1>5

\* Every step keeps the bound on answers.
LEMMA AnswerStep == IInv /\ IInv' /\ AnswerInv /\ [Next]_vars => AnswerInv'
<1> SUFFICES ASSUME IInv, IInv', AnswerInv, [Next]_vars PROVE AnswerInv'
  OBVIOUS
<1>1. ASSUME NEW t \in Task, User(t) PROVE AnswerInv'
  <2>1. CASE Create(t)
    <3>1. /\ status' = [status EXCEPT ![t] = "queued"] /\ status[t] = "absent"
          /\ UNCHANGED <<epoch, exec, answers>>
      BY <2>1 DEF Create, hist
    <3>2. \A u \in Task : epoch[u] + Spent(u) <= epoch'[u] + Spent(u)'
      BY <3>1 DEF IInv, TypeOK, Spent
    <3> QED
      BY <3>1, <3>2, AnswerFrame
  <2>2. CASE CancelRead(t) \/ ResumeRead(t)
    BY <2>2, StillAnswers DEF CancelRead, ResumeRead, rows, hist
  <2> QED
    BY <1>1, <2>1, <2>2 DEF User
<1>2. ASSUME NEW a \in Approval, NEW v \in {"approved", "rejected"}, UserDecides(a, v)
      PROVE  AnswerInv'
  BY <1>2, StillAnswers DEF UserDecides, rows, hist
<1>3. ASSUME NEW s \in Slot, RunStep(s) \/ AskRead(s) \/ HookRejects(s) \/ Fail(s)
      PROVE  AnswerInv'
  <2>1. CASE AskRead(s) \/ FinishRead(s)
    BY <2>1, StillAnswers DEF AskRead, FinishRead, rows, hist
  <2>2. CASE HookRejects(s) \/ WaitTimesOut(s)
    BY <2>2, ResolvesOrGoesOn, GoesOnAnswers, StillAnswers DEF Opens
  <2> QED
    BY <1>3, <2>1, <2>2, UncheckedGoOn, CheckedGoOn, GoesOnAnswers DEF RunStep
<1>4. ASSUME NEW p \in Proc, WorkerLoop(p) PROVE AnswerInv'
  <2>1. CASE \E t \in Task : PopWake(p, t) \/ PollRow(p, t)
    BY <2>1, StillAnswers DEF PopWake, PollRow, rows, hist
  <2> QED
    BY <1>4, <2>1, ActivateAnswers DEF WorkerLoop
<1>5. CASE UNCHANGED vars
  BY <1>5, StillAnswers DEF vars
<1> QED
  BY <1>1, <1>2, <1>3, <1>4, <1>5, CommitAnswers, FailureAnswers
  DEF Next, RunChoice, WorkersPollEmpty

\* No execution has begun, and no answer is persisted, in the initial state.
LEMMA AnswerInit == Init => AnswerInv
<1> SUFFICES ASSUME Init, NEW t \in Task
             PROVE  /\ IsFiniteSet(Unanswered(t))
                    /\ answers[t] + Cardinality(Unanswered(t)) <= epoch[t] + Spent(t)
  BY DEF AnswerInv
<1>1. Unanswered(t) = {}
  BY IdleFacts DEF Init, Unanswered, Active
<1>2. answers[t] = 0 /\ epoch[t] = 0 /\ Spent(t) = 0
  BY DEF Init, Spent
<1> QED
  BY <1>1, <1>2, FS_EmptySet

\* However often a task is delivered, claimed, recovered and resumed, by however many
\* workers, it persists at most one final answer per queuing (task_executor.py 186-211).
THEOREM AnswersAreCounted == Spec => []AnswersPerEpoch
<1>1. IInv /\ AnswerInv => AnswersPerEpoch
  <2> SUFFICES ASSUME IInv, AnswerInv, NEW t \in Task PROVE answers[t] <= epoch[t] + 1
    BY DEF AnswersPerEpoch
  <2>1. /\ Cardinality(Unanswered(t)) \in Nat
        /\ answers[t] + Cardinality(Unanswered(t)) <= epoch[t] + Spent(t)
    BY FS_CardinalityType DEF AnswerInv
  <2> QED
    BY <2>1 DEF Spent, IInv, TypeOK
<1> QED
  BY <1>1, AnswerInit, AnswerStep, Invariance, PTL DEF Spec

(***************************************************************************)
(* The embedded deployment: every slot is in the process that serves HTTP. *)
(***************************************************************************)

Embedded == \A s \in Slot : Host[s] = Api

\* An open section still sees the row as it is, and the execution that opened it.
SectionFresh(x) ==
    /\ x.op \in {"cancel", "resume", "resolve", "ask", "finish"} => x.seen = status[x.task]
    /\ x.op \in {"ask", "finish"} => exec[x.slot].task = x.task
    /\ x.op = "resume" => x.seen \in {"failed", "cancelled"}
    /\ x.op = "cancel" => x.seen \notin Terminal /\ live[Api][x.task] \in {"none", "signalled"}

\* Only the API opens sections, and what it read cannot become stale: with one event
\* loop nothing runs between the two halves.
FreshInv ==
    /\ \A p \in Proc \ {Api} : txn[p] = NoTxn
    /\ SectionFresh(txn[Api])
    /\ ~up[Api] => txn[Api] = NoTxn

\* A step that goes on, opens a section or happens elsewhere keeps the sections fresh.
LEMMA ShapeFresh ==
    ASSUME Embedded, IInv, FreshInv,
           \/ \E s \in Slot : GoesOn(s)
           \/ \E x : Opens(Api, x)
           \/ Elsewhere
    PROVE  FreshInv'
<1>1. txn \in [Proc -> Txn] /\ Api \in Proc
  BY ConstantsAssumption DEF IInv, TypeOK
<1>2. ASSUME NEW s \in Slot, GoesOn(s) PROVE FreshInv'
  BY <1>2 DEF GoesOn, Free, Embedded, FreshInv, SectionFresh, NoTxn
<1>3. ASSUME NEW x, Opens(Api, x) PROVE FreshInv'
  <2>1. txn'[Api] = x /\ (\A p \in Proc \ {Api} : txn'[p] = txn[p]) /\ up'[Api]
    BY <1>1, <1>3 DEF Opens, Free
  <2>2. SectionFresh(x)'
    BY <1>3 DEF Opens, SectionFresh
  <2> QED
    BY <2>1, <2>2 DEF FreshInv, SectionFresh
<1>4. CASE Elsewhere /\ UNCHANGED live
  BY <1>4 DEF Elsewhere, FreshInv, SectionFresh
<1>5. CASE Elsewhere /\ Free(Api)
  BY <1>5 DEF Elsewhere, Free, FreshInv, SectionFresh, NoTxn
<1> QED
  BY <1>2, <1>3, <1>4, <1>5 DEF Elsewhere

\* Such a step takes no execution away from its task.
LEMMA ShapeOrphan ==
    ASSUME IInv, NoOrphan,
           \/ \E s \in Slot : GoesOn(s)
           \/ \E x : Opens(Api, x)
           \/ Elsewhere
    PROVE  NoOrphan'
<1>1. exec \in [Slot -> Exec]
  BY DEF IInv, TypeOK
<1>2. UNCHANGED <<status, up, stranded>>
  BY DEF GoesOn, Opens, Elsewhere
<1>3. \A s \in Slot : Active(s) => Active(s)' /\ exec'[s].task = exec[s].task
  BY <1>1 DEF GoesOn, Opens, Elsewhere, Active
<1> QED
  BY <1>2, <1>3 DEF NoOrphan, RunsOf, Worker

\* The second half of a section finds in the row what it replaces, so a finish really
\* ends the task whose execution it ends.
LEMMA CommitOrphan ==
    ASSUME Embedded, IInv, FreshInv, NoOrphan, NEW p \in Proc, Commits(p)
    PROVE  FreshInv' /\ NoOrphan'
<1>1. /\ exec \in [Slot -> Exec] /\ status \in [Task -> Status]
      /\ txn \in [Proc -> Txn] /\ TxnInv /\ Api \in Proc
  BY ConstantsAssumption DEF IInv, TypeOK
<1>2. p = Api /\ SectionOK(Api, txn[Api]) /\ SectionFresh(txn[Api]) /\ up[Api]
  <2>1. txn[p].op # "none" /\ up[p]
    BY DEF Commits, Enqueue, CancelWrite, ResumeWrite, ResolveWrite, AskWrite, FinishWrite
  <2> QED
    BY <1>1, <2>1 DEF FreshInv, NoTxn, TxnInv
<1>3. FreshInv'
  <2> DEFINE y == [NoTxn EXCEPT !.op = "enqueue", !.task = txn[Api].task]
  <2>1. txn' = [txn EXCEPT ![Api] = NoTxn] \/ txn' = [txn EXCEPT ![Api] = y]
    BY <1>2 DEF Commits, Enqueue, CancelWrite, ResumeWrite, ResolveWrite, AskWrite, FinishWrite
  <2>2. up' = up
    BY DEF Commits, Enqueue, CancelWrite, ResumeWrite, ResolveWrite, AskWrite, FinishWrite
  <2>2a. NoTxn.op = "none" /\ y.op = "enqueue"
    BY DEF NoTxn
  <2>3. txn'[Api].op \in {"none", "enqueue"} /\ \A q \in Proc \ {Api} : txn'[q] = txn[q]
    <3> HIDE DEF y
    <3> QED
      BY <1>1, <2>1, <2>2a
  <2> QED
    BY <1>2, <2>2, <2>3 DEF FreshInv, SectionFresh
<1> DEFINE x == txn[Api]
<1>4. CASE Enqueue
  BY <1>3, <1>4 DEF Enqueue, NoOrphan, RunsOf, Active, rows, hist
<1>5. CASE CancelWrite
  <2>1. /\ status' = [status EXCEPT ![x.task] = Commit(x.seen, "cancelled", @)]
        /\ x.seen = status[x.task] /\ UNCHANGED <<up, stranded>>
    BY <1>2, <1>5 DEF CancelWrite, SectionFresh, hist
  <2>2. \A s \in Slot : exec'[s].pc = exec[s].pc /\ exec'[s].task = exec[s].task
    BY <1>1, <1>5 DEF CancelWrite, Exec
  <2>3. \A t \in Task : status'[t] = status[t] \/ status'[t] = "cancelled"
    BY <1>1, <2>1 DEF Commit
  <2> QED
    BY <1>3, <2>1, <2>2, <2>3 DEF NoOrphan, RunsOf, Active
<1>6. CASE ResumeWrite
  <2>1. /\ status' = [status EXCEPT ![x.task] = Commit(x.seen, "queued", @)]
        /\ stranded' = stranded \ {x.task} /\ UNCHANGED <<up, exec>>
    BY <1>6 DEF ResumeWrite
  <2>2. x.seen # "queued" /\ x.task \in Task
    BY <1>2, <1>6 DEF ResumeWrite, SectionFresh, SectionOK
  <2>3. \A t \in Task : IF t = x.task THEN status'[t] = "queued"
                        ELSE status'[t] = status[t] /\ (t \in stranded => t \in stranded')
    BY <1>1, <2>1, <2>2 DEF Commit
  <2> QED
    BY <1>3, <2>1, <2>3 DEF NoOrphan, RunsOf, Active
<1>7. CASE ResolveWrite(Api)
  <2>1. /\ status' = IF x.seen = "waiting-approval" THEN [status EXCEPT ![x.task] = "running"]
                     ELSE status
        /\ x.seen = status[x.task] /\ UNCHANGED <<up, stranded>>
    BY <1>2, <1>7 DEF ResolveWrite, SectionFresh, hist
  <2>2. \A s \in Slot : exec'[s].task = exec[s].task /\ (Active(s) => Active(s)')
    BY <1>1, <1>7 DEF ResolveWrite, Exec, Active
  <2>3. \A t \in Task : status'[t] \in {"running", "waiting-approval"} =>
                            status[t] \in {"running", "waiting-approval"}
    BY <1>1, <2>1
  <2> QED
    BY <1>3, <2>1, <2>2, <2>3 DEF NoOrphan, RunsOf
<1>8. CASE \E a \in Approval : AskWrite(Api, a)
  <2>1. PICK a \in Approval : AskWrite(Api, a)
    BY <1>8
  <2>2. /\ status' = [status EXCEPT ![x.task] = Commit(x.seen, "waiting-approval", @)]
        /\ exec' = [exec EXCEPT ![x.slot].pc = "asking", ![x.slot].ask = a]
        /\ x.op = "ask" /\ UNCHANGED <<up, stranded>>
    BY <2>1 DEF AskWrite, hist
  <2>3. x.slot \in Slot /\ exec[x.slot].task = x.task /\ exec[x.slot].pc = "hooks"
    BY <1>2, <2>2 DEF SectionOK, SectionFresh
  <2> DEFINE e == [exec[x.slot] EXCEPT !.pc = "asking", !.ask = a]
  <2>3a. exec' = [exec EXCEPT ![x.slot] = e] /\ e.task = exec[x.slot].task /\ e.pc = "asking"
    BY <1>1, <2>2, <2>3 DEF Exec
  <2>4. \A s \in Slot : /\ exec'[s].task = exec[s].task
                        /\ exec[s].pc # "idle" => exec'[s].pc # "idle"
    <3> HIDE DEF e, x
    <3> QED
      BY <1>1, <2>3, <2>3a
  <2>5. \A t \in Task : t # x.task => status'[t] = status[t]
    BY <1>1, <2>2
  <2>6. exec'[x.slot].pc # "idle" /\ exec'[x.slot].task = x.task
    <3> HIDE DEF e, x
    <3> QED
      BY <1>1, <2>3, <2>3a
  <2>7. \A t \in Task : t = x.task => RunsOf(t)' # {}
    <3> HIDE DEF x
    <3> QED
      BY <2>3, <2>6 DEF RunsOf, Active
  <2>8. ASSUME NEW t \in Task, RunsOf(t) # {} PROVE RunsOf(t)' # {}
    <3>1. PICK s \in Slot : exec[s].pc # "idle" /\ exec[s].task = t
      BY <2>8 DEF RunsOf, Active
    <3>2. exec'[s].pc # "idle" /\ exec'[s].task = t
      BY <2>4, <3>1
    <3> QED
      BY <3>2 DEF RunsOf, Active
  <2>9. \A t \in Task : status'[t] = status[t] \/ RunsOf(t)' # {}
    BY <2>5, <2>7
  <2> QED
    BY <1>3, <2>2, <2>8, <2>9 DEF NoOrphan
<1>9. CASE FinishWrite(Api)
  <2>1. /\ status' = [status EXCEPT ![x.task] = Commit(x.seen, exec[x.slot].result, @)]
        /\ exec' = [exec EXCEPT ![x.slot] = Idle]
        /\ x.op = "finish" /\ UNCHANGED <<up, stranded>>
    BY <1>9 DEF FinishWrite, hist
  <2>2. /\ x.slot \in Slot /\ exec[x.slot].task = x.task /\ x.seen = status[x.task]
        /\ x.task \in Task
    BY <1>2, <2>1 DEF SectionOK, SectionFresh
  <2>3. status'[x.task] \in Terminal /\ \A t \in Task : t # x.task => status'[t] = status[t]
    BY <1>1, <2>1, <2>2 DEF Commit, Exec
  <2>4. \A s \in Slot : s # x.slot => exec'[s] = exec[s]
    BY <1>1, <2>1
  <2>5. \A t \in Task : t # x.task => RunsOf(t)' = RunsOf(t)
    BY <2>1, <2>2, <2>4, IdleFacts, <1>1 DEF RunsOf, Active
  <2> QED
    BY <1>3, <2>1, <2>3, <2>5 DEF NoOrphan, Terminal
<1> QED
  BY <1>2, <1>3, <1>4, <1>5, <1>6, <1>7, <1>8, <1>9 DEF Commits

\* What is left of a step once the two shapes are taken out.
Shaped == (\E s \in Slot : GoesOn(s)) \/ (\E x : Opens(Api, x)) \/ Elsewhere

\* Every step of an embedded deployment has one of the shapes, is the second half of a
\* section, creates or claims a task, or ends a job or a process.
LEMMA StepShapes ==
    ASSUME Embedded, IInv, IInv', [Next]_vars
    PROVE  \/ Shaped
           \/ \E p \in Proc : Commits(p) \/ Crash(p) \/ Restart(p)
           \/ \E t \in Task : Create(t)
           \/ \E s \in Slot : JobCrashes(s) \/ \E p \in Proc : Activate(p, s)
<1>1. CASE UNCHANGED vars \/ WorkersPollEmpty
  BY <1>1 DEF vars, WorkersPollEmpty, Shaped, Elsewhere, LiveKept
<1>2. ASSUME NEW t \in Task, User(t) PROVE Shaped \/ Create(t)
  BY <1>2, SectionsOpenFresh DEF User, Shaped
<1>3. ASSUME NEW a \in Approval, NEW v \in {"approved", "rejected"}, UserDecides(a, v)
      PROVE  Shaped
  BY <1>3, SectionsOpenFresh DEF Shaped
<1>4. ASSUME NEW s \in Slot, RunStep(s) \/ RunChoice(s)
      PROVE  Shaped \/ JobCrashes(s)
  <2>1. Host[s] = Api
    BY DEF Embedded
  <2>2. CASE HookRejects(s) \/ WaitTimesOut(s)
    BY <2>1, <2>2, ResolvesOrGoesOn DEF Shaped
  <2>3. CASE AskRead(s) \/ FinishRead(s)
    BY <2>1, <2>3, SectionsOpenFresh DEF Shaped
  <2>4. CASE GoesOn(s)
    BY <2>4 DEF Shaped
  <2> QED
    BY <1>4, <2>2, <2>3, <2>4, UncheckedGoOn, CheckedGoOn DEF RunStep, RunChoice
<1>5. ASSUME NEW p \in Proc, WorkerLoop(p) \/ RedisFails(p)
      PROVE  Shaped \/ \E s \in Slot : Activate(p, s)
  <2>1. ASSUME RedisFails(p) \/ \E t \in Task : PopWake(p, t) \/ PollRow(p, t) PROVE Elsewhere
    BY <2>1 DEF RedisFails, PopWake, PollRow, Elsewhere, LiveKept, rows, hist
  <2> QED
    BY <1>5, <2>1 DEF WorkerLoop, Shaped
<1> QED
  BY <1>1, <1>2, <1>3, <1>4, <1>5 DEF Next

\* Creating, claiming and the end of a job or of the process keep both: a job that dies
\* strands its task, and a process that ends is down until its restart queues the rows.
LEMMA OtherOrphan ==
    ASSUME Embedded, IInv, FreshInv, NoOrphan,
           \/ \E t \in Task : Create(t)
           \/ \E s \in Slot : JobCrashes(s) \/ \E p \in Proc : Activate(p, s)
           \/ \E p \in Proc : Crash(p) \/ Restart(p)
    PROVE  FreshInv' /\ NoOrphan'
<1>1. /\ exec \in [Slot -> Exec] /\ status \in [Task -> Status] /\ up \in [Proc -> BOOLEAN]
      /\ txn \in [Proc -> Txn] /\ held \in [Proc -> Task \cup {None}] /\ Api \in Proc
  BY ConstantsAssumption DEF IInv, TypeOK
<1>2. \A p \in Worker : p = Api
  BY DEF Worker, Embedded
<1>3. ASSUME NEW t \in Task, Create(t) PROVE FreshInv' /\ NoOrphan'
  <2>1. /\ status' = [status EXCEPT ![t] = "queued"] /\ UNCHANGED <<up, stranded, exec>>
        /\ txn' = [txn EXCEPT ![Api] = [NoTxn EXCEPT !.op = "enqueue", !.task = t]] /\ up[Api]
    BY <1>3 DEF Create, Free, hist
  <2>2. \A u \in Task : status'[u] = status[u] \/ status'[u] = "queued"
    BY <1>1, <2>1
  <2>3. NoOrphan'
    BY <2>1, <2>2 DEF NoOrphan, RunsOf, Active
  <2>4. txn'[Api].op = "enqueue" /\ \A p \in Proc \ {Api} : txn'[p] = txn[p]
    BY <1>1, <2>1 DEF NoTxn
  <2> QED
    BY <2>1, <2>3, <2>4 DEF FreshInv, SectionFresh
<1>4. ASSUME NEW s \in Slot, JobCrashes(s) PROVE FreshInv' /\ NoOrphan'
  <2>1. /\ exec' = [exec EXCEPT ![s] = Idle] /\ stranded' = stranded \cup {T(s)}
        /\ UNCHANGED <<status, up, txn, live>> /\ txn[Api] = NoTxn
    BY <1>4 DEF JobCrashes, Become, At, Free, Embedded, rows
  <2>2. \A r \in Slot : r # s => exec'[r] = exec[r]
    BY <1>1, <2>1
  <2>3. ASSUME NEW t \in Task, t # T(s) PROVE RunsOf(t)' = RunsOf(t)
    BY <1>1, <2>1, <2>2, <2>3, IdleFacts DEF RunsOf, Active, T
  <2>4. NoOrphan'
    BY <2>1, <2>3 DEF NoOrphan
  <2> QED
    BY <2>1, <2>4 DEF FreshInv, SectionFresh, NoTxn
<1>5. ASSUME NEW s \in Slot, NEW p \in Proc, Activate(p, s) PROVE FreshInv' /\ NoOrphan'
  <2> DEFINE u == held[p]
  <2>1. /\ p = Api /\ txn[Api] = NoTxn /\ UNCHANGED <<txn, up, stranded>> /\ exec[s].pc = "idle"
        /\ u \in Task
    BY <1>1, <1>5 DEF Activate, Free, Embedded, Active, hist
  <2>2. FreshInv'
    BY <2>1 DEF FreshInv, SectionFresh, NoTxn
  <2>3. CASE ~Claimable(u)
    BY <1>5, <2>1, <2>2, <2>3 DEF Activate, NoOrphan, RunsOf, Active
  <2>4. CASE Claimable(u)
    <3>1. /\ status' = [status EXCEPT ![u] = "running"]
          /\ exec' = [exec EXCEPT ![s] = [Idle EXCEPT !.task = u, !.pc = "start",
                                                      !.epoch = epoch[u]]]
      BY <1>5, <2>4 DEF Activate
    <3>2. /\ exec'[s].pc = "start" /\ exec'[s].task = u
          /\ \A r \in Slot : r # s => exec'[r] = exec[r]
      BY <1>1, <3>1 DEF Idle
    <3>3. ASSUME NEW t \in Task, RunsOf(t) # {} PROVE RunsOf(t)' # {}
      <4>1. PICK r \in Slot : exec[r].pc # "idle" /\ exec[r].task = t
        BY <3>3 DEF RunsOf, Active
      <4>2. exec'[r] = exec[r]
        BY <2>1, <3>2, <4>1
      <4> QED
        BY <4>1, <4>2 DEF RunsOf, Active
    <3>4. \A t \in Task : t = u => RunsOf(t)' # {}
      BY <3>2 DEF RunsOf, Active
    <3>5. \A t \in Task : t # u => status'[t] = status[t]
      BY <1>1, <3>1
    <3> QED
      BY <2>1, <2>2, <3>3, <3>4, <3>5 DEF NoOrphan
  <2> QED
    BY <2>3, <2>4
<1>6. ASSUME NEW p \in Proc, Crash(p) PROVE FreshInv' /\ NoOrphan'
  <2>1. /\ up' = [up EXCEPT ![p] = FALSE] /\ txn' = [txn EXCEPT ![p] = NoTxn]
        /\ exec' = [s \in Slot |-> IF Host[s] = p THEN Idle ELSE exec[s]]
        /\ live' = [live EXCEPT ![p] = [t \in Task |-> "none"]]
        /\ UNCHANGED <<status, stranded>> /\ up[p]
    BY <1>6 DEF Crash, rows
  <2>2. CASE p = Api
    <3>1. FreshInv'
      BY <1>1, <2>1, <2>2 DEF FreshInv, SectionFresh, NoTxn
    <3>2. up'[Api] = FALSE
      BY <1>1, <2>1, <2>2
    <3>3. CASE Slot = {}
      BY <1>2, <2>1, <3>1, <3>3 DEF NoOrphan, RunsOf, Worker
    <3>4. CASE Slot # {}
      BY <3>1, <3>2, <3>4 DEF NoOrphan, Worker, Embedded
    <3> QED
      BY <3>3, <3>4
  <2>3. CASE p # Api
    <3>1. UNCHANGED exec
      BY <1>1, <2>1, <2>3 DEF Embedded
    <3>2. txn'[Api] = txn[Api] /\ up'[Api] = up[Api] /\ live'[Api] = live[Api]
      BY <1>1, <2>1, <2>3 DEF IInv, TypeOK
    <3>3. \A q \in Proc \ {Api} : txn'[q] = NoTxn
      BY <1>1, <2>1 DEF FreshInv
    <3>4. FreshInv'
      BY <2>1, <3>1, <3>2, <3>3 DEF FreshInv, SectionFresh
    <3> QED
      BY <1>2, <2>1, <3>1, <3>2, <3>4 DEF NoOrphan, RunsOf, Active
  <2> QED
    BY <2>2, <2>3
<1>7. ASSUME NEW p \in Proc, Restart(p) PROVE FreshInv' /\ NoOrphan'
  <2>1. up' = [up EXCEPT ![p] = TRUE] /\ UNCHANGED <<exec, txn, live>> /\ ~up[p]
    BY <1>7 DEF Restart
  <2>2. CASE p \in Worker
    <3>1. p = Api /\ txn[Api] = NoTxn
      BY <1>2, <2>1, <2>2 DEF FreshInv
    <3>2. \A t \in Task : status'[t] \notin {"running", "waiting-approval"}
      BY <1>1, <1>7, <2>2 DEF Restart, Unfinished
    <3> QED
      BY <2>1, <3>1, <3>2 DEF FreshInv, SectionFresh, NoTxn, NoOrphan
  <2>3. CASE p \notin Worker
    <3>1. UNCHANGED <<status, stranded>>
      BY <1>7, <2>3 DEF Restart
    <3>2. \A q \in Worker : up'[q] = up[q]
      BY <1>1, <1>2, <2>1, <2>3
    <3>3. FreshInv'
      BY <1>1, <2>1, <3>1 DEF FreshInv, SectionFresh
    <3> QED
      BY <2>1, <3>1, <3>2, <3>3 DEF NoOrphan, RunsOf, Active
  <2> QED
    BY <2>2, <2>3
<1> QED
  BY <1>3, <1>4, <1>5, <1>6, <1>7

\* Nothing runs and no section is open in the initial state.
LEMMA OrphanInit == Init => FreshInv /\ NoOrphan
BY ConstantsAssumption DEF Init, FreshInv, SectionFresh, NoTxn, NoOrphan

\* Every step of an embedded deployment keeps both.
LEMMA OrphanStep ==
    ASSUME Embedded
    PROVE  IInv /\ IInv' /\ FreshInv /\ NoOrphan /\ [Next]_vars => FreshInv' /\ NoOrphan'
<1> SUFFICES ASSUME IInv, IInv', FreshInv, NoOrphan, [Next]_vars PROVE FreshInv' /\ NoOrphan'
  OBVIOUS
<1>1. CASE Shaped
  BY <1>1, ShapeFresh, ShapeOrphan DEF Shaped
<1>2. CASE \E p \in Proc : Commits(p)
  BY <1>2, CommitOrphan
<1> QED
  BY <1>1, <1>2, StepShapes, OtherOrphan

\* In an embedded deployment a row that says "running" or "waiting-approval" has an
\* execution that will end it, unless its job died outside of the try block or the
\* process is down; also after cancels, decisions and resumes (task_runtime.py).
THEOREM NoRowIsOrphaned == ASSUME Embedded PROVE Spec => []NoOrphan
BY OrphanInit, OrphanStep, Invariance, PTL DEF Spec

(***************************************************************************)
(* The embedded deployment while nothing is resumed.                       *)
(***************************************************************************)

\* An execution is the only one of its task, which has not ended as completed; it has a
\* LiveTask, signalled if a cancel was acknowledged; and it dies with the process.
RunOK(s) ==
    /\ status[T(s)] \notin {"absent", "queued", "completed"}
    /\ live[Api][T(s)] # "none"
    /\ exec[s].doomed => live[Api][T(s)] = "signalled"
SingleInv ==
    /\ \A s \in Slot : Active(s) => RunOK(s)
    /\ \A r, s \in Slot : Active(r) /\ Active(s) /\ T(r) = T(s) => r = s
    /\ ~up[Api] => \A s \in Slot : ~Active(s)
    /\ txn[Api].op # "resume"

\* The steps with a shape keep it: an execution goes on with its task and its signal.
LEMMA ShapeSingle ==
    ASSUME Embedded, MaxResumes = 0, IInv, IInv', SingleInv, Shaped
    PROVE  SingleInv'
<1>1. /\ exec \in [Slot -> Exec] /\ txn \in [Proc -> Txn] /\ Api \in Proc
      /\ epoch \in [Task -> Nat] /\ TxnInv
  BY ConstantsAssumption DEF IInv, TypeOK
<1>2. UNCHANGED <<status, up>> /\ LiveKept
  BY DEF Shaped, GoesOn, Opens, Elsewhere
<1>3. \A s \in Slot : /\ exec'[s].pc # "idle" => exec[s].pc # "idle"
                      /\ exec'[s].task = exec[s].task /\ exec'[s].doomed = exec[s].doomed
  BY <1>1 DEF Shaped, GoesOn, Opens, Elsewhere, Active
<1>4. \A s \in Slot : Active(s) => T(s) \in Task
  BY ActiveFacts
<1>5. \A s \in Slot : exec'[s].pc # "idle" => RunOK(s)'
  BY <1>1, <1>2, <1>3, <1>4 DEF SingleInv, RunOK, Active, T, LiveKept
<1>6. txn'[Api].op # "resume"
  <2>1. ASSUME NEW x, Opens(Api, x) PROVE x.op # "resume" \/ x.task \notin Task
    BY <1>1, <2>1 DEF Opens
  <2>2. ASSUME NEW x, Opens(Api, x) PROVE x.op # "none" => x.task \in Task
    <3>1. txn'[Api] = x
      BY <1>1, <2>2 DEF Opens
    <3> QED
      BY <1>1, <2>2, <3>1 DEF IInv, TxnInv, SectionOK
  <2>3. ASSUME NEW x, Opens(Api, x) PROVE txn'[Api] = x
    BY <1>1, <2>3 DEF Opens
  <2>4. CASE (\E s \in Slot : GoesOn(s)) \/ Elsewhere
    BY <2>4 DEF GoesOn, Elsewhere, SingleInv
  <2> QED
    BY <2>1, <2>2, <2>3, <2>4 DEF Shaped
<1>7. ~up'[Api] => \A s \in Slot : exec'[s].pc = "idle"
  BY <1>2, <1>3 DEF SingleInv, Active
<1>8. \A r, s \in Slot : exec'[r].pc # "idle" /\ exec'[s].pc # "idle"
                         /\ exec'[r].task = exec'[s].task => r = s
  BY <1>3 DEF SingleInv, Active, T
<1> QED
  BY <1>5, <1>6, <1>7, <1>8 DEF SingleInv, Active, T

\* What the two action properties say of one step.
CompletedStays == \A t \in Task : status[t] = "completed" => status'[t] = "completed"
StartsNoTurn == \A s \in Slot : exec[s].doomed /\ exec[s].pc = "turn" => exec'[s].pc # "llm"

\* A step with a shape starts no turn after a cancel: the check would see the signal.
LEMMA ShapeStarts ==
    ASSUME Embedded, IInv, SingleInv, Shaped
    PROVE  CompletedStays /\ StartsNoTurn
<1>1. exec \in [Slot -> Exec] /\ UNCHANGED status
  BY DEF IInv, TypeOK, Shaped, GoesOn, Opens, Elsewhere
<1>2. ASSUME NEW s \in Slot, exec[s].doomed, exec[s].pc = "turn" PROVE exec'[s].pc # "llm"
  <2>1. L(s) = "signalled"
    BY <1>2 DEF SingleInv, RunOK, Active, L, Embedded
  <2>2. ASSUME NEW r \in Slot, GoesOn(r) PROVE exec'[s].pc # "llm"
    <3>1. CASE r = s
      BY <1>2, <2>1, <2>2, <3>1 DEF GoesOn
    <3>2. CASE r # s
      BY <1>1, <1>2, <2>2, <3>2 DEF GoesOn
    <3> QED
      BY <3>1, <3>2
  <2>3. CASE UNCHANGED exec
    BY <1>2, <2>3
  <2> QED
    BY <2>2, <2>3 DEF Shaped, Opens, Elsewhere
<1> QED
  BY <1>1, <1>2 DEF CompletedStays, StartsNoTurn

\* The second halves of the sections: only a finish ends a task, and it ends its only
\* execution with it.
LEMMA CommitSingle ==
    ASSUME Embedded, IInv, FreshInv, SingleInv, NEW p \in Proc, Commits(p)
    PROVE  SingleInv' /\ CompletedStays /\ StartsNoTurn
<1>1. /\ exec \in [Slot -> Exec] /\ status \in [Task -> Status]
      /\ live \in [Proc -> [Task -> LiveState]]
      /\ txn \in [Proc -> Txn] /\ TxnInv /\ Api \in Proc
      /\ \A s \in Slot : Active(s) => T(s) \in Task
  BY ConstantsAssumption, ActiveFacts DEF IInv, TypeOK
<1>2. p = Api /\ SectionOK(Api, txn[Api]) /\ SectionFresh(txn[Api]) /\ up[Api] /\ up'[Api]
  <2>1. txn[p].op # "none" /\ up[p] /\ up' = up
    BY DEF Commits, Enqueue, CancelWrite, ResumeWrite, ResolveWrite, AskWrite, FinishWrite
  <2> QED
    BY <1>1, <2>1 DEF FreshInv, NoTxn, TxnInv
<1> DEFINE x == txn[Api]
           y == [NoTxn EXCEPT !.op = "enqueue", !.task = x.task]
<1>3. txn'[Api].op # "resume"
  <2>1. txn' = [txn EXCEPT ![Api] = NoTxn] \/ txn' = [txn EXCEPT ![Api] = y]
    BY <1>2 DEF Commits, Enqueue, CancelWrite, ResumeWrite, ResolveWrite, AskWrite, FinishWrite
  <2>2. NoTxn.op = "none" /\ y.op = "enqueue"
    BY DEF NoTxn
  <2> HIDE DEF y
  <2> QED
    BY <1>1, <2>1, <2>2
\* It is enough to say what becomes of each execution and of each row.
<1>4. ASSUME NEW e \in [Slot -> Exec], exec' = e,
             \A s \in Slot : e[s].pc # "idle" =>
                 /\ exec[s].pc # "idle" /\ e[s].task = exec[s].task
                 /\ status'[e[s].task] \notin {"absent", "queued", "completed"}
                 /\ live'[Api][e[s].task] = live[Api][e[s].task]
                 /\ e[s].doomed => exec[s].doomed \/ live[Api][e[s].task] = "signalled"
      PROVE  SingleInv'
  <2>1. \A s \in Slot : e[s].pc # "idle" => RunOK(s)'
    BY <1>4 DEF SingleInv, RunOK, Active, T
  <2>2. \A r, s \in Slot : e[r].pc # "idle" /\ e[s].pc # "idle" /\ e[r].task = e[s].task => r = s
    BY <1>4 DEF SingleInv, Active, T
  <2> QED
    BY <1>2, <1>3, <1>4, <2>1, <2>2 DEF SingleInv, Active, T
<1>5. CASE Enqueue
  BY <1>1, <1>4, <1>5 DEF Enqueue, SingleInv, RunOK, Active, T, rows, CompletedStays, StartsNoTurn
<1>6. CASE CancelWrite
  <2>1. /\ status' = [status EXCEPT ![x.task] = Commit(x.seen, "cancelled", @)]
        /\ x.seen = status[x.task] /\ x.seen \notin Terminal /\ UNCHANGED live
        /\ live[Api][x.task] \in {"none", "signalled"}
    BY <1>2, <1>6 DEF CancelWrite, SectionFresh
  <2>2. exec' = [s \in Slot |-> IF s \in RunsOf(x.task)
                                THEN [exec[s] EXCEPT !.doomed = TRUE] ELSE exec[s]]
    BY <1>6 DEF CancelWrite
  <2>3. \A s \in Slot : /\ exec'[s].pc = exec[s].pc /\ exec'[s].task = exec[s].task
                        /\ exec'[s] = exec[s] \/ s \in RunsOf(x.task)
    BY <1>1, <2>2 DEF Exec
  <2>4. exec' \in [Slot -> Exec]
    BY <1>1, <2>2 DEF Exec
  <2>5. \A t \in Task : status'[t] = status[t] \/ status'[t] = "cancelled"
    BY <1>1, <2>1 DEF Commit
  <2>6. SingleInv'
    BY <1>1, <1>4, <2>1, <2>3, <2>4, <2>5 DEF SingleInv, RunOK, RunsOf, Active, T
  <2>7. CompletedStays
    BY <1>1, <2>1 DEF CompletedStays, Commit, Terminal
  <2> QED
    BY <2>3, <2>6, <2>7 DEF StartsNoTurn
<1>7. CASE ResumeWrite
  BY <1>7 DEF ResumeWrite, SingleInv
<1>8. CASE ResolveWrite(Api)
  <2>1. /\ status' = IF x.seen = "waiting-approval" THEN [status EXCEPT ![x.task] = "running"]
                     ELSE status
        /\ x.seen = status[x.task] /\ UNCHANGED live /\ x.op = "resolve"
    BY <1>2, <1>8 DEF ResolveWrite, SectionFresh
  <2>2. exec' = IF x.slot = None THEN exec ELSE [exec EXCEPT ![x.slot].pc = "refused"]
    BY <1>8 DEF ResolveWrite
  <2>3. x.slot # None => exec[x.slot].pc \in {"asking", "waiting"}
    BY <1>2, <2>1 DEF SectionOK
  <2> DEFINE e == [exec[x.slot] EXCEPT !.pc = "refused"]
  <2>4. ASSUME x.slot # None
        PROVE  /\ exec' \in [Slot -> Exec]
               /\ \A s \in Slot :
                     /\ exec'[s].task = exec[s].task /\ exec'[s].doomed = exec[s].doomed
                     /\ exec'[s].pc = exec[s].pc
                        \/ (exec[s].pc \in {"asking", "waiting"} /\ exec'[s].pc = "refused")
    <3>1. x.slot \in Slot
      BY <1>1, <2>4 DEF Txn
    <3>2. /\ exec' = [exec EXCEPT ![x.slot] = e] /\ e \in Exec /\ e.pc = "refused"
          /\ e.task = exec[x.slot].task /\ e.doomed = exec[x.slot].doomed
      BY <1>1, <2>2, <2>4, <3>1 DEF Exec, PC
    <3> HIDE DEF e, x
    <3> QED
      BY <1>1, <2>3, <2>4, <3>1, <3>2
  <2>5. /\ exec' \in [Slot -> Exec]
        /\ \A s \in Slot : /\ exec'[s].task = exec[s].task /\ exec'[s].doomed = exec[s].doomed
                           /\ exec'[s].pc = exec[s].pc
                              \/ (exec[s].pc \in {"asking", "waiting"} /\ exec'[s].pc = "refused")
    BY <1>1, <2>2, <2>4
  <2>6. \A t \in Task : status'[t] = status[t]
                        \/ (status[t] = "waiting-approval" /\ status'[t] = "running")
    BY <1>1, <2>1
  <2>7. SingleInv'
    BY <1>1, <1>4, <2>1, <2>5, <2>6 DEF SingleInv, RunOK, Active, T
  <2> QED
    BY <2>5, <2>6, <2>7 DEF CompletedStays, StartsNoTurn
<1>9. CASE \E a \in Approval : AskWrite(Api, a)
  <2>1. PICK a \in Approval : AskWrite(Api, a)
    BY <1>9
  <2>2. /\ status' = [status EXCEPT ![x.task] = Commit(x.seen, "waiting-approval", @)]
        /\ exec' = [exec EXCEPT ![x.slot].pc = "asking", ![x.slot].ask = a]
        /\ x.op = "ask" /\ UNCHANGED live
    BY <2>1 DEF AskWrite
  <2>3. /\ x.slot \in Slot /\ exec[x.slot].task = x.task /\ exec[x.slot].pc = "hooks"
        /\ x.task \in Task
    BY <1>2, <2>2 DEF SectionOK, SectionFresh
  <2> DEFINE e == [exec[x.slot] EXCEPT !.pc = "asking", !.ask = a]
  <2>4. /\ exec' = [exec EXCEPT ![x.slot] = e] /\ e \in Exec
        /\ e.task = exec[x.slot].task /\ e.doomed = exec[x.slot].doomed /\ e.pc = "asking"
    BY <1>1, <2>2, <2>3 DEF Exec, PC
  <2>5. status[x.task] # "completed"
    BY <2>3 DEF SingleInv, RunOK, Active, T
  <2>6. \A t \in Task : status'[t] = status[t]
                        \/ (status[t] # "completed" /\ status'[t] = "waiting-approval")
    BY <1>1, <2>2, <2>5 DEF Commit
  <2>7. exec' \in [Slot -> Exec]
        /\ \A s \in Slot : /\ exec'[s].task = exec[s].task /\ exec'[s].doomed = exec[s].doomed
                           /\ exec'[s].pc = exec[s].pc
                              \/ (exec[s].pc = "hooks" /\ exec'[s].pc = "asking")
    <3> HIDE DEF e, x
    <3> QED
      BY <1>1, <2>3, <2>4
  <2>8. SingleInv'
    <3>1. ASSUME NEW s \in Slot, exec'[s].pc # "idle"
          PROVE  /\ exec[s].pc # "idle" /\ exec'[s].task = exec[s].task /\ exec[s].task \in Task
                 /\ status'[exec[s].task] \notin {"absent", "queued", "completed"}
                 /\ live'[Api][exec[s].task] = live[Api][exec[s].task]
                 /\ exec'[s].doomed => exec[s].doomed
      <4>1. exec[s].pc # "idle" /\ exec'[s].task = exec[s].task /\ (exec'[s].doomed => exec[s].doomed)
        BY <2>7, <3>1
      <4>2. T(s) \in Task /\ RunOK(s)
        BY <1>1, <4>1 DEF SingleInv, Active
      <4> QED
        BY <2>2, <2>6, <4>1, <4>2 DEF RunOK, T
    <3> QED
      BY <1>4, <2>7, <3>1
  <2> QED
    BY <2>6, <2>7, <2>8 DEF CompletedStays, StartsNoTurn
<1>10. CASE FinishWrite(Api)
  <2>1. /\ status' = [status EXCEPT ![x.task] = Commit(x.seen, exec[x.slot].result, @)]
        /\ exec' = [exec EXCEPT ![x.slot] = Idle]
        /\ live' = [live EXCEPT ![Api][x.task] = "none"] /\ x.op = "finish"
    BY <1>10 DEF FinishWrite
  <2>2. /\ x.slot \in Slot /\ exec[x.slot].task = x.task /\ x.task \in Task
        /\ exec[x.slot].pc = "finish"
    BY <1>2, <2>1 DEF SectionOK, SectionFresh
  <2>3. \A t \in Task : t # x.task => status'[t] = status[t] /\ live'[Api][t] = live[Api][t]
    BY <1>1, <2>1
  <2>4. exec' \in [Slot -> Exec] /\ exec'[x.slot] = Idle
        /\ \A s \in Slot : s # x.slot => exec'[s] = exec[s]
    <3> HIDE DEF x
    <3> QED
      BY <1>1, <2>1, <2>2, IdleFacts
  <2>5. \A s \in Slot : exec'[s].pc # "idle" => s # x.slot /\ exec[s].task # x.task
    BY <2>2, <2>4, IdleFacts DEF SingleInv, Active, T
  <2>6. SingleInv'
    BY <1>1, <1>4, <2>3, <2>4, <2>5 DEF SingleInv, RunOK, Active, T
  <2>7. CompletedStays
    BY <2>2, <2>3 DEF CompletedStays, SingleInv, RunOK, Active, T
  <2> QED
    BY <2>4, <2>6, <2>7, IdleFacts DEF StartsNoTurn
<1> QED
  BY <1>2, <1>5, <1>6, <1>7, <1>8, <1>9, <1>10 DEF Commits

\* A claim finds no execution of its task, an execution that dies leaves no other, and a
\* process that ends takes all of them with it.
LEMMA OtherSingle ==
    ASSUME Embedded, IInv, SingleInv,
           \/ \E t \in Task : Create(t)
           \/ \E s \in Slot : JobCrashes(s) \/ \E p \in Proc : Activate(p, s)
           \/ \E p \in Proc : Crash(p) \/ Restart(p)
    PROVE  SingleInv' /\ CompletedStays /\ StartsNoTurn
<1>1. /\ exec \in [Slot -> Exec] /\ status \in [Task -> Status] /\ up \in [Proc -> BOOLEAN]
      /\ live \in [Proc -> [Task -> LiveState]]
      /\ txn \in [Proc -> Txn] /\ held \in [Proc -> Task \cup {None}] /\ Api \in Proc
  BY ConstantsAssumption DEF IInv, TypeOK
<1>2. \A p \in Worker : p = Api
  BY DEF Worker, Embedded
<1>3. \A s \in Slot : exec[s].pc # "idle" =>
          /\ exec[s].task \in Task /\ status[exec[s].task] \notin {"absent", "queued", "completed"}
          /\ live[Api][exec[s].task] # "none"
          /\ exec[s].doomed => live[Api][exec[s].task] = "signalled"
  BY ActiveFacts DEF SingleInv, RunOK, Active, T
<1>4. ASSUME NEW t \in Task, Create(t) PROVE SingleInv' /\ CompletedStays /\ StartsNoTurn
  <2>1. /\ status' = [status EXCEPT ![t] = "queued"] /\ live' = [live EXCEPT ![Api][t] = "fresh"]
        /\ txn' = [txn EXCEPT ![Api] = [NoTxn EXCEPT !.op = "enqueue", !.task = t]]
        /\ UNCHANGED <<up, exec>> /\ status[t] = "absent"
    BY <1>4 DEF Create
  <2>2. \A u \in Task : u # t => status'[u] = status[u] /\ live'[Api][u] = live[Api][u]
    BY <1>1, <2>1
  <2>3. txn'[Api].op = "enqueue"
    BY <1>1, <2>1 DEF NoTxn
  <2>4. CompletedStays
    BY <2>1, <2>2 DEF CompletedStays
  <2>5. \A s \in Slot : exec[s].pc # "idle" => exec[s].task # t
    BY <1>3, <2>1
  <2>6. SingleInv'
    BY <1>3, <2>1, <2>2, <2>3, <2>5 DEF SingleInv, RunOK, Active, T
  <2> QED
    BY <2>1, <2>4, <2>6 DEF StartsNoTurn
<1>5. ASSUME NEW s \in Slot, JobCrashes(s) PROVE SingleInv' /\ CompletedStays /\ StartsNoTurn
  <2>1. exec' = [exec EXCEPT ![s] = Idle] /\ UNCHANGED <<status, live, up, txn>>
    BY <1>5 DEF JobCrashes, Become, rows
  <2>2. \A r \in Slot : exec'[r] = exec[r] \/ exec'[r] = Idle
    BY <1>1, <2>1
  <2>3. \A r \in Slot : exec'[r].pc # "idle" => exec'[r] = exec[r]
    BY <2>2, IdleFacts
  <2>4. SingleInv'
    BY <1>3, <2>1, <2>3 DEF SingleInv, RunOK, Active, T
  <2> QED
    BY <2>1, <2>2, <2>4, IdleFacts DEF CompletedStays, StartsNoTurn
<1>6. ASSUME NEW s \in Slot, NEW p \in Proc, Activate(p, s)
      PROVE  SingleInv' /\ CompletedStays /\ StartsNoTurn
  <2> DEFINE u == held[p]
  <2>1. /\ p = Api /\ UNCHANGED <<txn, up>> /\ up[Api] /\ exec[s].pc = "idle" /\ u \in Task
    BY <1>1, <1>6 DEF Activate, Free, Embedded, Active
  <2>2. CASE ~Claimable(u)
    BY <1>6, <2>1, <2>2 DEF Activate, SingleInv, RunOK, Active, T, CompletedStays, StartsNoTurn
  <2>3. CASE Claimable(u)
    <3> DEFINE e == [Idle EXCEPT !.task = u, !.pc = "start", !.epoch = epoch[u]]
    <3>1. /\ status' = [status EXCEPT ![u] = "running"]
          /\ live' = [live EXCEPT ![Api][u] = "fresh"]
          /\ exec' = [exec EXCEPT ![s] = e] /\ status[u] = "queued"
      BY <1>6, <2>1, <2>3 DEF Activate, Claimable
    <3>2. e.pc = "start" /\ e.task = u /\ e.doomed = FALSE
      BY DEF Idle
    <3>3. exec'[s] = e /\ \A r \in Slot : r # s => exec'[r] = exec[r]
      <4> HIDE DEF e
      <4> QED
        BY <1>1, <3>1
    <3>4. \A t \in Task : t # u => status'[t] = status[t] /\ live'[Api][t] = live[Api][t]
      BY <1>1, <3>1
    <3>5. status'[u] = "running" /\ live'[Api][u] = "fresh"
      BY <1>1, <2>1, <3>1
    <3>6. \A r \in Slot : exec[r].pc # "idle" => exec[r].task # u
      BY <1>3, <3>1
    <3> HIDE DEF e, u
    <3>7. SingleInv'
      BY <1>3, <2>1, <3>2, <3>3, <3>4, <3>5, <3>6 DEF SingleInv, RunOK, Active, T
    <3>8. CompletedStays
      BY <3>1, <3>4 DEF CompletedStays
    <3> QED
      BY <2>1, <3>2, <3>3, <3>7, <3>8 DEF StartsNoTurn
  <2> QED
    BY <2>2, <2>3
<1>7. ASSUME NEW p \in Proc, Crash(p) PROVE SingleInv' /\ CompletedStays /\ StartsNoTurn
  <2>1. /\ up' = [up EXCEPT ![p] = FALSE] /\ txn' = [txn EXCEPT ![p] = NoTxn]
        /\ exec' = [s \in Slot |-> IF Host[s] = p THEN Idle ELSE exec[s]]
        /\ live' = [live EXCEPT ![p] = [t \in Task |-> "none"]]
        /\ UNCHANGED status
    BY <1>7 DEF Crash, rows
  <2>2. txn'[Api].op # "resume"
    BY <1>1, <2>1 DEF NoTxn, SingleInv
  <2>3. CASE p = Api
    <3>1. \A s \in Slot : exec'[s].pc = "idle"
      BY <2>1, <2>3, IdleFacts DEF Embedded
    <3> QED
      BY <2>1, <2>2, <3>1 DEF SingleInv, Active, CompletedStays, StartsNoTurn
  <2>4. CASE p # Api
    <3>1. UNCHANGED exec /\ (~up'[Api] => ~up[Api]) /\ live'[Api] = live[Api]
      BY <1>1, <2>1, <2>4 DEF Embedded
    <3> QED
      BY <2>1, <2>2, <3>1 DEF SingleInv, RunOK, Active, T, CompletedStays, StartsNoTurn
  <2> QED
    BY <2>3, <2>4
<1>8. ASSUME NEW p \in Proc, Restart(p) PROVE SingleInv' /\ CompletedStays /\ StartsNoTurn
  <2>1. up' = [up EXCEPT ![p] = TRUE] /\ UNCHANGED <<exec, txn, live>> /\ ~up[p]
    BY <1>8 DEF Restart
  <2>2. CASE p \in Worker
    <3>1. \A s \in Slot : exec'[s].pc = "idle"
      BY <1>2, <2>1, <2>2 DEF SingleInv, Active
    <3>2. \A t \in Task : status[t] = "completed" => status'[t] = "completed"
      BY <1>1, <1>8, <2>2 DEF Restart, Unfinished
    <3> QED
      BY <2>1, <3>1, <3>2 DEF SingleInv, Active, CompletedStays, StartsNoTurn
  <2>3. CASE p \notin Worker
    <3>1. UNCHANGED status
      BY <1>8, <2>3 DEF Restart
    <3>2. ~up'[Api] => ~up[Api]
      BY <1>1, <2>1
    <3> QED
      BY <2>1, <3>1, <3>2 DEF SingleInv, RunOK, Active, T, CompletedStays, StartsNoTurn
  <2> QED
    BY <2>2, <2>3
<1> QED
  BY <1>4, <1>5, <1>6, <1>7, <1>8

\* Nothing is active in the initial state.
LEMMA SingleInit == Init => SingleInv
BY ConstantsAssumption, IdleFacts DEF Init, SingleInv, Active, NoTxn

\* While nothing is resumed every step keeps the executions single, ends no completed
\* task and starts no turn after a cancel.
LEMMA SingleStep ==
    ASSUME Embedded, MaxResumes = 0
    PROVE  IInv /\ IInv' /\ FreshInv /\ SingleInv /\ [Next]_vars
               => SingleInv' /\ CompletedStays /\ StartsNoTurn
<1> SUFFICES ASSUME IInv, IInv', FreshInv, SingleInv, [Next]_vars
             PROVE  SingleInv' /\ CompletedStays /\ StartsNoTurn
  OBVIOUS
<1>1. CASE Shaped
  BY <1>1, ShapeSingle, ShapeStarts
<1>2. CASE \E p \in Proc : Commits(p)
  BY <1>2, CommitSingle
<1> QED
  BY <1>1, <1>2, StepShapes, OtherSingle

\* Freshness alone, as an invariant of the embedded deployment.
LEMMA SectionsStayFresh == ASSUME Embedded PROVE Spec => []FreshInv
BY OrphanInit, OrphanStep, Invariance, PTL DEF Spec

\* The executions stay single while nothing is resumed.
LEMMA ExecutionsStaySingle ==
    ASSUME Embedded, MaxResumes = 0 PROVE Spec => []SingleInv
BY SingleInit, SingleStep, SectionsStayFresh, Invariance, PTL DEF Spec

\* In an embedded deployment, and without resumes, a completed task never changes its
\* status: no cancel, approval, late finish or recovery overwrites it (task_runtime.py
\* finish, cancel, create_approval, resolve_approval).
THEOREM CompletedStaysFinal ==
    ASSUME Embedded, MaxResumes = 0 PROVE Spec => CompletedIsFinal
<1>1. IInv /\ IInv' /\ FreshInv /\ SingleInv /\ [Next]_vars
          => [\A t \in Task : status[t] = "completed" => status'[t] = "completed"]_vars
  BY SingleStep DEF CompletedStays
<1> QED
  BY <1>1, Invariance, SectionsStayFresh, ExecutionsStaySingle, PTL DEF Spec, CompletedIsFinal

\* In an embedded deployment, and without resumes, an execution whose cancel was
\* acknowledged starts no further turn: the LiveTask of its process keeps the signal,
\* whatever an approval request writes into the row (task_runtime.py cancel, cancelled).
THEOREM CancelStopsTurns ==
    ASSUME Embedded, MaxResumes = 0 PROVE Spec => CancelledRunStartsNoTurn
<1>1. IInv /\ IInv' /\ FreshInv /\ SingleInv /\ [Next]_vars
          => [\A s \in Slot : exec[s].doomed /\ exec[s].pc = "turn" => exec'[s].pc # "llm"]_vars
  BY SingleStep DEF StartsNoTurn
<1> QED
  BY <1>1, Invariance, SectionsStayFresh, ExecutionsStaySingle, PTL
     DEF Spec, CancelledRunStartsNoTurn
=============================================================================
