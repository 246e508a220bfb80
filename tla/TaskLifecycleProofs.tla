------------------------ MODULE TaskLifecycleProofs ------------------------
(***************************************************************************)
(* Type correctness, the approval gate and the claim of TaskLifecycle, for *)
(* every set of processes, slots, tasks and approvals.  The argument is    *)
(* the inductive invariant IInv; most run steps change only their own      *)
(* slot, and are handled together through LocalStep.                       *)
(***************************************************************************)
EXTENDS TaskLifecycle, TLAPS

USE ConstantsAssumption

\* A step of the execution in s that opens and closes no section: the event loop is
\* free, no row but the checkpoint and the answers change, a future is at most dropped.
LocalFrame(s) ==
    /\ Free(Host[s])
    /\ Active(s)
    /\ UNCHANGED <<status, approval, owner, epoch, txn>>
    /\ \A p \in Proc : \A a \in Approval : future'[p][a] \in {future[p][a], "none"}
    /\ checkpoint' \in [Task -> Phase]
    /\ answers' \in [Task -> Nat]
    /\ live' \in [Proc -> [Task -> LiveState]]
    /\ future' \in [Proc -> [Approval -> FutureState]]
    /\ UNCHANGED <<wake, up, redis, held, stranded, crashes, faults>>

\* What the record e that replaces the execution's own may be.
LocalStep(s, e) ==
    /\ Become(s, e)
    /\ e \in Exec /\ e.pc # "idle" /\ e.task = T(s) /\ e.epoch = exec[s].epoch
    /\ ExecOK(e)
    /\ e.ask \in {None, exec[s].ask}
    /\ e.armed \subseteq exec[s].armed \cup (IF exec[s].pc = "granted" THEN {exec[s].ask} ELSE {})
    /\ e.pc = "granted" => approval[e.ask] = "approved"

\* A local step keeps the invariant.
LEMMA LocalStepInv ==
    ASSUME IInv, NEW s \in Slot, NEW e, LocalFrame(s), LocalStep(s, e)
    PROVE  IInv'
<1> USE DEF IInv, LocalFrame, LocalStep, Become
<1>0. TypeOK'
  BY DEF TypeOK
<1>1. /\ exec' \in [Slot -> Exec]
      /\ exec'[s] = e
      /\ \A r \in Slot : r # s => exec'[r] = exec[r]
  BY DEF TypeOK
<1>2. Ids(e) \subseteq Ids(exec[s])
  <2>1. exec[s].pc = "granted" => exec[s].ask # None
    BY DEF AskInv, ExecOK
  <2>2. QED
    BY <2>1 DEF Ids
<1>3. EpochInv'
  BY <1>1 DEF EpochInv, OneExecutionPerEpoch, Active, T
<1>4. \A p \in Proc : txn[p].op # "none" => txn[p].slot = None \/ txn[p].slot # s \/ p # Host[s]
  BY DEF Free, NoTxn
<1>5. TxnInv'
  <2>1. /\ txn' = txn /\ approval' = approval
        /\ \A p \in Proc : \A a \in Approval : future'[p][a] # "yes" \/ future[p][a] = "yes"
    OBVIOUS
  <2>2. \A p \in Proc : txn[p].op # "none" /\ txn[p].slot \in Slot /\ Host[txn[p].slot] = p
                         => exec'[txn[p].slot] = exec[txn[p].slot]
    BY <1>1, <1>4
  <2>3. QED
    BY <2>1, <2>2, <1>4 DEF TxnInv, SectionOK, TypeOK, Txn
<1>6. AskInv'
  <2>1. \A r \in Slot : ExecOK(exec'[r]) /\ \A a \in Ids(exec'[r]) : approval'[a] # "none"
    BY <1>1, <1>2 DEF AskInv
  <2>2. \A r1, r2 \in Slot : r1 # r2 => Ids(exec'[r1]) \cap Ids(exec'[r2]) = {}
    BY <1>1, <1>2 DEF AskInv
  <2>3. \A r \in Slot : \A p \in Proc :
          exec'[r].ask # None /\ p # Host[r] => future'[p][exec'[r].ask] = "none"
    <3>1. SUFFICES ASSUME NEW p \in Proc, e.ask # None, p # Host[s]
                   PROVE  future'[p][e.ask] = "none"
      <4>1. \A r \in Slot : r # s =>
              /\ exec'[r].ask = exec[r].ask
              /\ exec[r].ask # None => exec[r].ask \in Approval
        BY <1>1 DEF TypeOK, Exec
      <4>2. \A r \in Slot : \A q \in Proc :
              exec[r].ask # None /\ q # Host[r] => future[q][exec[r].ask] = "none"
        <5> HIDE DEF LocalFrame, LocalStep, Become
        <5> QED
          BY DEF AskInv
      <4>3. \A r \in Slot : \A q \in Proc :
              r # s /\ exec'[r].ask # None /\ q # Host[r] => future'[q][exec'[r].ask] = "none"
        <5>1. \A r \in Slot : \A q \in Proc : \A a \in Approval :
                future[q][a] = "none" => future'[q][a] = "none"
          OBVIOUS
        <5> HIDE DEF LocalFrame, LocalStep, Become
        <5>2. SUFFICES ASSUME NEW r \in Slot, NEW q \in Proc,
                              r # s, exec[r].ask # None, q # Host[r]
                       PROVE  future'[q][exec[r].ask] = "none"
          BY <4>1
        <5>3. exec[r].ask \in Approval /\ future[q][exec[r].ask] = "none"
          BY <5>2, <4>1, <4>2
        <5>4. QED
          BY <5>1, <5>3
      <4>4. QED
        BY <1>1, <3>1, <4>3
    <3>2. e.ask = exec[s].ask /\ e.ask \in Approval
      BY <3>1 DEF Exec
    <3>3. QED
      BY <3>1, <3>2 DEF AskInv
  <2>4. \A p \in Proc : \A a \in Approval :
          /\ future'[p][a] = "yes" => approval'[a] = "approved"
          /\ approval'[a] = "none" => future'[p][a] = "none"
          /\ approval'[a] # "none" => owner'[a] \in Task
    BY DEF AskInv
  <2>5. QED
    BY <2>1, <2>2, <2>3, <2>4 DEF AskInv, ExecOK, Ids
<1>7. ApprovalGate'
  BY <1>1 DEF ApprovalGate
<1> QED
  BY <1>0, <1>3, <1>5, <1>6, <1>7

\* ensure_not_cancelled only moves the LiveTask between its states.
LEMMA CheckType ==
    ASSUME TypeOK, NEW s \in Slot, T(s) \in Task, NEW hit, Check(s, hit)
    PROVE  live' \in [Proc -> [Task -> LiveState]]
  BY DEF TypeOK, Check, Checks, FreshCheck, L, LiveState

\* Facts about an active execution used at every leaf.
LEMMA ActiveFacts ==
    ASSUME IInv, NEW s \in Slot, Active(s)
    PROVE  /\ exec[s] \in Exec /\ T(s) \in Task /\ Host[s] \in Proc /\ ExecOK(exec[s])
           /\ exec[s].pc = "granted" => approval[exec[s].ask] = "approved"
  BY DEF IInv, TypeOK, EpochInv, AskInv, ApprovalGate, T

\* The three shapes of a local step: the pc alone moves,
LEMMA PcStep ==
    ASSUME IInv, NEW s \in Slot, LocalFrame(s), NEW pc \in PC \ {"idle"},
           Become(s, [exec[s] EXCEPT !.pc = pc]),
           pc \in {"asking", "waiting", "granted"} => exec[s].ask # None,
           pc \in {"prepare", "hooks", "asking", "waiting", "granted", "refused"}
             => exec[s].calls > 0,
           pc = "granted" => approval[exec[s].ask] = "approved"
    PROVE  IInv'
<1>0. exec[s] \in Exec
  BY ActiveFacts DEF LocalFrame
<1> DEFINE e == [exec[s] EXCEPT !.pc = pc]
<1>1. /\ e \in Exec /\ e.pc = pc
      /\ e.task = exec[s].task /\ e.epoch = exec[s].epoch /\ e.calls = exec[s].calls
      /\ e.ask = exec[s].ask /\ e.armed = exec[s].armed
  BY <1>0 DEF Exec, PC
<1>2. ExecOK(e)
  BY <1>1, ActiveFacts DEF LocalFrame, ExecOK
<1> HIDE DEF e
<1>3. LocalStep(s, e)
  BY <1>1, <1>2 DEF LocalStep, T, e
<1> QED
  BY <1>3, LocalStepInv

\* one prepared call is left behind,
LEMMA NextCallStep ==
    ASSUME IInv, NEW s \in Slot, LocalFrame(s), NEW armed, NextCall(s, armed),
           exec[s].pc \in {"hooks", "granted", "refused"},
           armed \subseteq exec[s].armed \cup (IF exec[s].pc = "granted" THEN {exec[s].ask} ELSE {})
    PROVE  IInv'
<1> DEFINE pc == IF exec[s].calls = 1 THEN "tools" ELSE "prepare"
           e == [exec[s] EXCEPT !.pc = pc, !.calls = exec[s].calls - 1,
                                !.ask = None, !.armed = armed]
<1>1. /\ exec[s] \in Exec /\ exec[s].calls > 0 /\ armed \subseteq Approval
  BY ActiveFacts DEF LocalFrame, ExecOK, Exec
<1>2. exec[s].calls - 1 \in Nat /\ (pc = "prepare" => exec[s].calls - 1 > 0)
  BY <1>1 DEF Exec
<1>3. pc \in {"prepare", "tools"}
  OBVIOUS
<1> HIDE DEF pc
<1>4. /\ e \in Exec /\ e.pc = pc /\ e.calls = exec[s].calls - 1 /\ e.ask = None /\ e.armed = armed
      /\ e.task = exec[s].task /\ e.epoch = exec[s].epoch
  BY <1>1, <1>2, <1>3 DEF Exec, PC
<1>5. ExecOK(e)
  BY <1>1, <1>2, <1>3, <1>4 DEF ExecOK
<1>6. Become(s, e)
  BY DEF NextCall, pc
<1> HIDE DEF e
<1>7. LocalStep(s, e)
  BY <1>3, <1>4, <1>5, <1>6 DEF LocalStep, T
<1> QED
  BY <1>7, LocalStepInv

\* or the execution is about to call finish.
LEMMA ToFinishStep ==
    ASSUME IInv, NEW s \in Slot, LocalFrame(s), NEW r \in Terminal, ToFinish(s, r)
    PROVE  IInv'
<1>0. exec[s] \in Exec
  BY ActiveFacts DEF LocalFrame
<1> DEFINE e == [exec[s] EXCEPT !.pc = "finish", !.result = r, !.ask = None, !.armed = {}]
<1>1. /\ e \in Exec /\ e.pc = "finish" /\ e.ask = None /\ e.armed = {}
      /\ e.task = exec[s].task /\ e.epoch = exec[s].epoch
  BY <1>0 DEF Exec, PC
<1>2. Become(s, e)
  BY DEF ToFinish
<1> HIDE DEF e
<1>3. LocalStep(s, e)
  BY <1>1, <1>2 DEF LocalStep, ExecOK, T
<1> QED
  BY <1>3, LocalStepInv

\* One lemma per local action of RunStep and RunChoice.
LEMMA StartInv ==
    ASSUME IInv, NEW s \in Slot, Start(s) PROVE IInv'
<1>1. Active(s) /\ Free(Host[s])
  BY DEF Start, At, Active
<1>2. LocalFrame(s)
  BY <1>1, ActiveFacts DEF Start, LocalFrame, hist, IInv, TypeOK, Phase
<1>3. CASE Become(s, [exec[s] EXCEPT !.pc = "answer"])
  BY <1>2, <1>3, PcStep DEF PC
<1>4. CASE \E n \in 0..MaxTurns : Become(s, [exec[s] EXCEPT !.pc = "turn", !.turn = n])
  <2>0. PICK n \in 0..MaxTurns : Become(s, [exec[s] EXCEPT !.pc = "turn", !.turn = n])
    BY <1>4
  <2>1. n \in Nat
    BY DEF ConstantsAssumption
  <2> DEFINE e == [exec[s] EXCEPT !.pc = "turn", !.turn = n]
  <2>2. exec[s] \in Exec /\ ExecOK(exec[s])
    BY <1>1, ActiveFacts
  <2>3. /\ e \in Exec /\ e.pc = "turn" /\ e.task = exec[s].task /\ e.epoch = exec[s].epoch
        /\ e.ask = exec[s].ask /\ e.armed = exec[s].armed
    BY <2>1, <2>2 DEF Exec, PC
  <2>4. Become(s, e)
    BY <2>0
  <2> HIDE DEF e
  <2>5. LocalStep(s, e)
    BY <2>2, <2>3, <2>4 DEF LocalStep, ExecOK, T
  <2>6. QED
    BY <1>2, <2>5, LocalStepInv
<1>5. QED
  <2>1. 0 \in 0..MaxTurns
    BY DEF ConstantsAssumption
  <2>2. \A n : n \in (IF checkpoint[T(s)] = "none" THEN {0} ELSE 0..MaxTurns) => n \in 0..MaxTurns
    BY <2>1
  <2> DEFINE Turns == IF checkpoint[T(s)] = "none" THEN {0} ELSE 0..MaxTurns
  <2>3. \/ \E n \in Turns : Become(s, [exec[s] EXCEPT !.pc = "turn", !.turn = n])
        \/ Become(s, [exec[s] EXCEPT !.pc = "answer"])
    BY DEF Start
  <2> HIDE DEF Turns
  <2>4. QED
    BY <1>3, <1>4, <2>2, <2>3 DEF Turns

\* TurnStart keeps the invariant.
LEMMA TurnStartInv ==
    ASSUME IInv, NEW s \in Slot, TurnStart(s) PROVE IInv'
<1>1. Active(s) /\ Free(Host[s])
  BY DEF TurnStart, At, Active
<1>2. LocalFrame(s)
  BY <1>1, ActiveFacts, CheckType DEF TurnStart, LocalFrame, rows, hist, IInv, TypeOK, Phase
<1> QED
  BY <1>1, <1>2, PcStep, ActiveFacts DEF TurnStart, At, ExecOK, PC

\* TurnsExhausted keeps the invariant.
LEMMA TurnsExhaustedInv ==
    ASSUME IInv, NEW s \in Slot, TurnsExhausted(s) PROVE IInv'
<1>1. Active(s) /\ Free(Host[s])
  BY DEF TurnsExhausted, At, Active
<1>2. LocalFrame(s)
  BY <1>1, ActiveFacts DEF TurnsExhausted, LocalFrame, rows, hist, IInv, TypeOK, Phase
<1> QED
  BY <1>1, <1>2, PcStep, ActiveFacts DEF TurnsExhausted, At, ExecOK, PC

\* LlmRetries keeps the invariant.
LEMMA LlmRetriesInv ==
    ASSUME IInv, NEW s \in Slot, LlmRetries(s) PROVE IInv'
<1>1. Active(s) /\ Free(Host[s])
  BY DEF LlmRetries, At, Active
<1>2. LocalFrame(s)
  BY <1>1, ActiveFacts, CheckType DEF LlmRetries, LocalFrame, rows, hist, IInv, TypeOK, Phase
<1> QED
  BY <1>1, <1>2, PcStep, ActiveFacts DEF LlmRetries, At, ExecOK, PC

\* LlmAnswers keeps the invariant.
LEMMA LlmAnswersInv ==
    ASSUME IInv, NEW s \in Slot, LlmAnswers(s) PROVE IInv'
<1>1. Active(s) /\ Free(Host[s])
  BY DEF LlmAnswers, Responds, At, Active
<1>2. LocalFrame(s)
  BY <1>1, ActiveFacts, CheckType DEF LlmAnswers, Responds, LocalFrame, rows, hist, IInv, TypeOK, Phase
<1> QED
  BY <1>1, <1>2, PcStep, ActiveFacts DEF LlmAnswers, At, ExecOK, PC

\* LlmCallsTools keeps the invariant.
LEMMA LlmCallsToolsInv ==
    ASSUME IInv, NEW s \in Slot, LlmCallsTools(s) PROVE IInv'
<1>1. Active(s) /\ Free(Host[s])
  BY DEF LlmCallsTools, Responds, At, Active
<1>2. LocalFrame(s)
  BY <1>1, ActiveFacts, CheckType DEF LlmCallsTools, Responds, LocalFrame, rows, hist, IInv, TypeOK, Phase
<1>3. PICK n \in 1..MaxCalls : Become(s, [exec[s] EXCEPT !.pc = "prepare", !.calls = n])
  BY DEF LlmCallsTools
<1>0. exec[s] \in Exec
  BY <1>1, ActiveFacts
<1> DEFINE e == [exec[s] EXCEPT !.pc = "prepare", !.calls = n]
<1>a. n \in Nat /\ n > 0
  BY DEF ConstantsAssumption
<1>4. /\ e \in Exec /\ e.pc = "prepare" /\ e.calls = n
      /\ e.task = exec[s].task /\ e.epoch = exec[s].epoch /\ e.ask = exec[s].ask /\ e.armed = exec[s].armed
  BY <1>0, <1>a DEF Exec, PC
<1>5. ExecOK(e)
  BY <1>1, <1>a, <1>4, ActiveFacts DEF ExecOK
<1> HIDE DEF e
<1>6. LocalStep(s, e)
  BY <1>3, <1>4, <1>5 DEF LocalStep, T, e
<1> QED
  BY <1>2, <1>6, LocalStepInv

\* PrepareCall keeps the invariant.
LEMMA PrepareCallInv ==
    ASSUME IInv, NEW s \in Slot, PrepareCall(s) PROVE IInv'
<1>1. Active(s) /\ Free(Host[s])
  BY DEF PrepareCall, At, Active
<1>2. LocalFrame(s)
  BY <1>1, ActiveFacts, CheckType DEF PrepareCall, LocalFrame, rows, hist, IInv, TypeOK, Phase
<1> QED
  BY <1>1, <1>2, PcStep, ActiveFacts DEF PrepareCall, At, ExecOK, PC

\* CallDecided keeps the invariant.
LEMMA CallDecidedInv ==
    ASSUME IInv, NEW s \in Slot, CallDecided(s) PROVE IInv'
<1>1. Active(s) /\ Free(Host[s])
  BY DEF CallDecided, At, Active
<1>2. LocalFrame(s)
  BY <1>1, ActiveFacts DEF CallDecided, LocalFrame, rows, hist, IInv, TypeOK, Phase
<1> QED
  BY <1>2, NextCallStep DEF CallDecided, At

\* PermissionHooksPass keeps the invariant.
LEMMA PermissionHooksPassInv ==
    ASSUME IInv, NEW s \in Slot, PermissionHooksPass(s) PROVE IInv'
<1>1. Active(s) /\ Free(Host[s])
  BY DEF PermissionHooksPass, At, Active
<1>2. LocalFrame(s)
  BY <1>1, ActiveFacts DEF PermissionHooksPass, LocalFrame, rows, hist, IInv, TypeOK, Phase
<1> QED
  BY <1>1, <1>2, PcStep, ActiveFacts DEF PermissionHooksPass, At, ExecOK, PC

\* WaitEnds keeps the invariant.
LEMMA WaitEndsInv ==
    ASSUME IInv, NEW s \in Slot, WaitEnds(s) PROVE IInv'
<1>1. Active(s) /\ Free(Host[s])
  BY DEF WaitEnds, At, Active
<1>2. LocalFrame(s)
  BY <1>1, ActiveFacts DEF WaitEnds, LocalFrame, rows, hist, IInv, TypeOK, Phase, FutureState
<1> DEFINE a == exec[s].ask
<1>3. a \in Approval /\ exec[s].calls > 0
  BY <1>1, ActiveFacts DEF WaitEnds, At, ExecOK, Exec
<1>4. future[Host[s]][a] = "yes" => approval[a] = "approved"
  BY <1>1, <1>3, ActiveFacts DEF IInv, AskInv
<1>5. PICK pc \in {"granted", "refused"} :
         /\ Become(s, [exec[s] EXCEPT !.pc = pc])
         /\ pc = "granted" => approval[a] = "approved"
  BY <1>4 DEF WaitEnds, Approved
<1> QED
  BY <1>2, <1>3, <1>5, PcStep DEF PC

\* CallAnswered keeps the invariant.
LEMMA CallAnsweredInv ==
    ASSUME IInv, NEW s \in Slot, CallAnswered(s) PROVE IInv'
<1>1. Active(s) /\ Free(Host[s])
  BY DEF CallAnswered, At, Active
<1>2. LocalFrame(s)
  BY <1>1, ActiveFacts, CheckType DEF CallAnswered, LocalFrame, rows, hist, IInv, TypeOK, Phase
<1> QED
  BY <1>2, NextCallStep DEF CallAnswered, At

\* ToolsDone keeps the invariant.
LEMMA ToolsDoneInv ==
    ASSUME IInv, NEW s \in Slot, ToolsDone(s) PROVE IInv'
<1>1. Active(s) /\ Free(Host[s])
  BY DEF ToolsDone, At, Active
<1>2. LocalFrame(s)
  BY <1>1, ActiveFacts DEF ToolsDone, LocalFrame, rows, hist, IInv, TypeOK, Phase
<1>0. exec[s] \in Exec
  BY <1>1, ActiveFacts
<1> DEFINE e == [exec[s] EXCEPT !.pc = "turn", !.turn = exec[s].turn + 1, !.armed = {}]
<1>a. exec[s].turn + 1 \in Nat
  BY <1>0 DEF Exec
<1>3. /\ e \in Exec /\ e.pc = "turn" /\ e.armed = {}
      /\ e.task = exec[s].task /\ e.epoch = exec[s].epoch /\ e.ask = exec[s].ask
  BY <1>0, <1>a DEF Exec, PC
<1>4. Become(s, e)
  BY DEF ToolsDone, NextTurn
<1> HIDE DEF e
<1>5. LocalStep(s, e)
  BY <1>3, <1>4 DEF LocalStep, ExecOK, T
<1> QED
  BY <1>2, <1>5, LocalStepInv

\* RaiseCancelled keeps the invariant.
LEMMA RaiseCancelledInv ==
    ASSUME IInv, NEW s \in Slot, RaiseCancelled(s) PROVE IInv'
<1>1. Active(s) /\ Free(Host[s])
  BY DEF RaiseCancelled, At, Active
<1>2. LocalFrame(s)
  BY <1>1, ActiveFacts, CheckType DEF RaiseCancelled, LocalFrame, rows, hist, IInv, TypeOK, Phase
<1> QED
  BY <1>2, ToFinishStep DEF RaiseCancelled, Terminal

\* Fail keeps the invariant.
LEMMA FailInv ==
    ASSUME IInv, NEW s \in Slot, Fail(s) PROVE IInv'
<1>1. Active(s) /\ Free(Host[s])
  BY DEF Fail, At, Active
<1>2. LocalFrame(s)
  BY <1>1, ActiveFacts DEF Fail, LocalFrame, rows, hist, IInv, TypeOK, Phase
<1> QED
  BY <1>2, ToFinishStep DEF Fail, Terminal

\* EndsWithoutAnswer keeps the invariant.
LEMMA EndsWithoutAnswerInv ==
    ASSUME IInv, NEW s \in Slot, EndsWithoutAnswer(s) PROVE IInv'
<1>1. Active(s) /\ Free(Host[s])
  BY DEF EndsWithoutAnswer, At, Active
<1>2. LocalFrame(s)
  BY <1>1, ActiveFacts, CheckType DEF EndsWithoutAnswer, LocalFrame, rows, hist, IInv, TypeOK, Phase
<1> QED
  BY <1>2, ToFinishStep DEF EndsWithoutAnswer, Terminal

\* PersistAnswer keeps the invariant.
LEMMA PersistAnswerInv ==
    ASSUME IInv, NEW s \in Slot, PersistAnswer(s) PROVE IInv'
<1>1. Active(s) /\ Free(Host[s])
  BY DEF PersistAnswer, At, Active
<1>2. answers' \in [Task -> Nat]
  <2>1. answers \in [Task -> Nat] /\ T(s) \in Task
    BY <1>1, ActiveFacts DEF IInv, TypeOK
  <2> DEFINE n == answers[T(s)] + 1
  <2>2. n \in Nat
    <3>1. answers[T(s)] \in Nat
      BY <2>1
    <3>2. QED
      BY <3>1
  <2>3. answers' = [answers EXCEPT ![T(s)] = n]
    BY DEF PersistAnswer
  <2> HIDE DEF n
  <2>4. QED
    BY <2>1, <2>2, <2>3
<1>3. LocalFrame(s)
  BY <1>1, <1>2, ActiveFacts DEF PersistAnswer, LocalFrame, hist, IInv, TypeOK
<1> QED
  BY <1>3, ToFinishStep DEF PersistAnswer, Terminal

\* A step that opens or closes a section, or none, and touches no execution, approval
\* or future.
LEMMA SectionStep ==
    ASSUME IInv, TypeOK', EpochInv', NEW p \in Proc,
           NEW x, SectionOK(p, x), txn' = [txn EXCEPT ![p] = x],
           UNCHANGED <<approval, owner, future, exec>>
    PROVE  IInv'
<1>1. \A q \in Proc : SectionOK(q, txn'[q])
  BY DEF IInv, TypeOK, TxnInv
<1>2. TxnInv'
  BY <1>1 DEF TxnInv, SectionOK
<1>3. AskInv' /\ ApprovalGate'
  BY DEF IInv, AskInv, ApprovalGate
<1> QED
  BY <1>2, <1>3 DEF IInv

\* A step of the queue's plumbing.
LEMMA PlumbingStep ==
    ASSUME IInv, TypeOK', UNCHANGED <<status, approval, owner, future, exec, epoch, txn>>
    PROVE  IInv'
<1>1. EpochInv' /\ TxnInv' /\ AskInv' /\ ApprovalGate'
  BY DEF IInv, EpochInv, OneExecutionPerEpoch, Active, TxnInv, SectionOK, AskInv, ApprovalGate
<1> QED
  BY <1>1 DEF IInv

\* The closed section is well formed.
LEMMA NoTxnOK == ASSUME NEW p \in Proc PROVE SectionOK(p, NoTxn) /\ NoTxn \in Txn
  BY DEF SectionOK, NoTxn, Txn, Status, Terminal, Verdict

\* Create keeps the invariant.
LEMMA CreateInv ==
    ASSUME IInv, NEW t \in Task, Create(t) PROVE IInv'
<1> DEFINE x == [NoTxn EXCEPT !.op = "enqueue", !.task = t]
<1>1. x \in Txn /\ SectionOK(Api, x)
  BY DEF NoTxn, Txn, SectionOK, Status, Verdict
<1>2. Api \in Proc /\ txn' = [txn EXCEPT ![Api] = x] /\ UNCHANGED <<approval, owner, future, exec, epoch>>
  BY DEF Create, ConstantsAssumption, hist
<1> HIDE DEF x
<1>3. TypeOK'
  BY <1>1, <1>2 DEF IInv, TypeOK, Create, hist, Status, LiveState
<1>4. EpochInv'
  <2>1. /\ status' = [status EXCEPT ![t] = "queued"] /\ status[t] = "absent"
        /\ status \in [Task -> Status]
    BY DEF Create, IInv, TypeOK
  <2>2. QED
    BY <1>2, <2>1 DEF IInv, EpochInv, OneExecutionPerEpoch, Active
<1> QED
  BY <1>1, <1>2, <1>3, <1>4, SectionStep

\* Enqueue keeps the invariant.
LEMMA EnqueueInv ==
    ASSUME IInv, Enqueue PROVE IInv'
<1>1. Api \in Proc /\ txn[Api] \in Txn /\ txn[Api].task \in Task
  BY DEF ConstantsAssumption, IInv, TypeOK, TxnInv, SectionOK, Enqueue
<1>2. wake' \in [Task -> Nat]
  <2> DEFINE t == txn[Api].task
             n == wake[t] + 1
  <2>1. wake \in [Task -> Nat] /\ wake[t] \in Nat
    BY <1>1 DEF IInv, TypeOK
  <2>2. n \in Nat /\ (wake' = wake \/ wake' = [wake EXCEPT ![t] = n])
    BY <2>1 DEF Enqueue
  <2> HIDE DEF n
  <2>3. QED
    BY <1>1, <2>1, <2>2
<1>3. txn' \in [Proc -> Txn] /\ txn' = [txn EXCEPT ![Api] = NoTxn]
  BY <1>1, NoTxnOK DEF IInv, TypeOK, Enqueue
<1>a. TypeOK'
  BY <1>2, <1>3 DEF IInv, TypeOK, Enqueue, rows, hist
<1>4. EpochInv'
  BY DEF Enqueue, rows, hist, IInv, EpochInv, OneExecutionPerEpoch, Active
<1> QED
  BY <1>1, <1>3, <1>a, <1>4, NoTxnOK, SectionStep DEF Enqueue, rows

\* CancelRead keeps the invariant.
LEMMA CancelReadInv ==
    ASSUME IInv, NEW t \in Task, CancelRead(t) PROVE IInv'
<1>1. live' \in [Proc -> [Task -> LiveState]]
  BY DEF CancelRead, Signal, IInv, TypeOK, LiveState, ConstantsAssumption
<1>2. PICK x \in Txn : txn' = [txn EXCEPT ![Api] = x] /\ SectionOK(Api, x)
  <2>1. CASE status[t] \in Terminal
    <3>1. txn[Api] \in Txn /\ txn' = [txn EXCEPT ![Api] = txn[Api]] /\ SectionOK(Api, txn[Api])
      BY <2>1 DEF CancelRead, Cancellable, IInv, TypeOK, TxnInv, ConstantsAssumption
    <3>2. QED
      BY <3>1
  <2>2. CASE status[t] \notin Terminal
    <3> DEFINE x == [NoTxn EXCEPT !.op = "cancel", !.task = t, !.seen = status[t]]
    <3>1. x \in Txn /\ SectionOK(Api, x)
      BY DEF NoTxn, Txn, SectionOK, Verdict, IInv, TypeOK
    <3>2. QED
      BY <2>2, <3>1 DEF CancelRead, Cancellable
  <2>3. QED
    BY <2>1, <2>2
<1>3. TypeOK'
  BY <1>1, <1>2 DEF CancelRead, IInv, TypeOK, rows, hist
<1>4. EpochInv'
  BY DEF CancelRead, rows, hist, IInv, EpochInv, OneExecutionPerEpoch, Active
<1> QED
  BY <1>2, <1>3, <1>4, SectionStep DEF CancelRead, rows, ConstantsAssumption

\* ResumeRead keeps the invariant.
LEMMA ResumeReadInv ==
    ASSUME IInv, NEW t \in Task, ResumeRead(t) PROVE IInv'
<1> DEFINE x == [NoTxn EXCEPT !.op = "resume", !.task = t, !.seen = status[t]]
<1>1. x \in Txn /\ SectionOK(Api, x)
  BY DEF NoTxn, Txn, SectionOK, Verdict, IInv, TypeOK
<1>2. txn' = [txn EXCEPT ![Api] = x]
  BY DEF ResumeRead
<1> HIDE DEF x
<1>3. TypeOK'
  BY <1>1, <1>2 DEF ResumeRead, IInv, TypeOK, rows, hist
<1>4. EpochInv'
  BY DEF ResumeRead, rows, hist, IInv, EpochInv, OneExecutionPerEpoch, Active
<1> QED
  BY <1>1, <1>2, <1>3, <1>4, SectionStep DEF ResumeRead, rows, ConstantsAssumption

\* ResumeWrite keeps the invariant.
LEMMA ResumeWriteInv ==
    ASSUME IInv, ResumeWrite PROVE IInv'
<1> DEFINE t == txn[Api].task
           x == [NoTxn EXCEPT !.op = "enqueue", !.task = t]
<1>1. Api \in Proc /\ t \in Task
  BY DEF ConstantsAssumption, IInv, TypeOK, TxnInv, SectionOK, ResumeWrite
<1>2. x \in Txn /\ SectionOK(Api, x)
  BY <1>1 DEF NoTxn, Txn, SectionOK, Status, Verdict
<1>3. /\ txn' = [txn EXCEPT ![Api] = x]
      /\ \E new \in {"queued", status[t]} : status' = [status EXCEPT ![t] = new]
      /\ epoch' = [epoch EXCEPT ![t] = epoch[t] + 1]
      /\ live' = [live EXCEPT ![Api][t] = "fresh"]
      /\ stranded' = stranded \ {t}
  BY DEF ResumeWrite, Commit
<1> HIDE DEF x, t
<1>4. status' \in [Task -> Status]
  BY <1>1, <1>3 DEF IInv, TypeOK, Status
<1>5. epoch' \in [Task -> Nat] /\ epoch'[t] = epoch[t] + 1 /\ epoch[t] \in Nat
  <2> DEFINE n == epoch[t] + 1
  <2>1. epoch \in [Task -> Nat] /\ epoch[t] \in Nat
    BY <1>1 DEF IInv, TypeOK
  <2>2. n \in Nat
    BY <2>1
  <2>3. epoch' = [epoch EXCEPT ![t] = n]
    BY <1>3
  <2> HIDE DEF n
  <2>4. epoch' \in [Task -> Nat] /\ epoch'[t] = n
    BY <1>1, <2>1, <2>2, <2>3
  <2> QED
    BY <2>1, <2>4 DEF n
<1>6. TypeOK'
  BY <1>1, <1>2, <1>3, <1>4, <1>5 DEF ResumeWrite, IInv, TypeOK, hist, LiveState
<1>7. EpochInv'
  <2>1. \A s \in Slot : Active(s) => exec[s] \in Exec
    BY DEF IInv, TypeOK
  <2>2. /\ \A u \in Task : u # t => status'[u] = status[u] /\ epoch'[u] = epoch[u]
        /\ status'[t] \in {"queued", status[t]}
    BY <1>1, <1>3 DEF IInv, TypeOK
  <2>3. exec' = exec
    BY DEF ResumeWrite
  <2>4. \A s \in Slot : Active(s) /\ exec[s].task = t => exec[s].epoch < epoch'[t]
    BY <2>1, <1>1, <1>5 DEF IInv, EpochInv, Exec
  <2>5. OneExecutionPerEpoch'
    BY <2>3 DEF IInv, EpochInv, OneExecutionPerEpoch, Active
  <2>6. ASSUME NEW s \in Slot, Active(s)
        PROVE  /\ exec[s].task \in Task
               /\ status'[exec[s].task] # "absent"
               /\ exec[s].epoch <= epoch'[exec[s].task]
               /\ status'[exec[s].task] = "queued" => exec[s].epoch < epoch'[exec[s].task]
    <3>1. CASE exec[s].task = t
      BY <2>1, <2>2, <2>4, <2>6, <3>1, <1>5 DEF IInv, EpochInv, Exec
    <3>2. CASE exec[s].task # t
      BY <2>2, <2>6, <3>2 DEF IInv, EpochInv
    <3>3. QED
      BY <3>1, <3>2
  <2> QED
    BY <2>3, <2>5, <2>6 DEF EpochInv, Active
<1> QED
  BY <1>1, <1>2, <1>3, <1>6, <1>7, SectionStep DEF ResumeWrite

\* resolve_approval finds a pending row; the section it opens is sound.
LEMMA ResolveReadInv ==
    ASSUME IInv, NEW p \in Proc, Free(p), NEW a \in Approval, NEW v \in Verdict, NEW s,
           ResolveRead(p, a, v, s),
           \/ s = None /\ p = Api
           \/ /\ s \in Slot /\ Host[s] = p /\ v # "approved" /\ exec[s].ask = a
              /\ exec[s].pc \in {"asking", "waiting"},
           UNCHANGED <<wake, up, redis, live, future, held, exec>>,
           UNCHANGED rows, UNCHANGED hist
    PROVE  IInv'
<1> DEFINE x == [op |-> "resolve", task |-> owner[a], seen |-> status[owner[a]], slot |-> s,
                 ask |-> a, verdict |-> v]
<1>1. approval[a] = "pending" /\ owner[a] \in Task /\ txn' = [txn EXCEPT ![p] = x]
  BY DEF ResolveRead, Pending, IInv, AskInv
<1>2. x \in Txn
  BY <1>1 DEF Txn, IInv, TypeOK
<1>3. SectionOK(p, x)
  <2>1. \A q \in Proc : future[q][a] # "yes"
    BY <1>1 DEF IInv, AskInv
  <2> QED
    BY <1>1, <2>1 DEF SectionOK, ConstantsAssumption
<1> HIDE DEF x
<1>4. TypeOK'
  BY <1>1, <1>2 DEF IInv, TypeOK, rows, hist
<1>5. EpochInv'
  BY DEF rows, hist, IInv, EpochInv, OneExecutionPerEpoch, Active
<1> QED
  BY <1>1, <1>3, <1>4, <1>5, SectionStep DEF rows

\* UserDecides keeps the invariant.
LEMMA UserDecidesInv ==
    ASSUME IInv, NEW a \in Approval, NEW v \in {"approved", "rejected"}, UserDecides(a, v)
    PROVE  IInv'
  BY ResolveReadInv DEF UserDecides, Verdict, ConstantsAssumption

\* PopWake keeps the invariant.
LEMMA PopWakeInv ==
    ASSUME IInv, NEW p \in Proc, NEW t \in Task, PopWake(p, t) PROVE IInv'
<1>1. wake[t] \in Nat /\ wake[t] > 0
  BY DEF PopWake, IInv, TypeOK
<1> DEFINE n == wake[t] - 1
<1>2. n \in Nat /\ wake' = [wake EXCEPT ![t] = n]
  BY <1>1 DEF PopWake
<1> HIDE DEF n
<1>3. TypeOK'
  BY <1>2 DEF PopWake, IInv, TypeOK, rows, hist
<1> QED
  BY <1>3, PlumbingStep DEF PopWake, rows, hist

\* PollRow keeps the invariant.
LEMMA PollRowInv ==
    ASSUME IInv, NEW p \in Proc, NEW t \in Task, PollRow(p, t) PROVE IInv'
<1>1. TypeOK'
  BY DEF PollRow, IInv, TypeOK, rows, hist
<1> QED
  BY <1>1, PlumbingStep DEF PollRow, rows, hist

\* RedisFails keeps the invariant.
LEMMA RedisFailsInv ==
    ASSUME IInv, NEW p \in Proc, RedisFails(p) PROVE IInv'
<1>1. TypeOK'
  BY DEF RedisFails, IInv, TypeOK, rows, hist
<1> QED
  BY <1>1, PlumbingStep DEF RedisFails, rows, hist

\* FinishRead keeps the invariant.
LEMMA FinishReadInv ==
    ASSUME IInv, NEW s \in Slot, FinishRead(s) PROVE IInv'
<1> DEFINE x == [NoTxn EXCEPT !.op = "finish", !.task = T(s), !.seen = status[T(s)], !.slot = s]
<1>1. Active(s) /\ exec[s].pc = "finish" /\ txn' = [txn EXCEPT ![Host[s]] = x]
  BY DEF FinishRead, At, Active
<1>2. T(s) \in Task /\ Host[s] \in Proc /\ status[T(s)] \in Status
  BY <1>1, ActiveFacts DEF IInv, TypeOK
<1>3. x \in Txn /\ SectionOK(Host[s], x)
  BY <1>1, <1>2 DEF NoTxn, Txn, SectionOK, Verdict, T
<1> HIDE DEF x
<1>4. TypeOK'
  BY <1>1, <1>2, <1>3 DEF FinishRead, IInv, TypeOK, rows, hist
<1>5. EpochInv'
  BY DEF FinishRead, rows, hist, IInv, EpochInv, OneExecutionPerEpoch, Active
<1> QED
  BY <1>1, <1>2, <1>3, <1>4, <1>5, SectionStep DEF FinishRead, rows

\* AskRead keeps the invariant.
LEMMA AskReadInv ==
    ASSUME IInv, NEW s \in Slot, AskRead(s) PROVE IInv'
<1> DEFINE x == [NoTxn EXCEPT !.op = "ask", !.task = T(s), !.seen = status[T(s)], !.slot = s]
<1>1. Active(s) /\ exec[s].pc = "hooks" /\ txn' = [txn EXCEPT ![Host[s]] = x]
  BY DEF AskRead, At, Active
<1>2. T(s) \in Task /\ Host[s] \in Proc /\ status[T(s)] \in Status
  BY <1>1, ActiveFacts DEF IInv, TypeOK
<1>3. x \in Txn /\ SectionOK(Host[s], x)
  BY <1>1, <1>2 DEF NoTxn, Txn, SectionOK, Verdict, T
<1> HIDE DEF x
<1>4. TypeOK'
  BY <1>1, <1>2, <1>3 DEF AskRead, IInv, TypeOK, rows, hist
<1>5. EpochInv'
  BY DEF AskRead, rows, hist, IInv, EpochInv, OneExecutionPerEpoch, Active
<1> QED
  BY <1>1, <1>2, <1>3, <1>4, <1>5, SectionStep DEF AskRead, rows

\* The steps of an execution that ask for or expire an approval.
LEMMA ResolveOwnInv ==
    ASSUME IInv, NEW s \in Slot, Free(Host[s]), NEW v \in {"rejected", "expired"},
           exec[s].pc \in {"asking", "waiting"},
           ResolveOwn(s, v),
           \/ UNCHANGED future
           \/ /\ approval[exec[s].ask] # "pending"
              /\ future' = [future EXCEPT ![Host[s]][exec[s].ask] = "none"],
           UNCHANGED <<wake, up, redis, live, held>>,
           UNCHANGED rows, UNCHANGED hist
    PROVE  IInv'
<1> DEFINE a == exec[s].ask
<1>1. Active(s)
  BY DEF Active
<1>2. a \in Approval /\ exec[s].calls > 0 /\ Host[s] \in Proc
  BY <1>1, ActiveFacts DEF ExecOK, Exec
<1>3. CASE approval[a] = "pending"
  <2>1. ResolveRead(Host[s], a, v, s) /\ UNCHANGED exec /\ UNCHANGED future
    BY <1>3 DEF ResolveOwn, Pending
  <2>2. QED
    BY <1>2, <2>1, ResolveReadInv DEF Verdict
<1>4. CASE approval[a] # "pending"
  <2>1. Become(s, [exec[s] EXCEPT !.pc = "refused"]) /\ UNCHANGED txn
    BY <1>4 DEF ResolveOwn, Pending
  <2>2. /\ future' \in [Proc -> [Approval -> FutureState]]
        /\ \A p \in Proc : \A b \in Approval : future'[p][b] \in {future[p][b], "none"}
    <3>1. future \in [Proc -> [Approval -> FutureState]]
      BY DEF IInv, TypeOK
    <3>2. \/ future' = future
          \/ future' = [future EXCEPT ![Host[s]][a] = "none"]
      OBVIOUS
    <3> HIDE DEF a
    <3>3. QED
      BY <1>2, <3>1, <3>2 DEF FutureState
  <2>3. LocalFrame(s)
    BY <1>1, <2>1, <2>2 DEF LocalFrame, IInv, TypeOK, rows, hist
  <2>4. QED
    BY <1>2, <2>1, <2>3, PcStep DEF PC
<1>5. QED
  BY <1>3, <1>4

\* HookRejects keeps the invariant.
LEMMA HookRejectsInv ==
    ASSUME IInv, NEW s \in Slot, HookRejects(s) PROVE IInv'
  BY ResolveOwnInv DEF HookRejects, At

\* WaitTimesOut keeps the invariant.
LEMMA WaitTimesOutInv ==
    ASSUME IInv, NEW s \in Slot, WaitTimesOut(s) PROVE IInv'
<1>1. \/ UNCHANGED future
      \/ /\ approval[exec[s].ask] # "pending"
         /\ future' = [future EXCEPT ![Host[s]][exec[s].ask] = "none"]
  BY DEF WaitTimesOut, Pending
<1> QED
  BY <1>1, ResolveOwnInv DEF WaitTimesOut, At

\* The second halves of the sections.  What they do to the other sections:
LEMMA OtherSections ==
    ASSUME IInv, NEW p \in Proc, txn' = [txn EXCEPT ![p] = NoTxn],
           \A r \in Slot : Host[r] # p =>
              exec'[r].pc = exec[r].pc /\ exec'[r].ask = exec[r].ask,
           \A a \in Approval : approval'[a] = "none" => approval[a] = "none",
           \A q \in Proc : txn[q].op = "resolve" /\ q # p =>
              /\ txn[q].slot = None /\ approval'[txn[q].ask] = "approved"
                   => approval[txn[q].ask] = "approved"
              /\ txn[q].slot # None => \A r \in Proc :
                   future'[r][txn[q].ask] = "yes" => future[r][txn[q].ask] = "yes"
    PROVE  TxnInv'
<1>1. ASSUME NEW q \in Proc, q # p PROVE SectionOK(q, txn[q])'
  <2>1. SectionOK(q, txn[q]) /\ txn[q] \in Txn /\ txn'[q] = txn[q]
    BY <1>1 DEF IInv, TxnInv, TypeOK
  <2>2. txn[q].slot \in Slot /\ txn[q].op \in {"ask", "finish", "resolve"} => Host[txn[q].slot] # p
    BY <1>1, <2>1 DEF SectionOK
  <2> DEFINE x == txn[q]
  <2>3. x.op \in {"ask", "finish", "resolve"} /\ x.slot \in Slot =>
           exec'[x.slot].pc = exec[x.slot].pc /\ exec'[x.slot].ask = exec[x.slot].ask
    BY <2>2
  <2>4. x.op = "resolve" => x.ask \in Approval /\ (x.slot = None \/ x.slot \in Slot)
    BY <2>1 DEF SectionOK, Txn
  <2>5. x.op = "resolve" /\ x.slot = None /\ approval[x.ask] # "approved" =>
           approval'[x.ask] # "approved"
    BY <1>1
  <2>6. x.op = "resolve" /\ x.slot # None => \A r \in Proc :
           future[r][x.ask] # "yes" => future'[r][x.ask] # "yes"
    BY <1>1
  <2> HIDE DEF x
  <2>7. SectionOK(q, x)'
    BY <2>1, <2>3, <2>4, <2>5, <2>6 DEF SectionOK, x
  <2>8. QED
    BY <2>7, <2>1 DEF x
<1>2. SectionOK(p, txn[p])'
  BY DEF IInv, TypeOK, SectionOK, NoTxn
<1>3. QED
  BY <1>1, <1>2 DEF TxnInv

\* Executions end or stay in their epoch, and no row becomes queued.
LEMMA EpochStep ==
    ASSUME IInv, UNCHANGED epoch,
           \A s \in Slot : \/ exec'[s].pc = "idle"
                           \/ /\ Active(s)
                              /\ exec'[s].task = exec[s].task /\ exec'[s].epoch = exec[s].epoch,
           \A u \in Task : /\ status'[u] = "queued" => status[u] = "queued"
                           /\ status'[u] = "absent" => status[u] = "absent"
    PROVE  EpochInv'
<1>1. OneExecutionPerEpoch'
  BY DEF IInv, EpochInv, OneExecutionPerEpoch, Active
<1>2. ASSUME NEW s \in Slot, Active(s)'
      PROVE  /\ exec'[s].task \in Task
             /\ status'[exec'[s].task] # "absent"
             /\ exec'[s].epoch <= epoch'[exec'[s].task]
             /\ status'[exec'[s].task] = "queued" => exec'[s].epoch < epoch'[exec'[s].task]
  BY <1>2 DEF IInv, EpochInv, Active
<1>3. QED
  BY <1>1, <1>2 DEF EpochInv

\* No execution refers to a new approval, and decisions and futures stay matched.
LEMMA AskStep ==
    ASSUME IInv, UNCHANGED owner,
           \A s \in Slot : /\ ExecOK(exec'[s])
                           /\ Ids(exec'[s]) \subseteq Ids(exec[s])
                           /\ exec'[s].ask \in {None, exec[s].ask},
           \A a \in Approval : approval'[a] = "none" <=> approval[a] = "none",
           \A p \in Proc : \A a \in Approval :
              /\ future'[p][a] = "yes" => approval'[a] = "approved"
              /\ future[p][a] = "none" => future'[p][a] = "none"
    PROVE  AskInv'
<1>1. \A s \in Slot : /\ Ids(exec[s]) \subseteq Approval
                      /\ exec[s].ask # None => exec[s].ask \in Approval
  BY DEF IInv, TypeOK, Exec, Ids
<1>2. \A s \in Slot : ExecOK(exec[s])' /\ \A a \in Ids(exec'[s]) : approval'[a] # "none"
  BY <1>1 DEF IInv, AskInv, ExecOK
<1>3. \A r1, r2 \in Slot : r1 # r2 => Ids(exec'[r1]) \cap Ids(exec'[r2]) = {}
  BY DEF IInv, AskInv
<1>4. ASSUME NEW s \in Slot, NEW p \in Proc, exec'[s].ask # None, p # Host[s]
      PROVE  future'[p][exec'[s].ask] = "none"
  <2>1. exec'[s].ask = exec[s].ask /\ exec[s].ask \in Approval
    BY <1>1, <1>4
  <2>2. future[p][exec[s].ask] = "none"
    BY <2>1, <1>4 DEF IInv, AskInv
  <2>3. QED
    BY <2>1, <2>2
<1>5. \A p \in Proc : \A a \in Approval :
         /\ approval'[a] = "none" => future'[p][a] = "none"
         /\ approval'[a] # "none" => owner'[a] \in Task
  BY DEF IInv, AskInv
<1>6. QED
  BY <1>2, <1>3, <1>4, <1>5 DEF AskInv, Ids

\* CancelWrite keeps the invariant.
LEMMA CancelWriteInv ==
    ASSUME IInv, CancelWrite PROVE IInv'
<1> DEFINE t == txn[Api].task
<1>1. Api \in Proc /\ t \in Task /\ exec \in [Slot -> Exec] /\ txn \in [Proc -> Txn]
  BY DEF ConstantsAssumption, IInv, TypeOK, TxnInv, SectionOK, CancelWrite
<1>2. /\ txn' = [txn EXCEPT ![Api] = NoTxn]
      /\ \E new \in {"cancelled", status[t]} : status' = [status EXCEPT ![t] = new]
      /\ future' = [future EXCEPT ![Api] = [a \in Approval |->
                      IF owner[a] = t /\ future[Api][a] = "open" THEN "no" ELSE future[Api][a]]]
      /\ exec' = [s \in Slot |-> IF s \in RunsOf(t)
                                 THEN [exec[s] EXCEPT !.doomed = TRUE] ELSE exec[s]]
  BY DEF CancelWrite, Commit
<1>3. UNCHANGED <<checkpoint, approval, owner, answers, wake, up, redis, live, held,
                  epoch, stranded, crashes, faults>>
  BY DEF CancelWrite, hist
<1> HIDE DEF t
<1>4. /\ exec' \in [Slot -> Exec]
      /\ \A s \in Slot : /\ exec'[s].task = exec[s].task /\ exec'[s].epoch = exec[s].epoch
                         /\ exec'[s].pc = exec[s].pc /\ exec'[s].ask = exec[s].ask
                         /\ exec'[s].armed = exec[s].armed /\ exec'[s].calls = exec[s].calls
  <2>1. ASSUME NEW s \in Slot
        PROVE  /\ exec'[s] \in Exec
               /\ exec'[s].task = exec[s].task /\ exec'[s].epoch = exec[s].epoch
               /\ exec'[s].pc = exec[s].pc /\ exec'[s].ask = exec[s].ask
               /\ exec'[s].armed = exec[s].armed /\ exec'[s].calls = exec[s].calls
    <3>1. exec[s] \in Exec
      BY <1>1
    <3>2. CASE exec'[s] = exec[s]
      BY <3>1, <3>2
    <3>3. CASE exec'[s] = [exec[s] EXCEPT !.doomed = TRUE]
      BY <3>1, <3>3 DEF Exec
    <3>4. QED
      BY <1>2, <3>2, <3>3
  <2>2. exec' = [s \in Slot |-> exec'[s]]
    BY <1>2
  <2>3. QED
    BY <2>1, <2>2
<1>5. /\ future' \in [Proc -> [Approval -> FutureState]]
      /\ \A p \in Proc : \A a \in Approval :
            future'[p][a] \in {future[p][a]} \cup (IF future[p][a] = "open" THEN {"no"} ELSE {})
  BY <1>1, <1>2 DEF IInv, TypeOK, FutureState
<1>6. /\ status' \in [Task -> Status]
      /\ \A u \in Task : status'[u] \in {status[u], "cancelled"}
  BY <1>1, <1>2 DEF IInv, TypeOK, Status, Terminal
<1>7. txn' \in [Proc -> Txn]
  BY <1>1, <1>2, NoTxnOK
<1>8. TypeOK'
  BY <1>3, <1>4, <1>5, <1>6, <1>7 DEF IInv, TypeOK
<1>9. EpochInv'
  <2>1. \A s \in Slot : \/ exec'[s].pc = "idle"
                        \/ /\ Active(s)
                           /\ exec'[s].task = exec[s].task /\ exec'[s].epoch = exec[s].epoch
    BY <1>4 DEF Active
  <2>2. \A u \in Task : /\ status'[u] = "queued" => status[u] = "queued"
                        /\ status'[u] = "absent" => status[u] = "absent"
    BY <1>6
  <2>3. QED
    BY <1>3, <2>1, <2>2, EpochStep
<1>10. TxnInv'
  <2>1. \A q \in Proc : txn[q].op = "resolve" => txn[q].ask \in Approval
    BY DEF IInv, TxnInv, SectionOK
  <2>2. \A q \in Proc : txn[q].op = "resolve" => \A r \in Proc :
          future'[r][txn[q].ask] = "yes" => future[r][txn[q].ask] = "yes"
    BY <1>5, <2>1
  <2>3. QED
    BY <1>1, <1>2, <1>3, <1>4, <2>2, OtherSections
<1>11. AskInv'
  <2>1. \A s \in Slot : Ids(exec'[s]) = Ids(exec[s]) /\ ExecOK(exec'[s])
    BY <1>4 DEF IInv, AskInv, Ids, ExecOK
  <2>2. \A p \in Proc : \A a \in Approval :
          /\ future'[p][a] = "yes" => approval[a] = "approved"
          /\ future[p][a] = "none" => future'[p][a] = "none"
    BY <1>5 DEF IInv, AskInv
  <2>3. QED
    BY <1>3, <1>4, <2>1, <2>2, AskStep
<1>12. ApprovalGate'
  BY <1>3, <1>4 DEF IInv, ApprovalGate
<1> QED
  BY <1>8, <1>9, <1>10, <1>11, <1>12 DEF IInv

\* An execution disappears: finish, a job that dies, a crash of its process.
LEMMA IdleFacts ==
    /\ Idle \in Exec /\ ExecOK(Idle) /\ Ids(Idle) = {} /\ Idle.ask = None /\ Idle.pc = "idle"
    /\ Idle.armed = {}
  BY DEF Idle, Exec, PC, ExecOK, Ids, Terminal

\* FinishWrite keeps the invariant.
LEMMA FinishWriteInv ==
    ASSUME IInv, NEW p \in Proc, FinishWrite(p) PROVE IInv'
<1> DEFINE t == txn[p].task
           r == txn[p].slot
           new == Commit(txn[p].seen, exec[r].result, status[t])
<1>1. t \in Task /\ r \in Slot /\ Host[r] = p /\ exec[r].pc = "finish"
      /\ exec \in [Slot -> Exec] /\ txn \in [Proc -> Txn] /\ status \in [Task -> Status]
  BY DEF IInv, TypeOK, TxnInv, SectionOK, FinishWrite
<1>2. new \in Terminal \cup {status[t]}
  BY <1>1 DEF Commit, Exec
<1>3. /\ txn' = [txn EXCEPT ![p] = NoTxn]
      /\ status' = [status EXCEPT ![t] = new]
      /\ live' = [live EXCEPT ![p][t] = "none"]
      /\ exec' = [exec EXCEPT ![r] = Idle]
  BY DEF FinishWrite
<1>4. UNCHANGED <<checkpoint, approval, owner, answers, wake, up, redis, future, held,
                  epoch, stranded, crashes, faults>>
  BY DEF FinishWrite, hist
<1> HIDE DEF t, r, new
<1>5. /\ exec' \in [Slot -> Exec] /\ exec'[r] = Idle
      /\ \A s \in Slot : s # r => exec'[s] = exec[s]
  BY <1>1, <1>3, IdleFacts
<1>6. /\ status' \in [Task -> Status]
      /\ \A u \in Task : status'[u] \in {status[u]} \cup Terminal
  BY <1>1, <1>2, <1>3 DEF Status
<1>7. txn' \in [Proc -> Txn] /\ live' \in [Proc -> [Task -> LiveState]]
  BY <1>1, <1>3, NoTxnOK DEF IInv, TypeOK, LiveState
<1>8. TypeOK'
  BY <1>4, <1>5, <1>6, <1>7 DEF IInv, TypeOK
<1>9. EpochInv'
  BY <1>4, <1>5, <1>6, IdleFacts, EpochStep DEF Active, Terminal
<1>10. TxnInv'
  BY <1>1, <1>3, <1>4, <1>5, OtherSections
<1>11. AskInv'
  <2>1. \A s \in Slot : ExecOK(exec[s])
    BY DEF IInv, AskInv
  <2>2. \A q \in Proc : \A a \in Approval : future[q][a] = "yes" => approval[a] = "approved"
    BY DEF IInv, AskInv
  <2>3. QED
    BY <1>4, <1>5, <2>1, <2>2, IdleFacts, AskStep
<1>12. ApprovalGate'
  BY <1>4, <1>5, IdleFacts DEF IInv, ApprovalGate
<1> QED
  BY <1>8, <1>9, <1>10, <1>11, <1>12 DEF IInv

\* JobCrashes keeps the invariant.
LEMMA JobCrashesInv ==
    ASSUME IInv, NEW s \in Slot, JobCrashes(s) PROVE IInv'
<1>1. Active(s) /\ Free(Host[s])
  BY DEF JobCrashes, At, Active
<1>2. exec' = [exec EXCEPT ![s] = Idle] /\ exec \in [Slot -> Exec] /\ T(s) \in Task
  BY <1>1, ActiveFacts DEF JobCrashes, Become, IInv, TypeOK
<1>3. UNCHANGED <<status, checkpoint, approval, owner, answers, wake, up, redis, live, future,
                  held, txn, epoch, crashes>>
  BY DEF JobCrashes, rows
<1>4. /\ exec' \in [Slot -> Exec] /\ exec'[s] = Idle
      /\ \A r \in Slot : r # s => exec'[r] = exec[r]
  BY <1>2, IdleFacts
<1>5. stranded' \in SUBSET Task /\ faults' \in Nat
  <2>1. faults \in Nat /\ stranded \in SUBSET Task
    BY DEF IInv, TypeOK
  <2>2. stranded' = stranded \cup {T(s)} /\ faults' = faults + 1
    BY DEF JobCrashes
  <2>3. faults' \in Nat
    BY <2>1, <2>2
  <2> QED
    BY <1>2, <2>1, <2>2, <2>3
<1>6. TypeOK'
  BY <1>3, <1>4, <1>5 DEF IInv, TypeOK
<1>7. EpochInv'
  BY <1>3, <1>4, IdleFacts, EpochStep DEF Active
<1>8. TxnInv'
  <2>1. Host[s] \in Proc /\ txn[Host[s]] = NoTxn /\ txn' = [txn EXCEPT ![Host[s]] = NoTxn]
    BY <1>1, <1>3 DEF Free, IInv, TypeOK
  <2>2. QED
    BY <1>3, <1>4, <2>1, OtherSections
<1>9. AskInv'
  <2>1. \A r \in Slot : ExecOK(exec[r])
    BY DEF IInv, AskInv
  <2>2. \A q \in Proc : \A a \in Approval : future[q][a] = "yes" => approval[a] = "approved"
    BY DEF IInv, AskInv
  <2>3. QED
    BY <1>3, <1>4, <2>1, <2>2, IdleFacts, AskStep
<1>10. ApprovalGate'
  BY <1>3, <1>4, IdleFacts DEF IInv, ApprovalGate
<1> QED
  BY <1>6, <1>7, <1>8, <1>9, <1>10 DEF IInv

\* Crash keeps the invariant.
LEMMA CrashInv ==
    ASSUME IInv, NEW p \in Proc, Crash(p) PROVE IInv'
<1>1. /\ txn' = [txn EXCEPT ![p] = NoTxn]
      /\ future' = [future EXCEPT ![p] = [a \in Approval |-> "none"]]
      /\ exec' = [s \in Slot |-> IF Host[s] = p THEN Idle ELSE exec[s]]
      /\ UNCHANGED <<status, checkpoint, approval, owner, answers, wake, redis, epoch, stranded, faults>>
  BY DEF Crash, rows
<1>2. /\ exec' \in [Slot -> Exec]
      /\ \A s \in Slot : exec'[s] = IF Host[s] = p THEN Idle ELSE exec[s]
  BY <1>1, IdleFacts DEF IInv, TypeOK
<1>3. /\ future' \in [Proc -> [Approval -> FutureState]]
      /\ \A q \in Proc : \A a \in Approval : future'[q][a] \in {future[q][a], "none"}
  BY <1>1 DEF IInv, TypeOK, FutureState
<1>4. /\ txn' \in [Proc -> Txn] /\ live' \in [Proc -> [Task -> LiveState]]
      /\ up' \in [Proc -> BOOLEAN] /\ held' \in [Proc -> Task \cup {None}] /\ crashes' \in Nat
  BY NoTxnOK DEF Crash, IInv, TypeOK, LiveState
<1>5. TypeOK'
  BY <1>1, <1>2, <1>3, <1>4 DEF IInv, TypeOK
<1>6. EpochInv'
  BY <1>1, <1>2, IdleFacts, EpochStep DEF Active
<1>7. TxnInv'
  <2>1. \A q \in Proc : txn[q].op = "resolve" => txn[q].ask \in Approval
    BY DEF IInv, TxnInv, SectionOK
  <2>2. \A q \in Proc : txn[q].op = "resolve" => \A r \in Proc :
          future'[r][txn[q].ask] = "yes" => future[r][txn[q].ask] = "yes"
    BY <1>3, <2>1
  <2>3. QED
    BY <1>1, <1>2, <2>2, OtherSections
<1>8. AskInv'
  <2>1. \A r \in Slot : ExecOK(exec[r])
    BY DEF IInv, AskInv
  <2>2. \A q \in Proc : \A a \in Approval : future'[q][a] = "yes" => approval[a] = "approved"
    BY <1>3 DEF IInv, AskInv
  <2>3. QED
    BY <1>1, <1>2, <1>3, <2>1, <2>2, IdleFacts, AskStep
<1>9. ApprovalGate'
  BY <1>1, <1>2, IdleFacts DEF IInv, ApprovalGate
<1> QED
  BY <1>5, <1>6, <1>7, <1>8, <1>9 DEF IInv

\* ResolveWrite keeps the invariant.
LEMMA ResolveWriteInv ==
    ASSUME IInv, NEW p \in Proc, ResolveWrite(p) PROVE IInv'
<1> DEFINE x == txn[p]
           a == x.ask
           f == CASE x.verdict = "expired" -> "none"
                  [] x.verdict # "expired" /\ future[p][a] = "open" ->
                        IF x.verdict = "approved" THEN "yes" ELSE "no"
                  [] OTHER -> future[p][a]
<1>1. /\ x \in Txn /\ x.op = "resolve" /\ SectionOK(p, x) /\ a \in Approval /\ x.task \in Task
      /\ x.verdict \in Verdict /\ (x.slot = None \/ x.slot \in Slot)
  BY DEF ResolveWrite, IInv, TypeOK, TxnInv, SectionOK, Txn
<1>2. /\ txn' = [txn EXCEPT ![p] = NoTxn]
      /\ approval' = [approval EXCEPT ![a] = x.verdict]
      /\ \E new \in {"running", status[x.task]} : status' = [status EXCEPT ![x.task] = new]
      /\ future' = [future EXCEPT ![p][a] = f]
      /\ exec' = IF x.slot = None THEN exec ELSE [exec EXCEPT ![x.slot].pc = "refused"]
  BY <1>1 DEF ResolveWrite, IInv, TypeOK
<1>3. UNCHANGED <<checkpoint, owner, answers, wake, up, redis, live, held,
                  epoch, stranded, crashes, faults>>
  BY DEF ResolveWrite, hist
\* The section's approval is armed nowhere.
<1>4. /\ approval[a] # "none"
      /\ x.slot = None => p = Api /\ approval[a] # "approved"
      /\ x.slot # None => /\ Host[x.slot] = p /\ exec[x.slot].ask = a
                          /\ exec[x.slot].pc \in {"asking", "waiting"} /\ x.verdict # "approved"
                          /\ \A q \in Proc : future[q][a] # "yes"
  BY <1>1 DEF SectionOK
<1>5. \A s \in Slot : a \notin exec[s].armed /\ (exec[s].pc = "granted" => exec[s].ask # a)
  <2>1. CASE x.slot = None
    BY <1>4, <2>1 DEF IInv, ApprovalGate
  <2>2. CASE x.slot # None
    <3>1. a \in Ids(exec[x.slot]) /\ a # None
      BY <1>1, <1>4, <2>2 DEF Ids
    <3>2. \A s \in Slot : s # x.slot => a \notin Ids(exec[s])
      BY <1>1, <2>2, <3>1 DEF IInv, AskInv
    <3>3. a \notin exec[x.slot].armed /\ exec[x.slot].pc # "granted"
      BY <1>1, <1>4, <2>2 DEF IInv, AskInv, ExecOK
    <3>4. QED
      BY <1>1, <3>1, <3>2, <3>3 DEF Ids
  <2>3. QED
    BY <2>1, <2>2
<1>6. /\ f \in FutureState
      /\ f = "yes" => x.verdict = "approved"
      /\ future[p][a] = "none" => f = "none"
  <2>1. future[p][a] \in FutureState
    BY <1>1 DEF IInv, TypeOK
  <2>2. future[p][a] = "yes" => approval[a] = "approved"
    BY <1>1 DEF IInv, AskInv
  <2>3. future[p][a] # "yes"
    BY <1>1, <1>4, <2>2
  <2>4. QED
    BY <2>1, <2>3 DEF FutureState
<1> HIDE DEF x, a, f
<1>7. /\ future' \in [Proc -> [Approval -> FutureState]]
      /\ \A q \in Proc : \A b \in Approval :
            future'[q][b] = IF q = p /\ b = a THEN f ELSE future[q][b]
  BY <1>1, <1>2, <1>6 DEF IInv, TypeOK
<1>8. /\ exec' \in [Slot -> Exec]
      /\ \A s \in Slot : /\ exec'[s].task = exec[s].task /\ exec'[s].epoch = exec[s].epoch
                         /\ exec'[s].ask = exec[s].ask /\ exec'[s].armed = exec[s].armed
                         /\ exec'[s].calls = exec[s].calls
                         /\ exec'[s].pc = IF s = x.slot THEN "refused" ELSE exec[s].pc
  <2>1. CASE x.slot = None
    <3>1. \A s \in Slot : s # x.slot
      BY <2>1 DEF ConstantsAssumption
    <3>2. QED
      BY <1>2, <2>1, <3>1 DEF IInv, TypeOK
  <2>2. CASE x.slot \in Slot
    <3> DEFINE e == [exec[x.slot] EXCEPT !.pc = "refused"]
    <3>1. exec \in [Slot -> Exec] /\ exec[x.slot] \in Exec
      BY <2>2 DEF IInv, TypeOK
    <3>2. e \in Exec /\ e.pc = "refused" /\ e.task = exec[x.slot].task
          /\ e.epoch = exec[x.slot].epoch /\ e.ask = exec[x.slot].ask
          /\ e.armed = exec[x.slot].armed /\ e.calls = exec[x.slot].calls
      BY <3>1 DEF Exec, PC
    <3>3. exec' = [exec EXCEPT ![x.slot] = e]
      BY <1>2, <2>2 DEF ConstantsAssumption
    <3> HIDE DEF e
    <3>4. QED
      BY <2>2, <3>1, <3>2, <3>3
  <2>3. QED
    BY <1>1, <2>1, <2>2
<1>9. /\ status' \in [Task -> Status]
      /\ \A u \in Task : status'[u] \in {status[u], "running"}
  BY <1>1, <1>2 DEF IInv, TypeOK, Status
<1>10. /\ approval' \in [Approval -> {"none", "pending"} \cup Verdict]
       /\ approval'[a] = x.verdict
       /\ \A b \in Approval : b # a => approval'[b] = approval[b]
  BY <1>1, <1>2 DEF IInv, TypeOK
<1>11. txn' \in [Proc -> Txn]
  BY <1>2, NoTxnOK DEF IInv, TypeOK
<1>12. TypeOK'
  BY <1>3, <1>7, <1>8, <1>9, <1>10, <1>11 DEF IInv, TypeOK
<1>13. EpochInv'
  <2>1. \A s \in Slot : Active(s) \/ exec'[s].pc = "idle"
    BY <1>4, <1>8 DEF Active
  <2>2. QED
    BY <1>3, <1>8, <1>9, <2>1, EpochStep
<1>14. TxnInv'
  <2>1. \A r \in Slot : Host[r] # p =>
              exec'[r].pc = exec[r].pc /\ exec'[r].ask = exec[r].ask
    BY <1>1, <1>4, <1>8
  <2>2. \A b \in Approval : approval'[b] = "none" => approval[b] = "none"
    BY <1>1, <1>10 DEF Verdict
  <2>3. ASSUME NEW q \in Proc, txn[q].op = "resolve", q # p
        PROVE  /\ txn[q].slot = None /\ approval'[txn[q].ask] = "approved"
                    => approval[txn[q].ask] = "approved"
               /\ txn[q].slot # None => \A r \in Proc :
                    future'[r][txn[q].ask] = "yes" => future[r][txn[q].ask] = "yes"
    <3> DEFINE y == txn[q]
    <3>1. SectionOK(q, y) /\ y \in Txn /\ y.op = "resolve"
      BY <2>3 DEF IInv, TxnInv, TypeOK
    <3> HIDE DEF y
    <3>2. y.ask \in Approval /\ (y.slot = None => q = Api)
      BY <3>1 DEF SectionOK
    <3>3. CASE y.slot = None
      BY <1>4, <1>10, <2>3, <3>2, <3>3 DEF y
    <3>4. CASE y.slot # None
      <4>1. y.slot \in Slot /\ exec[y.slot].ask = y.ask /\ Host[y.slot] = q
        BY <3>1, <3>4 DEF SectionOK, Txn
      <4>2. future[p][y.ask] = "none"
        BY <2>3, <3>2, <4>1 DEF IInv, AskInv, ConstantsAssumption
      <4>3. QED
        BY <1>6, <1>7, <3>2, <3>4, <4>2 DEF y
    <3>5. QED
      BY <3>3, <3>4
  <2>4. QED
    BY <1>2, <2>1, <2>2, <2>3, OtherSections
<1>15. AskInv'
  <2>1. \A s \in Slot : Ids(exec'[s]) = Ids(exec[s])
    BY <1>8 DEF Ids
  <2>2. \A s \in Slot : ExecOK(exec'[s])
    BY <1>4, <1>8 DEF IInv, AskInv, ExecOK
  <2>3. \A q \in Proc : \A b \in Approval :
              /\ future'[q][b] = "yes" => approval'[b] = "approved"
              /\ future[q][b] = "none" => future'[q][b] = "none"
    <3>1. ASSUME NEW q \in Proc, future[q][a] = "yes" PROVE x.verdict = "approved"
      BY <3>1, <1>1, <1>4 DEF IInv, AskInv
    <3>2. QED
      BY <1>1, <1>6, <1>7, <1>10, <3>1 DEF IInv, AskInv
  <2>4. \A b \in Approval : approval'[b] = "none" <=> approval[b] = "none"
    BY <1>1, <1>4, <1>10 DEF Verdict
  <2>5. QED
    BY <1>3, <1>8, <2>1, <2>2, <2>3, <2>4, AskStep
<1>16. ApprovalGate'
  <2>1. ASSUME NEW s \in Slot
        PROVE  /\ \A b \in exec'[s].armed : approval'[b] = "approved"
               /\ exec'[s].pc = "granted" => approval'[exec'[s].ask] = "approved"
    <3>1. exec[s].armed \subseteq Approval
      BY DEF IInv, TypeOK, Exec
    <3>2. exec[s].pc = "granted" => exec[s].ask \in Approval
      BY DEF IInv, TypeOK, AskInv, ExecOK, Exec
    <3>3. QED
      BY <1>5, <1>8, <1>10, <3>1, <3>2 DEF IInv, ApprovalGate
  <2>2. QED
    BY <2>1 DEF ApprovalGate
<1> QED
  BY <1>12, <1>13, <1>14, <1>15, <1>16 DEF IInv

\* AskWrite keeps the invariant.
LEMMA AskWriteInv ==
    ASSUME IInv, NEW p \in Proc, NEW a \in Approval, AskWrite(p, a) PROVE IInv'
<1> DEFINE x == txn[p]
           r == x.slot
           e == [exec[r] EXCEPT !.pc = "asking", !.ask = a]
<1>1. /\ x \in Txn /\ x.task \in Task /\ r \in Slot /\ Host[r] = p /\ exec[r].pc = "hooks"
      /\ exec \in [Slot -> Exec] /\ exec[r] \in Exec /\ approval[a] = "none"
  BY DEF AskWrite, IInv, TypeOK, TxnInv, SectionOK
<1>2. /\ txn' = [txn EXCEPT ![p] = NoTxn]
      /\ approval' = [approval EXCEPT ![a] = "pending"]
      /\ owner' = [owner EXCEPT ![a] = x.task]
      /\ \E new \in {"waiting-approval", status[x.task]} : status' = [status EXCEPT ![x.task] = new]
      /\ future' = [future EXCEPT ![p][a] = "open"]
      /\ exec' = [exec EXCEPT ![r] = e]
  BY <1>1 DEF AskWrite, Commit
<1>3. UNCHANGED <<checkpoint, answers, wake, up, redis, live, held, epoch, stranded, crashes, faults>>
  BY DEF AskWrite, hist
<1>4. /\ e \in Exec /\ e.pc = "asking" /\ e.ask = a /\ e.armed = exec[r].armed
      /\ e.task = exec[r].task /\ e.epoch = exec[r].epoch /\ e.calls = exec[r].calls
  BY <1>1 DEF Exec, PC
\* The new request is referred to nowhere.
<1>5. /\ \A s \in Slot : a \notin Ids(exec[s])
      /\ \A q \in Proc : future[q][a] = "none"
      /\ a # None
  BY <1>1 DEF IInv, AskInv, ConstantsAssumption
<1> HIDE DEF x, r, e
<1>6. /\ exec' \in [Slot -> Exec] /\ exec'[r] = e
      /\ \A s \in Slot : s # r => exec'[s] = exec[s]
  BY <1>1, <1>2, <1>4
<1>7. /\ future' \in [Proc -> [Approval -> FutureState]]
      /\ \A q \in Proc : \A b \in Approval :
            future'[q][b] = IF q = p /\ b = a THEN "open" ELSE future[q][b]
  BY <1>2 DEF IInv, TypeOK, FutureState
<1>8. /\ status' \in [Task -> Status]
      /\ \A u \in Task : status'[u] \in {status[u], "waiting-approval"}
  BY <1>1, <1>2 DEF IInv, TypeOK, Status
<1>9. /\ approval' \in [Approval -> {"none", "pending"} \cup Verdict]
      /\ \A b \in Approval : approval'[b] = IF b = a THEN "pending" ELSE approval[b]
  BY <1>2 DEF IInv, TypeOK
<1>10. /\ owner' \in [Approval -> Task \cup {None}]
       /\ \A b \in Approval : owner'[b] = IF b = a THEN x.task ELSE owner[b]
  BY <1>1, <1>2 DEF IInv, TypeOK
<1>11. txn' \in [Proc -> Txn]
  BY <1>2, NoTxnOK DEF IInv, TypeOK
<1>12. TypeOK'
  BY <1>3, <1>6, <1>7, <1>8, <1>9, <1>10, <1>11 DEF IInv, TypeOK
<1>13. EpochInv'
  <2>1. \A s \in Slot : \/ exec'[s].pc = "idle"
                        \/ /\ Active(s)
                           /\ exec'[s].task = exec[s].task /\ exec'[s].epoch = exec[s].epoch
    BY <1>1, <1>4, <1>6 DEF Active
  <2>2. \A u \in Task : /\ status'[u] = "queued" => status[u] = "queued"
                        /\ status'[u] = "absent" => status[u] = "absent"
    BY <1>8
  <2>3. QED
    BY <1>3, <2>1, <2>2, EpochStep
<1>14. TxnInv'
  <2>1. \A q \in Proc : txn[q].op = "resolve" => txn[q].ask \in Approval /\ txn[q].ask # a
    BY <1>1 DEF IInv, TxnInv, SectionOK
  <2>2. \A q \in Proc : txn[q].op = "resolve" =>
           /\ approval'[txn[q].ask] = approval[txn[q].ask]
           /\ \A s \in Proc : future'[s][txn[q].ask] = future[s][txn[q].ask]
    BY <1>7, <1>9, <2>1
  <2>3. QED
    <3>1. \A s \in Slot : Host[s] # p => exec'[s].pc = exec[s].pc /\ exec'[s].ask = exec[s].ask
      BY <1>1, <1>6
    <3>2. \A b \in Approval : approval'[b] = "none" => approval[b] = "none"
      BY <1>9
    <3>3. \A q \in Proc : txn[q].op = "resolve" /\ q # p =>
             /\ txn[q].slot = None /\ approval'[txn[q].ask] = "approved"
                  => approval[txn[q].ask] = "approved"
             /\ txn[q].slot # None => \A s \in Proc :
                  future'[s][txn[q].ask] = "yes" => future[s][txn[q].ask] = "yes"
      BY <2>2
    <3>4. txn' = [txn EXCEPT ![p] = NoTxn]
      BY <1>2
    <3>5. QED
      BY <3>1, <3>2, <3>3, <3>4, OtherSections
<1>15. AskInv'
  <2>1. \A s \in Slot : Ids(exec[s]) \subseteq Approval
    BY DEF IInv, TypeOK, Exec, Ids
  <2>2. /\ \A s \in Slot : s # r => Ids(exec'[s]) = Ids(exec[s])
        /\ Ids(exec'[r]) \subseteq Ids(exec[r]) \cup {a}
    BY <1>4, <1>6 DEF Ids
  <2>3. \A s \in Slot : ExecOK(exec'[s])
    <3>1. \A s \in Slot : ExecOK(exec[s])
      BY DEF IInv, AskInv
    <3>2. ExecOK(e)
      BY <1>1, <1>4, <1>5, <3>1 DEF ExecOK, Ids
    <3>3. QED
      BY <1>6, <3>1, <3>2
  <2>4. \A s \in Slot : \A b \in Ids(exec'[s]) : approval'[b] # "none"
    BY <1>9, <2>1, <2>2 DEF IInv, AskInv
  <2>5. \A s1, s2 \in Slot : s1 # s2 => Ids(exec'[s1]) \cap Ids(exec'[s2]) = {}
    BY <1>5, <2>2 DEF IInv, AskInv
  <2>6. ASSUME NEW s \in Slot, NEW q \in Proc, exec'[s].ask # None, q # Host[s]
        PROVE  future'[q][exec'[s].ask] = "none"
    <3>1. CASE s = r
      BY <1>1, <1>4, <1>5, <1>6, <1>7, <2>6, <3>1
    <3>2. CASE s # r
      <4>1. exec'[s].ask = exec[s].ask /\ exec[s].ask \in Ids(exec[s]) /\ exec[s].ask \in Approval
        BY <1>6, <2>1, <2>6, <3>2 DEF Ids
      <4>2. future[q][exec[s].ask] = "none" /\ exec[s].ask # a
        BY <1>5, <2>6, <4>1 DEF IInv, AskInv
      <4>3. QED
        BY <1>7, <4>1, <4>2
    <3>3. QED
      BY <3>1, <3>2
  <2>7. \A q \in Proc : \A b \in Approval :
          /\ future'[q][b] = "yes" => approval'[b] = "approved"
          /\ approval'[b] = "none" => future'[q][b] = "none"
          /\ approval'[b] # "none" => owner'[b] \in Task
    BY <1>1, <1>5, <1>7, <1>9, <1>10 DEF IInv, AskInv
  <2>8. QED
    BY <2>3, <2>4, <2>5, <2>6, <2>7 DEF AskInv, ExecOK, Ids
<1>16. ApprovalGate'
  <2>1. ASSUME NEW s \in Slot
        PROVE  /\ \A b \in exec'[s].armed : approval'[b] = "approved"
               /\ exec'[s].pc = "granted" => approval'[exec'[s].ask] = "approved"
    <3>1. exec'[s].armed = exec[s].armed /\ exec[s].armed \subseteq Approval
          /\ a \notin exec[s].armed
      BY <1>4, <1>5, <1>6 DEF IInv, TypeOK, Exec, Ids
    <3>2. exec'[s].pc = "granted" => /\ s # r /\ exec'[s] = exec[s]
                                     /\ exec[s].ask \in Approval /\ exec[s].ask # a
      BY <1>1, <1>4, <1>6 DEF IInv, TypeOK, AskInv, ApprovalGate, ExecOK, Exec
    <3>3. QED
      BY <1>9, <3>1, <3>2 DEF IInv, ApprovalGate
  <2>2. QED
    BY <2>1 DEF ApprovalGate
<1> QED
  BY <1>12, <1>13, <1>14, <1>15, <1>16 DEF IInv

\* Activate keeps the invariant.
LEMMA ActivateInv ==
    ASSUME IInv, NEW p \in Proc, NEW s \in Slot, Activate(p, s) PROVE IInv'
<1> DEFINE t == held[p]
           e == [Idle EXCEPT !.task = t, !.pc = "start", !.epoch = epoch[t]]
<1>1. /\ t \in Task /\ Host[s] = p /\ txn[p] = NoTxn /\ exec[s].pc = "idle"
      /\ exec \in [Slot -> Exec] /\ epoch[t] \in Nat
      /\ held' = [held EXCEPT ![p] = None]
  BY DEF Activate, IInv, TypeOK, Free, Active
<1>2. UNCHANGED <<checkpoint, approval, owner, answers, wake, up, redis, future, txn,
                  epoch, stranded, crashes, faults>>
  BY DEF Activate, hist
<1>3. held' \in [Proc -> Task \cup {None}]
  BY <1>1 DEF IInv, TypeOK
<1>4. CASE status[t] = "queued"
  <2>1. /\ status' = [status EXCEPT ![t] = "running"]
        /\ live' = [live EXCEPT ![p][t] = "fresh"]
        /\ exec' = [exec EXCEPT ![s] = e]
    BY <1>4 DEF Activate, Claimable
  <2>2. /\ e \in Exec /\ e.pc = "start" /\ e.task = t /\ e.epoch = epoch[t] /\ e.ask = None
        /\ e.armed = {}
    BY <1>1 DEF Idle, Exec, PC, Terminal
  <2> HIDE DEF t, e
  <2>3. /\ exec' \in [Slot -> Exec] /\ exec'[s] = e
        /\ \A r \in Slot : r # s => exec'[r] = exec[r]
    BY <1>1, <2>1, <2>2
  <2>4. /\ status' \in [Task -> Status] /\ status'[t] = "running"
        /\ \A u \in Task : u # t => status'[u] = status[u]
    BY <1>1, <2>1 DEF IInv, TypeOK, Status
  <2>5. live' \in [Proc -> [Task -> LiveState]]
    BY <2>1 DEF IInv, TypeOK, LiveState
  <2>6. TypeOK'
    BY <1>2, <1>3, <2>3, <2>4, <2>5 DEF IInv, TypeOK
  \* The row was queued: every other execution of the task is of an earlier epoch.
  <2>7. EpochInv'
    <3>1. \A r \in Slot : r # s /\ Active(r) /\ exec[r].task = t => exec[r].epoch < epoch[t]
      BY <1>4 DEF IInv, EpochInv, t
    <3>2. OneExecutionPerEpoch'
      <4>1. ASSUME NEW r \in Slot, r # s, Active(r), exec[r].task = t
            PROVE  exec[r].epoch # epoch[t]
        BY <3>1, <4>1, <1>1 DEF IInv, TypeOK, Exec
      <4>2. \A r1, r2 \in Slot :
              Active(r1) /\ Active(r2) /\ exec[r1].task = exec[r2].task /\ r1 # r2
                => exec[r1].epoch # exec[r2].epoch
        BY DEF IInv, EpochInv, OneExecutionPerEpoch
      <4>3. QED
        BY <2>2, <2>3, <4>1, <4>2 DEF OneExecutionPerEpoch, Active
    <3>3. ASSUME NEW r \in Slot, Active(r)'
          PROVE  /\ exec'[r].task \in Task
                 /\ status'[exec'[r].task] # "absent"
                 /\ exec'[r].epoch <= epoch'[exec'[r].task]
                 /\ status'[exec'[r].task] = "queued" => exec'[r].epoch < epoch'[exec'[r].task]
      <4>1. CASE r = s
        BY <1>1, <1>2, <2>2, <2>3, <2>4, <4>1
      <4>2. CASE r # s
        BY <1>2, <2>3, <2>4, <3>3, <4>2 DEF IInv, EpochInv, Active
      <4>3. QED
        BY <4>1, <4>2
    <3>4. QED
      BY <3>2, <3>3 DEF EpochInv
  <2>8. TxnInv'
    <3>1. txn' = [txn EXCEPT ![p] = NoTxn]
      BY <1>1, <1>2 DEF IInv, TypeOK
    <3>2. QED
      BY <1>1, <1>2, <2>3, <3>1, OtherSections
  <2>9. AskInv'
    <3>1. /\ \A r \in Slot : ExecOK(exec[r])
          /\ \A q \in Proc : \A a \in Approval : future[q][a] = "yes" => approval[a] = "approved"
      BY DEF IInv, AskInv
    <3>2. ExecOK(e) /\ Ids(e) = {}
      BY <2>2 DEF ExecOK, Ids
    <3>3. QED
      BY <1>2, <2>2, <2>3, <3>1, <3>2, AskStep
  <2>10. ApprovalGate'
    BY <1>2, <2>2, <2>3 DEF IInv, ApprovalGate
  <2>11. QED
    BY <2>6, <2>7, <2>8, <2>9, <2>10 DEF IInv
<1>5. CASE status[t] # "queued"
  <2>1. UNCHANGED <<status, live, exec>>
    BY <1>5 DEF Activate, Claimable
  <2>2. TypeOK'
    BY <1>2, <1>3, <2>1 DEF IInv, TypeOK
  <2>3. QED
    BY <1>2, <2>1, <2>2, PlumbingStep
<1>6. QED
  BY <1>4, <1>5

\* Restart keeps the invariant.
LEMMA RestartInv ==
    ASSUME IInv, NEW p \in Proc, Restart(p) PROVE IInv'
<1>1. /\ UNCHANGED <<checkpoint, owner, answers, live, future, held, txn, exec, crashes, faults>>
      /\ up' \in [Proc -> BOOLEAN] /\ redis' \in [Proc -> BOOLEAN]
  BY DEF Restart, IInv, TypeOK
<1>2. CASE p \in Worker
  <2>1. /\ status' = [t \in Task |-> IF Unfinished(t) THEN "queued" ELSE status[t]]
        /\ approval' = [a \in Approval |->
                          IF approval[a] = "pending" THEN "expired" ELSE approval[a]]
        /\ epoch' = [t \in Task |-> IF Unfinished(t) THEN epoch[t] + 1 ELSE epoch[t]]
        /\ stranded' = {}
        /\ wake' = [t \in Task |-> IF status'[t] = "queued" THEN wake[t] + 1 ELSE wake[t]]
    BY <1>2 DEF Restart, Pending
  <2>2. wake \in [Task -> Nat] /\ epoch \in [Task -> Nat]
    BY DEF IInv, TypeOK
  <2>3. wake' \in [Task -> Nat] /\ epoch' \in [Task -> Nat]
    <3>1. ASSUME NEW t \in Task PROVE wake'[t] \in Nat /\ epoch'[t] \in Nat
      BY <2>1, <2>2
    <3>2. QED
      BY <2>1, <3>1
  <2>4. status' \in [Task -> Status]
    BY <2>1 DEF IInv, TypeOK, Status
  <2>5. approval' \in [Approval -> {"none", "pending"} \cup Verdict]
    BY <2>1 DEF IInv, TypeOK, Verdict
  <2>6. TypeOK'
    BY <1>1, <2>1, <2>3, <2>4, <2>5 DEF IInv, TypeOK
  <2>7. EpochInv'
    <3>1. OneExecutionPerEpoch'
      BY <1>1 DEF IInv, EpochInv, OneExecutionPerEpoch, Active
    <3>2. ASSUME NEW s \in Slot, Active(s)
          PROVE  /\ exec[s].task \in Task
                 /\ status'[exec[s].task] # "absent"
                 /\ exec[s].epoch <= epoch'[exec[s].task]
                 /\ status'[exec[s].task] = "queued" => exec[s].epoch < epoch'[exec[s].task]
      <4> DEFINE t == exec[s].task
      <4>1. /\ t \in Task /\ status[t] # "absent" /\ exec[s].epoch <= epoch[t]
            /\ status[t] = "queued" => exec[s].epoch < epoch[t]
            /\ exec[s].epoch \in Nat /\ epoch[t] \in Nat
        BY <3>2 DEF IInv, TypeOK, EpochInv, Exec
      <4>2. /\ status'[t] = IF Unfinished(t) THEN "queued" ELSE status[t]
            /\ epoch'[t] = IF Unfinished(t) THEN epoch[t] + 1 ELSE epoch[t]
        BY <2>1, <4>1
      <4> HIDE DEF t
      <4>3. /\ status'[t] # "absent"
            /\ exec[s].epoch <= epoch'[t]
            /\ status'[t] = "queued" => exec[s].epoch < epoch'[t]
        BY <4>1, <4>2
      <4>4. QED
        BY <4>1, <4>3 DEF t
    <3>3. QED
      BY <1>1, <3>1, <3>2 DEF EpochInv, Active
  <2>8. \A a \in Approval : /\ approval'[a] = "approved" <=> approval[a] = "approved"
                            /\ approval'[a] = "none" <=> approval[a] = "none"
    BY <2>1
  <2>9. TxnInv'
    <3>1. ASSUME NEW q \in Proc PROVE SectionOK(q, txn[q])'
      <4>1. SectionOK(q, txn[q])
        BY DEF IInv, TxnInv
      <4>2. QED
        BY <1>1, <2>8, <4>1 DEF SectionOK
    <3>2. QED
      BY <3>1 DEF TxnInv
  <2>10. AskInv'
    <3>1. /\ \A r \in Slot : ExecOK(exec[r])
          /\ \A q \in Proc : \A a \in Approval : future[q][a] = "yes" => approval[a] = "approved"
      BY DEF IInv, AskInv
    <3>2. \A r \in Slot : exec[r].ask \in {None, exec[r].ask}
      OBVIOUS
    <3>3. QED
      BY <1>1, <2>8, <3>1, <3>2, AskStep
  <2>11. ApprovalGate'
    <3>1. ASSUME NEW s \in Slot
          PROVE  /\ \A b \in exec[s].armed : approval'[b] = "approved"
                 /\ exec[s].pc = "granted" => approval'[exec[s].ask] = "approved"
      <4>1. /\ exec[s].armed \subseteq Approval
            /\ exec[s].pc = "granted" => exec[s].ask \in Approval
        BY DEF IInv, TypeOK, AskInv, ExecOK, Exec
      <4>2. QED
        BY <2>8, <4>1 DEF IInv, ApprovalGate
    <3>2. QED
      BY <1>1, <3>1 DEF ApprovalGate
  <2>12. QED
    BY <2>6, <2>7, <2>9, <2>10, <2>11 DEF IInv
<1>3. CASE p \notin Worker
  <2>1. UNCHANGED <<status, approval, epoch, stranded, wake>>
    BY <1>3 DEF Restart
  <2>2. TypeOK'
    BY <1>1, <2>1 DEF IInv, TypeOK
  <2>3. QED
    BY <1>1, <2>1, <2>2, PlumbingStep
<1>4. QED
  BY <1>2, <1>3

-----------------------------------------------------------------------------

\* The invariant holds initially.
LEMMA InitInv == Init => IInv
<1> SUFFICES ASSUME Init PROVE IInv
  OBVIOUS
<1>1. TypeOK
  <2>1. exec \in [Slot -> Exec] /\ txn \in [Proc -> Txn]
    BY IdleFacts, NoTxnOK DEF Init
  <2>2. QED
    BY <2>1 DEF Init, TypeOK, Status, Phase, LiveState, FutureState
<1>2. EpochInv
  BY IdleFacts DEF Init, EpochInv, OneExecutionPerEpoch, Active
<1>3. TxnInv
  BY NoTxnOK DEF Init, TxnInv
<1>4. AskInv
  BY IdleFacts DEF Init, AskInv
<1>5. ApprovalGate
  BY IdleFacts DEF Init, ApprovalGate
<1> QED
  BY <1>1, <1>2, <1>3, <1>4, <1>5 DEF IInv

\* Every step keeps the invariant.
LEMMA NextInv == IInv /\ [Next]_vars => IInv'
<1> SUFFICES ASSUME IInv, [Next]_vars PROVE IInv'
  OBVIOUS
<1>1. ASSUME NEW t \in Task, User(t) PROVE IInv'
  BY <1>1, CreateInv, CancelReadInv, ResumeReadInv DEF User
<1>2. ASSUME NEW a \in Approval, NEW v \in {"approved", "rejected"}, UserDecides(a, v) PROVE IInv'
  BY <1>2, UserDecidesInv
<1>3. ASSUME NEW s \in Slot, RunStep(s) PROVE IInv'
  BY <1>3, StartInv, TurnStartInv, TurnsExhaustedInv, LlmRetriesInv, LlmAnswersInv, LlmCallsToolsInv,
     PrepareCallInv, CallDecidedInv, PermissionHooksPassInv, WaitTimesOutInv, WaitEndsInv,
     CallAnsweredInv, ToolsDoneInv, RaiseCancelledInv, EndsWithoutAnswerInv, PersistAnswerInv,
     FinishReadInv DEF RunStep
<1>4. ASSUME NEW s \in Slot, RunChoice(s) PROVE IInv'
  BY <1>4, AskReadInv, HookRejectsInv, FailInv, JobCrashesInv DEF RunChoice
<1>5. ASSUME NEW p \in Proc, Commits(p) PROVE IInv'
  BY <1>5, EnqueueInv, CancelWriteInv, ResumeWriteInv, ResolveWriteInv, AskWriteInv,
     FinishWriteInv DEF Commits
<1>6. ASSUME NEW p \in Proc, WorkerLoop(p) PROVE IInv'
  BY <1>6, PopWakeInv, PollRowInv, ActivateInv DEF WorkerLoop
<1>7. ASSUME NEW p \in Proc, RedisFails(p) \/ Crash(p) \/ Restart(p) PROVE IInv'
  BY <1>7, RedisFailsInv, CrashInv, RestartInv
<1>8. ASSUME UNCHANGED vars PROVE IInv'
  <2>1. TypeOK'
    BY <1>8 DEF vars, IInv, TypeOK
  <2>2. QED
    BY <1>8, <2>1, PlumbingStep DEF vars
<1> QED
  BY <1>1, <1>2, <1>3, <1>4, <1>5, <1>6, <1>7, <1>8 DEF Next, WorkersPollEmpty

\* The inductive invariant: the two safety properties, the epochs and open sections
\* that the claim and the approval protocol rely on.
THEOREM Invariance == Spec => []IInv
<1>1. QED
  BY InitInv, NextInv, PTL DEF Spec

\* Every variable keeps its type.
THEOREM TypeCorrect == Spec => []TypeOK
<1>1. IInv => TypeOK
  BY DEF IInv
<1>2. QED
  BY <1>1, Invariance, PTL

\* No execution acts on an approval the database does not record as approved, in any
\* deployment and whatever cancels, time-outs, crashes and recoveries happen
\* (create_approval, wait_for_approval and resolve_approval in task_runtime.py).
THEOREM ApprovalGateHolds == Spec => []ApprovalGate
<1>1. IInv => ApprovalGate
  BY DEF IInv
<1>2. QED
  BY <1>1, Invariance, PTL

\* Duplicate wake-ups, polling and any number of workers start at most one execution of
\* a task between two re-queuings (activate in task_runtime.py).
THEOREM ClaimIsExclusive == Spec => []OneExecutionPerEpoch
<1>1. IInv => OneExecutionPerEpoch
  BY DEF IInv, EpochInv
<1>2. QED
  BY <1>1, Invariance, PTL

=============================================================================
