-------------------------- MODULE RemoteJobsProofs --------------------------
(***************************************************************************)
(* Facts about the broker of remote jobs that hold for every number of     *)
(* jobs, runners and server threads: its inductive invariant, the claim's  *)
(* respect of live leases, the refinement of JobPromise, and the fence of  *)
(* heartbeats and results that do not straddle a tick; and of the broker   *)
(* with its reference runner, which is never out of step with it.          *)
(***************************************************************************)
EXTENDS RemoteRunner, TLAPS

USE JobsAssumption

\* A request record satisfies its part of RequestInv when the columns are st and tk.
Fits(r, st, tk) ==
    /\ r.age <= Delay
    /\ r.op # "free" => r.runner \in Runner
    /\ r.op \in {"claim", "renew", "store"} =>
          /\ r.job \in Job
          /\ r.token <= tk[r.job]
    /\ r.op = "claim" => r.token < MaxAttempts /\ r.seen \in {"queued", "running"}
    /\ r.op \in {"renew", "store"} => st[r.job] \notin {"absent", "queued"}

\* RequestInv says that every thread's record fits the columns.
LEMMA RequestInvIs ==
    /\ RequestInv <=> \A q \in Thread : Fits(request[q], status, token)
    /\ RequestInv' <=> \A q \in Thread : Fits(request'[q], status', token')
  BY DEF RequestInv, Fits

\* The free record is well typed and always fits.
LEMMA FreeOK == /\ Free \in Request /\ Free.op = "free"
                /\ \A st, tk : Fits(Free, st, tk)
  BY DEF Free, New, Request, Fits, Op, Status

\* Rows only move on: tokens grow, and no job goes back to "absent" or "queued".
RowsMoveOn ==
    \A j \in Job : /\ token[j] <= token'[j]
                   /\ status[j] \notin {"absent", "queued"}
                        => status'[j] \notin {"absent", "queued"}

\* A record that fits goes on to fit while rows move on.
LEMMA FitsOn ==
    ASSUME token \in [Job -> Nat], token' \in [Job -> Nat], RowsMoveOn,
           NEW r \in Request, Fits(r, status, token)
    PROVE  Fits(r, status', token')
<1>1. r.token \in Nat
  BY DEF Request
<1>2. r.job \in Job => /\ token[r.job] \in Nat /\ token'[r.job] \in Nat
                       /\ token[r.job] <= token'[r.job]
                       /\ status[r.job] \notin {"absent", "queued"}
                            => status'[r.job] \notin {"absent", "queued"}
  BY DEF RowsMoveOn
<1> QED
  BY <1>1, <1>2 DEF Fits

\* Replacing one thread's record by one that fits keeps RequestInv.
LEMMA OpenStep ==
    ASSUME TypeOK, RequestInv, RowsMoveOn, token' \in [Job -> Nat],
           NEW q \in Thread, NEW r \in Request, Open(q, r), Fits(r, status', token')
    PROVE  RequestInv' /\ request' \in [Thread -> Request]
<1>1. request' \in [Thread -> Request] /\ request'[q] = r
      /\ \A p \in Thread : p # q => request'[p] = request[p]
  BY DEF Open, TypeOK
<1>2. ASSUME NEW p \in Thread, p # q PROVE Fits(request'[p], status', token')
  <2>1. request'[p] = request[p] /\ request[p] \in Request
        /\ Fits(request[p], status, token)
    BY <1>1, <1>2, RequestInvIs DEF TypeOK
  <2> QED
    BY <2>1, FitsOn DEF TypeOK
<1> QED
  BY <1>1, <1>2, RequestInvIs

\* A handler that ends leaves the free record.
LEMMA AnswerStep ==
    ASSUME TypeOK, RequestInv, RowsMoveOn, token' \in [Job -> Nat],
           NEW q \in Thread, Answer(q)
    PROVE  RequestInv' /\ request' \in [Thread -> Request]
  BY FreeOK, OpenStep DEF Answer

\* Steps that leave the handlers alone keep RequestInv.
LEMMA SameRequests ==
    ASSUME TypeOK, RequestInv, RowsMoveOn, token' \in [Job -> Nat], UNCHANGED request
    PROVE  RequestInv'
<1>1. ASSUME NEW p \in Thread PROVE Fits(request'[p], status', token')
  BY RequestInvIs, FitsOn DEF TypeOK
<1> QED
  BY <1>1, RequestInvIs

\* Submitting a job.
LEMMA CreateInv == ASSUME IInv, NEW j \in Job, NEW w \in BOOLEAN, Create(j, w) PROVE IInv'
<1> USE DEF IInv, Create
<1>1. TypeOK'
  BY DEF TypeOK, Status
<1>2. RowInv'
  BY DEF TypeOK, RowInv
<1>3. RowsMoveOn
  BY DEF TypeOK, RowsMoveOn
<1>4. RequestInv'
  BY <1>1, <1>3, SameRequests DEF TypeOK
<1>5. WaiterInv'
  BY DEF TypeOK, WaiterInv
<1> QED
  BY <1>1, <1>2, <1>4, <1>5

\* The steps of the waiting tool.
LEMMA WaitsInv == ASSUME IInv, NEW j \in Job, Waits(j) PROVE IInv'
<1> USE DEF IInv, Waits
<1>1. TypeOK'
  BY DEF TypeOK, WaitEnds, WaitTimesOut, WaitCancels, Status, Ended, row
<1>2. RowInv'
  BY DEF TypeOK, RowInv, WaitEnds, WaitTimesOut, WaitCancels, row
<1>3. RowsMoveOn
  BY DEF TypeOK, RowsMoveOn, WaitEnds, WaitTimesOut, WaitCancels, row
<1>4. RequestInv'
  BY <1>1, <1>3, SameRequests DEF TypeOK, WaitEnds, WaitTimesOut, WaitCancels
<1>5. WaiterInv'
  BY DEF TypeOK, WaiterInv, WaitEnds, WaitTimesOut, WaitCancels, row
<1> QED
  BY <1>1, <1>2, <1>4, <1>5

\* The registry of runners.
LEMMA RegistryInv == ASSUME IInv, Registry PROVE IInv'
<1> USE DEF IInv, Registry, RunnerHeartbeat, GoesOffline, row
<1>1. TypeOK'
  BY DEF TypeOK
<1>2. RowInv' /\ WaiterInv'
  BY DEF RowInv, WaiterInv
<1>3. RequestInv'
  BY DEF RequestInv
<1> QED
  BY <1>1, <1>2, <1>3

\* The claim's first statement fails poisoned jobs.
LEMMA ClaimStartInv ==
    ASSUME IInv, NEW q \in Thread, NEW n \in Runner, ClaimStart(q, n) PROVE IInv'
<1> DEFINE r == New("select", n, None, 0, FALSE)
<1>1. r \in Request /\ Fits(r, status', token')
  BY DEF New, Request, Fits, Op, Status
<1>2. Open(q, r)
  BY DEF ClaimStart
<1> USE DEF IInv, ClaimStart
<1>0. RowsMoveOn
  BY DEF TypeOK, RowsMoveOn
<1>3. RequestInv' /\ request' \in [Thread -> Request]
  <2> HIDE DEF r
  <2> QED
    BY <1>0, <1>1, <1>2, OpenStep DEF TypeOK
<1>4. TypeOK'
  BY <1>3 DEF TypeOK, Status, Ended
<1>5. RowInv'
  BY DEF TypeOK, RowInv
<1>6. WaiterInv'
  BY DEF TypeOK, WaiterInv
<1> QED
  BY <1>3, <1>4, <1>5, <1>6

\* The claim's SELECT remembers a token below the limit.
LEMMA ClaimSelectInv == ASSUME IInv, NEW q \in Thread, ClaimSelect(q) PROVE IInv'
<1> USE DEF IInv, ClaimSelect
<1>0. token' = token /\ status' = status
  BY DEF row
<1>1. RowsMoveOn
  <2> HIDE DEF ClaimSelect
  <2> QED
    BY <1>0 DEF TypeOK, RowsMoveOn
<1>2. RequestInv' /\ request' \in [Thread -> Request]
  <2>1. CASE Answer(q)
    BY <2>1, <1>1, AnswerStep DEF TypeOK, row
  <2>2. CASE ~Answer(q)
    <3>1. PICK j \in Job : /\ Candidate(j, request[q].runner, request[q].age)
                           /\ Open(q, [request[q] EXCEPT !.op = "claim", !.job = j,
                                          !.token = token[j], !.seen = status[j]])
      BY <2>2
    <3> DEFINE r == [request[q] EXCEPT !.op = "claim", !.job = j,
                                       !.token = token[j], !.seen = status[j]]
    <3>2. request[q] \in Request /\ Fits(request[q], status, token) /\ request[q].op = "select"
      BY RequestInvIs DEF TypeOK
    <3>3. r \in Request
      BY <3>2 DEF Request, TypeOK, Op
    <3>4. /\ r.op = "claim" /\ r.job = j /\ r.token = token[j] /\ r.seen = status[j]
          /\ r.age = request[q].age /\ r.runner = request[q].runner
      BY <3>2 DEF Request
    <3>5. token' = token /\ status' = status /\ token[j] \in Nat
      BY DEF row, TypeOK
    <3>6. token[j] < MaxAttempts
      BY <3>1 DEF RowInv, Candidate
    <3>7. status[j] \in {"queued", "running"}
      BY <3>1 DEF Candidate
    <3>8. Fits(r, status', token')
      <4> HIDE DEF r, IInv, ClaimSelect
      <4> QED
        BY <3>2, <3>4, <3>5, <3>6, <3>7 DEF Fits
    <3> QED
      BY <1>1, <3>1, <3>3, <3>5, <3>8, OpenStep DEF TypeOK
  <2> QED
    BY <2>1, <2>2
<1>3. TypeOK'
  BY <1>2 DEF TypeOK, row
<1>4. RowInv' /\ WaiterInv'
  BY DEF RowInv, WaiterInv, row
<1> QED
  BY <1>2, <1>3, <1>4

\* The compare-and-swap: since the token is unchanged, so are the attempts.
LEMMA ClaimWriteInv == ASSUME IInv, NEW q \in Thread, ClaimWrite(q) PROVE IInv'
<1> USE DEF IInv, ClaimWrite
<1> DEFINE r == request[q]
<1>1. /\ r \in Request /\ r.job \in Job /\ r.age \in Nat /\ r.token < MaxAttempts
      /\ r.seen \in {"queued", "running"}
  BY RequestInvIs DEF TypeOK, Request, Fits
<1>2. RowsMoveOn /\ token' \in [Job -> Nat]
  BY <1>1 DEF TypeOK, RowsMoveOn
<1>3. RequestInv' /\ request' \in [Thread -> Request]
  <2>1. TypeOK /\ RequestInv /\ Answer(q)
    OBVIOUS
  <2> QED
    BY <1>2, <2>1, AnswerStep DEF RowsMoveOn
<1>4. TypeOK'
  <2>1. r.job \in Job /\ Lease - r.age \in Int
    BY <1>1
  <2>2. CASE StillFree(r)
    <3>1. /\ status' = [status EXCEPT ![r.job] = "running"]
          /\ left' = [left EXCEPT ![r.job] = Lease - r.age]
          /\ attempts' = [attempts EXCEPT ![r.job] = @ + 1]
          /\ cancel' = [cancel EXCEPT ![r.job] = FALSE]
          /\ UNCHANGED <<result, waiter, online>>
      BY <2>2
    <3>2. /\ status' \in [Job -> Status] /\ left' \in [Job -> Int \cup {None}]
          /\ attempts' \in [Job -> Nat] /\ cancel' \in [Job -> BOOLEAN]
      <4>1. TypeOK
        OBVIOUS
      <4> HIDE DEF r, IInv, ClaimWrite
      <4>2. status' \in [Job -> Status]
        BY <3>1, <4>1 DEF TypeOK, Status
      <4>3. left' \in [Job -> Int \cup {None}]
        BY <2>1, <3>1, <4>1 DEF TypeOK
      <4>4. attempts' \in [Job -> Nat]
        <5>0. attempts \in [Job -> Nat]
          BY <4>1 DEF TypeOK
        <5>1. r.job \in Job
          BY <2>1
        <5>2. attempts[r.job] \in Nat
          BY <5>0, <5>1, Zenon
        <5>3. attempts[r.job] + 1 \in Nat
          BY <5>2
        <5> QED
          BY <3>1, <5>0, <5>3
      <4>5. cancel' \in [Job -> BOOLEAN]
        BY <3>1, <4>1 DEF TypeOK
      <4> QED
        BY <4>2, <4>3, <4>4, <4>5
    <3> QED
      BY <1>2, <1>3, <3>1, <3>2 DEF TypeOK
  <2>3. CASE ~StillFree(r)
    BY <1>3, <2>3 DEF TypeOK
  <2> QED
    BY <2>2, <2>3
<1>5. RowInv'
  <2>1. CASE StillFree(r)
    <3>1. token[r.job] < MaxAttempts
      BY <2>1, <1>1 DEF StillFree
    <3>2. Lease - r.age # None
      BY <1>1
    <3> QED
      BY <2>1, <1>1, <3>1, <3>2 DEF TypeOK, RowInv
  <2>2. CASE ~StillFree(r)
    BY <2>2 DEF RowInv
  <2> QED
    BY <2>1, <2>2
<1>6. WaiterInv'
  BY <1>1 DEF TypeOK, WaiterInv
<1> QED
  BY <1>3, <1>4, <1>5, <1>6

\* A heartbeat or a completion that passes its check.
LEMMA ReadsInv ==
    ASSUME IInv, NEW q \in Thread, NEW j \in Job, NEW k \in Issued(j), NEW ok \in BOOLEAN,
           HeartbeatRead(q, j, k) \/ CompleteRead(q, j, k, ok)
    PROVE  IInv'
<1> USE DEF IInv, HeartbeatRead, CompleteRead
<1>0. token' = token /\ status' = status
  BY DEF row
<1>1. RowsMoveOn /\ token' = token /\ status' = status
  <2> HIDE DEF HeartbeatRead, CompleteRead
  <2> QED
    BY <1>0 DEF TypeOK, RowsMoveOn
<1>2. k \in Nat /\ k <= token[j]
  BY DEF Issued, TypeOK
<1> DEFINE h == New("renew", Target[j], j, k, FALSE)
           c == New("store", Target[j], j, k, ok)
<1>3. h \in Request /\ c \in Request
  BY <1>2 DEF Free, New, Request, Op, Status
<1>4. Fits(h, status', token') /\ Fits(c, status', token')
  BY <1>1, <1>2 DEF Fits, New, Holds
<1>5. Open(q, h) \/ Open(q, c)
  OBVIOUS
<1>6. RequestInv' /\ request' \in [Thread -> Request]
  <2> HIDE DEF h, c
  <2> QED
    BY <1>1, <1>3, <1>4, <1>5, OpenStep DEF TypeOK
<1>7. TypeOK'
  BY <1>6 DEF TypeOK, row
<1>8. RowInv' /\ WaiterInv'
  BY DEF RowInv, WaiterInv, row
<1> QED
  BY <1>6, <1>7, <1>8

\* A heartbeat's write.
LEMMA HeartbeatWriteInv == ASSUME IInv, NEW q \in Thread, HeartbeatWrite(q) PROVE IInv'
<1> USE DEF IInv, HeartbeatWrite
<1>1. request[q].job \in Job /\ request[q].age \in Nat /\ request[q].runner \in Runner
  BY RequestInvIs DEF TypeOK, Request, Fits
<1>2. RowsMoveOn
  BY DEF TypeOK, RowsMoveOn
<1>3. RequestInv' /\ request' \in [Thread -> Request]
  BY <1>2, AnswerStep DEF TypeOK
<1>4. TypeOK'
  BY <1>1, <1>3 DEF TypeOK
<1>5. RowInv'
  BY <1>1 DEF TypeOK, RowInv
<1>6. WaiterInv'
  BY DEF WaiterInv
<1> QED
  BY <1>3, <1>4, <1>5, <1>6

\* A completion's write.
LEMMA CompleteWriteInv == ASSUME IInv, NEW q \in Thread, CompleteWrite(q) PROVE IInv'
<1> USE DEF IInv, CompleteWrite
<1>1. request[q].job \in Job /\ request[q].token \in Nat /\ request[q].runner \in Runner
  BY RequestInvIs DEF TypeOK, Request, Fits
<1>2. RowsMoveOn
  BY <1>1 DEF TypeOK, RowsMoveOn
<1>3. RequestInv' /\ request' \in [Thread -> Request]
  BY <1>2, AnswerStep DEF TypeOK
<1>4. TypeOK'
  BY <1>1, <1>3 DEF TypeOK, Status, Ended
<1>5. RowInv'
  BY <1>1 DEF TypeOK, RowInv
<1>6. WaiterInv'
  BY <1>1 DEF TypeOK, WaiterInv
<1> QED
  BY <1>3, <1>4, <1>5, <1>6

\* A tick.
LEMMA TickInv == ASSUME IInv, Tick PROVE IInv'
<1> USE DEF IInv, Tick
<1>1. ASSUME NEW q \in Thread
      PROVE  request'[q] \in Request /\ Fits(request'[q], status', token')
  <2>1. request[q] \in Request /\ Fits(request[q], status, token) /\ token' = token /\ status' = status
    BY RequestInvIs DEF TypeOK
  <2>2. CASE request[q] = Free
    BY <2>1, <2>2, FreeOK DEF Fits
  <2>3. CASE request[q] # Free
    <3>1. request[q].age \in Nat /\ request[q].age < Delay
      BY <2>1, <2>3 DEF Request
    <3>2. request'[q] = [request[q] EXCEPT !.age = request[q].age + 1]
      BY <2>3
    <3> QED
      BY <2>1, <3>1, <3>2 DEF Request, Fits
  <2> QED
    BY <2>2, <2>3
<1>2. TypeOK'
  BY <1>1 DEF TypeOK
<1>3. RequestInv'
  BY <1>1, RequestInvIs
<1>4. RowInv'
  BY DEF TypeOK, RowInv
<1>5. WaiterInv'
  BY DEF WaiterInv
<1> QED
  BY <1>2, <1>3, <1>4, <1>5

\* A handler fails, or the server ends.
LEMMA FailuresInv ==
    ASSUME IInv, ServerCrash \/ \E q \in Thread : HandlerFails(q) PROVE IInv'
<1> USE DEF IInv
<1>1. RowsMoveOn /\ token' = token /\ status' = status
  BY DEF TypeOK, RowsMoveOn, row, ServerCrash, HandlerFails
<1>2. CASE ServerCrash
  <2>1. TypeOK'
    BY <1>2, FreeOK DEF ServerCrash, TypeOK, row
  <2>2. RequestInv'
    BY <1>1, <1>2, FreeOK DEF ServerCrash, RequestInv, Fits
  <2>3. RowInv' /\ WaiterInv'
    BY <1>2 DEF ServerCrash, RowInv, WaiterInv, row
  <2> QED
    BY <2>1, <2>2, <2>3
<1>3. ASSUME NEW q \in Thread, HandlerFails(q) PROVE IInv'
  <2>1. RequestInv' /\ request' \in [Thread -> Request]
    BY <1>1, <1>3, AnswerStep DEF HandlerFails, TypeOK
  <2>2. TypeOK'
    BY <1>3, <2>1 DEF HandlerFails, TypeOK, row
  <2>3. RowInv' /\ WaiterInv'
    BY <1>3 DEF HandlerFails, RowInv, WaiterInv, row
  <2> QED
    BY <2>1, <2>2, <2>3
<1> QED
  BY <1>2, <1>3

\* The invariant holds initially.
LEMMA InitInv == Init => IInv
<1> SUFFICES ASSUME Init PROVE IInv
  OBVIOUS
<1>1. TypeOK
  BY FreeOK DEF Init, TypeOK, Status
<1>2. RowInv /\ WaiterInv
  BY DEF Init, RowInv, WaiterInv
<1>3. RequestInv
  BY FreeOK DEF Init, RequestInv, Fits
<1> QED
  BY <1>1, <1>2, <1>3 DEF IInv

\* Every step keeps the invariant.
LEMMA NextInv == IInv /\ [Next]_vars => IInv'
<1> SUFFICES ASSUME IInv, [Next]_vars PROVE IInv'
  OBVIOUS
<1>1. CASE UNCHANGED vars
  BY <1>1 DEF vars, IInv, TypeOK, RowInv, RequestInv, WaiterInv
<1>2. CASE Submits
  BY <1>2, CreateInv DEF Submits
<1>3. CASE \E j \in Job : Waits(j)
  BY <1>3, WaitsInv
<1>4. CASE Registry
  BY <1>4, RegistryInv
<1>5. CASE Tick
  BY <1>5, TickInv
<1>6. CASE ServerCrash \/ \E q \in Thread : HandlerFails(q)
  BY <1>6, FailuresInv
<1>7. ASSUME NEW q \in Thread, Starts(q) PROVE IInv'
  BY <1>7, ClaimStartInv, ReadsInv DEF Starts
<1>8. ASSUME NEW q \in Thread, Goes(q) PROVE IInv'
  BY <1>8, ClaimSelectInv, ClaimWriteInv, HeartbeatWriteInv, CompleteWriteInv DEF Goes
<1> QED
  BY <1>1, <1>2, <1>3, <1>4, <1>5, <1>6, <1>7, <1>8 DEF Next

\* The invariant of the broker: types, the row's consistency (token and attempts agree,
\* never above the limit; a running job can always be reclaimed) and what open handlers
\* may rely on.
THEOREM Invariance == Spec => []IInv
<1>1. Init => IInv
  BY InitInv
<1>2. IInv /\ [Next]_vars => IInv'
  BY NextInv
<1> QED
  BY <1>1, <1>2, PTL DEF Spec

\* A claim leaves a live lease alone, whatever heartbeats arrive between its SELECT and
\* its UPDATE: the compare-and-swap tests the expiry again, and an age is never negative.
THEOREM LiveLeaseIsKept == Spec => LeaseNotStolen
<1>1. ASSUME IInv, [Next]_vars,
             NEW j \in Job, token'[j] # token[j], status[j] = "running"
      PROVE  left[j] < 0
  <2>1. PICK q \in Thread : ClaimWrite(q)
    BY <1>1 DEF Next, vars, Submits, Create, Waits, WaitEnds, WaitTimesOut, WaitCancels,
               Registry, RunnerHeartbeat, GoesOffline, Tick, ServerCrash, HandlerFails,
               Starts, ClaimStart, HeartbeatRead, CompleteRead, Goes, ClaimSelect,
               HeartbeatWrite, CompleteWrite, row
  <2>2. /\ request[q].age \in Nat /\ request[q].job \in Job
        /\ request[q].seen \in {"queued", "running"}
    BY <1>1, <2>1, RequestInvIs DEF ClaimWrite, IInv, TypeOK, Request, Fits
  <2>3. StillFree(request[q]) /\ request[q].job = j
    BY <1>1, <2>1, <2>2 DEF ClaimWrite, IInv, TypeOK
  <2>4. Expired(j, request[q].age)
    BY <1>1, <2>2, <2>3 DEF StillFree
  <2> QED
    BY <1>1, <2>2, <2>4 DEF Expired, IInv, TypeOK
<1>2. IInv /\ [Next]_vars =>
        [\A j \in Job : token'[j] # token[j] /\ status[j] = "running" => left[j] < 0]_vars
  BY <1>1
<1> QED
  BY <1>2, Invariance, PTL DEF Spec, LeaseNotStolen

-----------------------------------------------------------------------------

\* The mapped phase of a row.
PhaseOf(st) == IF st \in Ended THEN "ended" ELSE st

\* Steps that change neither the phases nor the attempts are stutters of the promise.
LEMMA Stutters ==
    ASSUME UNCHANGED attempts,
           \A j \in Job : PhaseOf(status'[j]) = PhaseOf(status[j])
    PROVE  UNCHANGED Promised!promise
  BY DEF Promised!promise, PhaseOf

\* A step that only moves unended jobs of S to an end is the promise's End.
LEMMA Ends ==
    ASSUME UNCHANGED attempts, NEW S \in SUBSET Job,
           \A j \in S : status[j] \in {"queued", "running"} /\ status'[j] \in Ended,
           \A j \in Job \ S : PhaseOf(status'[j]) = PhaseOf(status[j])
    PROVE  Promised!PromiseNext
<1>1. Promised!End(S)
  BY DEF Promised!End, PhaseOf, Ended
<1> QED
  BY <1>1 DEF Promised!PromiseNext

\* A step that puts one job at an end ends it for the promise, or finds it ended.
LEMMA EndsOne ==
    ASSUME IInv, UNCHANGED attempts, NEW i \in Job, NEW st \in Ended,
           status[i] \notin {"absent"}, status' = [status EXCEPT ![i] = st]
    PROVE  [Promised!PromiseNext]_(Promised!promise)
<1>1. status \in [Job -> Status] /\ status'[i] = st
      /\ \A j \in Job : j # i => status'[j] = status[j]
  BY DEF IInv, TypeOK
<1>2. CASE status[i] \in Ended
  BY <1>1, <1>2, Stutters DEF PhaseOf
<1>3. CASE status[i] \in {"queued", "running"}
  <2>1. /\ \A j \in {i} : status[j] \in {"queued", "running"} /\ status'[j] \in Ended
        /\ \A j \in Job \ {i} : PhaseOf(status'[j]) = PhaseOf(status[j])
        /\ {i} \in SUBSET Job
    BY <1>1, <1>3 DEF PhaseOf
  <2> QED
    BY <2>1, Ends
<1> QED
  BY <1>1, <1>2, <1>3 DEF Status

\* Every step of the broker is a step of the promise, or a stutter.
LEMMA PromiseStep ==
    ASSUME IInv, [Next]_vars PROVE [Promised!PromiseNext]_(Promised!promise)
<1>1. CASE UNCHANGED <<status, attempts>>
  BY <1>1, Stutters
<1>2. ASSUME NEW j \in Job, NEW w \in BOOLEAN, Create(j, w)
      PROVE  Promised!PromiseNext
  <2>1. Promised!Submit(j)
    BY <1>2 DEF Create, Promised!Submit, Ended, IInv, TypeOK
  <2> QED
    BY <2>1 DEF Promised!PromiseNext
<1>3. ASSUME NEW j \in Job, WaitCancels(j)
      PROVE  [Promised!PromiseNext]_(Promised!promise)
  <2>1. status[j] # "absent" /\ "cancelled" \in Ended
    BY <1>3 DEF WaitCancels, IInv, WaiterInv, Ended
  <2> QED
    BY <1>3, <2>1, EndsOne DEF WaitCancels
<1>4. ASSUME NEW q \in Thread, NEW n \in Runner, ClaimStart(q, n)
      PROVE  Promised!PromiseNext
  <2> DEFINE S == {j \in Job : /\ Target[j] = n /\ status[j] = "running"
                               /\ Expired(j, 0) /\ Poison(j)}
  <2>1. /\ \A j \in S : status[j] \in {"queued", "running"} /\ status'[j] \in Ended
        /\ \A j \in Job \ S : PhaseOf(status'[j]) = PhaseOf(status[j])
    BY <1>4 DEF ClaimStart, Ended, PhaseOf
  <2>2. UNCHANGED attempts
    BY <1>4 DEF ClaimStart
  <2> HIDE DEF S
  <2>3. S \in SUBSET Job
    BY DEF S
  <2> QED
    BY <2>1, <2>2, <2>3, Ends
<1>5. ASSUME NEW q \in Thread, ClaimWrite(q), StillFree(request[q])
      PROVE  Promised!PromiseNext
  <2>0. PICK i \in Job : i = request[q].job
    BY <1>5, RequestInvIs DEF ClaimWrite, IInv, Fits
  <2>1. /\ i \in Job /\ request[q].token < MaxAttempts
        /\ request[q].seen \in {"queued", "running"}
    BY <1>5, RequestInvIs DEF ClaimWrite, IInv, Fits
  <2>2. status[i] \in {"queued", "running"} /\ attempts[i] < MaxAttempts
    BY <1>5, <2>0, <2>1 DEF StillFree, IInv, RowInv
  <2>3. /\ status' = [status EXCEPT ![i] = "running"]
        /\ attempts' = [attempts EXCEPT ![i] = @ + 1]
    BY <1>5, <2>0 DEF ClaimWrite
  <2>4. status \in [Job -> Status] /\ attempts \in [Job -> Nat]
    BY DEF IInv, TypeOK
  <2>5. [j \in Job |-> IF status'[j] \in Ended THEN "ended" ELSE status'[j]]
        = [[j \in Job |-> IF status[j] \in Ended THEN "ended" ELSE status[j]]
             EXCEPT ![i] = "running"]
    BY <2>1, <2>3, <2>4 DEF Ended
  <2>6. [j \in Job |-> IF status[j] \in Ended THEN "ended" ELSE status[j]][i]
          \in {"queued", "running"}
    BY <2>1, <2>2 DEF Ended
  <2>7. Promised!Offer(i)
    BY <2>2, <2>3, <2>5, <2>6 DEF Promised!Offer
  <2> QED
    BY <2>1, <2>7 DEF Promised!PromiseNext
<1>6. ASSUME NEW q \in Thread, CompleteWrite(q)
      PROVE  [Promised!PromiseNext]_(Promised!promise)
  <2>1. request[q].job \in Job /\ status[request[q].job] # "absent"
    BY <1>6, RequestInvIs DEF CompleteWrite, IInv, Fits
  <2>2. (IF request[q].ok THEN "completed" ELSE "failed") \in Ended
    BY DEF Ended
  <2> QED
    BY <1>6, <2>1, <2>2, EndsOne DEF CompleteWrite
<1>7. \/ UNCHANGED <<status, attempts>>
      \/ \E j \in Job, w \in BOOLEAN : Create(j, w)
      \/ \E j \in Job : WaitCancels(j)
      \/ \E q \in Thread : \/ \E n \in Runner : ClaimStart(q, n)
                           \/ ClaimWrite(q) /\ StillFree(request[q])
                           \/ CompleteWrite(q)
  BY DEF Next, vars, Submits, Waits, WaitEnds, WaitTimesOut, Registry, RunnerHeartbeat,
         GoesOffline, Tick, ServerCrash, HandlerFails, Starts, HeartbeatRead, CompleteRead,
         Goes, ClaimSelect, ClaimWrite, HeartbeatWrite, row
<1> QED
  BY <1>1, <1>2, <1>3, <1>4, <1>5, <1>6, <1>7

\* The broker implements its promise: at most MaxAttempts offers of a job, and none once
\* it ended, though completions and cancellations write without looking again.
THEOREM BrokerKeepsPromise == Spec => KeepsPromise
<1>1. Init => Promised!PromiseInit
  BY DEF Init, Promised!PromiseInit, Ended
<1>2. IInv /\ [Next]_vars => [Promised!PromiseNext]_(Promised!promise)
  BY PromiseStep
<1> QED
  BY <1>1, <1>2, Invariance, PTL DEF Spec, KeepsPromise, Promised!PromiseSpec

-----------------------------------------------------------------------------

\* What a record younger than a tick still knows when the columns are st, tk and lf: the
\* token it checked is the job's, and the job is not up for a claim.
Current(r, st, tk, lf) ==
    r.op \in {"renew", "store"} /\ r.age = 0 =>
       /\ tk[r.job] = r.token
       /\ st[r.job] = "running" => lf[r.job] # None /\ lf[r.job] >= 0

\* Within the tick of its check, a heartbeat or completion still has the job's lease.
FreshInv == \A q \in Thread : Current(request[q], status, token, left)

\* A step that opens no handler keeps every record current if it takes no lease and
\* lets none lapse.
LEMMA CurrentOn ==
    ASSUME IInv, FreshInv, UNCHANGED token,
           \A j \in Job : status'[j] = "running" =>
                 status[j] = "running" /\ (left'[j] = left[j] \/ left'[j] \in Nat),
           \A q \in Thread : request'[q] \in {request[q], Free}
    PROVE  \A q \in Thread : Current(request'[q], status', token', left')
<1> SUFFICES ASSUME NEW q \in Thread, request'[q].op \in {"renew", "store"},
                    request'[q].age = 0
             PROVE  /\ token'[request'[q].job] = request'[q].token
                    /\ status'[request'[q].job] = "running"
                         => left'[request'[q].job] # None /\ left'[request'[q].job] >= 0
  BY DEF Current
<1>1. request'[q] = request[q]
  BY FreeOK
<1>2. request[q].job \in Job
  BY <1>1, RequestInvIs DEF IInv, Fits
<1>3. token[request[q].job] = request[q].token
  BY <1>1 DEF FreshInv, Current
<1>4. status[request[q].job] = "running" =>
        left[request[q].job] # None /\ left[request[q].job] >= 0
  BY <1>1 DEF FreshInv, Current
<1>5. token'[request'[q].job] = request'[q].token
  BY <1>1, <1>3
<1>6. ASSUME status'[request[q].job] = "running"
      PROVE  left'[request[q].job] # None /\ left'[request[q].job] >= 0
  <2>1. status[request[q].job] = "running"
    BY <1>2, <1>6
  <2>2. CASE left'[request[q].job] = left[request[q].job]
    BY <1>4, <2>1, <2>2
  <2>3. CASE left'[request[q].job] \in Nat
    BY <2>3
  <2> QED
    BY <1>2, <1>6, <2>2, <2>3
<1> QED
  BY <1>1, <1>5, <1>6

\* A job a claim may take: queued, or running under a lease that lapsed.
UpForClaim(j) ==
    status[j] = "queued" \/ (status[j] = "running" /\ left[j] # None /\ left[j] < 0)

\* What the compare-and-swap accepts is up for a claim at the present, though the claim
\* measures by an older clock: an age is never negative.
LEMMA FreeForClaim ==
    ASSUME TypeOK, NEW q \in Thread, request[q].age \in Nat, request[q].job \in Job,
           request[q].seen \in {"queued", "running"}, StillFree(request[q])
    PROVE  UpForClaim(request[q].job)
<1>1. status[request[q].job] = request[q].seen
  BY DEF StillFree
<1>2. request[q].seen = "running" =>
        left[request[q].job] # None /\ left[request[q].job] + request[q].age < 0
  BY DEF StillFree, Expired
<1>3. left[request[q].job] # None => left[request[q].job] \in Int
  BY DEF TypeOK
<1> QED
  BY <1>1, <1>2, <1>3 DEF UpForClaim

\* A step keeps the records of this tick current: a claim takes no job that one of them
\* counts on, and a heartbeat that is at most Delay old still sets an expiry to come.
LEMMA FreshStep ==
    ASSUME Delay <= Lease, IInv, FreshInv, [Next]_vars PROVE FreshInv'
<1>0. \A q \in Thread : request[q].age \in 0..Delay
  BY RequestInvIs DEF IInv, TypeOK, Request, Fits
<1> DEFINE Goal == \A q \in Thread : Current(request'[q], status', token', left')
<1>a. SUFFICES Goal
  BY DEF FreshInv
<1>1. CASE UNCHANGED vars
  BY <1>1, CurrentOn DEF vars
<1>2. ASSUME NEW j \in Job, NEW w \in BOOLEAN, Create(j, w) PROVE Goal
  BY <1>2, CurrentOn DEF Create, IInv, TypeOK
<1>3. ASSUME NEW j \in Job, Waits(j) PROVE Goal
  BY <1>3, CurrentOn DEF Waits, WaitEnds, WaitTimesOut, WaitCancels, IInv, TypeOK, row
<1>4. CASE Registry
  BY <1>4, CurrentOn DEF Registry, RunnerHeartbeat, GoesOffline, row
<1>5. CASE Tick
  <2>1. ASSUME NEW q \in Thread PROVE request'[q] = Free \/ request'[q].age # 0
    <3>1. request[q] \in Request /\ request[q].age \in 0..Delay
      BY <1>0 DEF IInv, TypeOK
    <3>2. request'[q] = Free \/ request'[q] = [request[q] EXCEPT !.age = @ + 1]
      BY <1>5 DEF Tick
    <3> QED
      BY <3>1, <3>2 DEF Request
  <2> QED
    BY <2>1, FreeOK DEF Current
<1>6. CASE ServerCrash
  BY <1>6, FreeOK DEF ServerCrash, Current
<1>7. ASSUME NEW q \in Thread, HandlerFails(q) PROVE Goal
  <2>1. \A p \in Thread : request'[p] \in {request[p], Free}
    BY <1>7 DEF HandlerFails, Answer, Open, IInv, TypeOK
  <2> QED
    BY <1>7, <2>1, CurrentOn DEF HandlerFails, row
<1>8. ASSUME NEW q \in Thread, NEW n \in Runner, ClaimStart(q, n) PROVE Goal
  <2>1. /\ \A j \in Job : status'[j] = "running" => status[j] = "running" /\ left'[j] = left[j]
        /\ token' = token
    BY <1>8 DEF ClaimStart
  <2>2. request' = [request EXCEPT ![q] = New("select", n, None, 0, FALSE)]
    BY <1>8 DEF ClaimStart, Open
  <2>3. New("select", n, None, 0, FALSE).op = "select"
    BY DEF New
  <2> SUFFICES ASSUME NEW p \in Thread, p # q
               PROVE  Current(request[p], status', token', left')
    BY <2>2, <2>3 DEF Current, IInv, TypeOK
  <2>4. request[p].op \in {"renew", "store"} => request[p].job \in Job
    BY RequestInvIs DEF IInv, Fits
  <2> QED
    BY <2>1, <2>4 DEF Current, FreshInv
<1>9. ASSUME NEW q \in Thread, NEW j \in Job, NEW k \in Issued(j), NEW ok \in BOOLEAN,
             HeartbeatRead(q, j, k) \/ CompleteRead(q, j, k, ok)
      PROVE  Goal
  <2>1. UNCHANGED row /\ Holds(j, k)
    BY <1>9 DEF HeartbeatRead, CompleteRead
  <2>2. PICK r : /\ request' = [request EXCEPT ![q] = r]
                 /\ r.job = j /\ r.token = k
    <3>1. CASE HeartbeatRead(q, j, k)
      <4>1. request' = [request EXCEPT ![q] = New("renew", Target[j], j, k, FALSE)]
        BY <3>1 DEF HeartbeatRead, Open
      <4>2. /\ New("renew", Target[j], j, k, FALSE).job = j
            /\ New("renew", Target[j], j, k, FALSE).token = k
        BY DEF New
      <4> QED
        BY <4>1, <4>2
    <3>2. CASE CompleteRead(q, j, k, ok)
      <4>1. request' = [request EXCEPT ![q] = New("store", Target[j], j, k, ok)]
        BY <3>2 DEF CompleteRead, Open
      <4>2. New("store", Target[j], j, k, ok).job = j /\ New("store", Target[j], j, k, ok).token = k
        BY DEF New
      <4> QED
        BY <4>1, <4>2
    <3> QED
      BY <1>9, <3>1, <3>2
  <2>3. Current(r, status', token', left')
    BY <2>1, <2>2 DEF Current, Holds, row
  <2>4. ASSUME NEW p \in Thread, p # q PROVE Current(request[p], status', token', left')
    BY <2>1 DEF Current, FreshInv, row
  <2> QED
    BY <2>2, <2>3, <2>4 DEF IInv, TypeOK
<1>10. ASSUME NEW q \in Thread, ClaimSelect(q) PROVE Goal
  <2>1. UNCHANGED row
    BY <1>10 DEF ClaimSelect
  <2>2. PICK r : /\ request' = [request EXCEPT ![q] = r]
                 /\ r.op \notin {"renew", "store"}
    <3>1. CASE Answer(q)
      BY <3>1, FreeOK DEF Answer, Open
    <3>2. CASE ~Answer(q)
      <4>1. PICK j \in Job :
              Open(q, [request[q] EXCEPT !.op = "claim", !.job = j, !.token = token[j],
                                         !.seen = status[j]])
        BY <1>10, <3>2 DEF ClaimSelect
      <4>2. request[q] \in Request
        BY DEF IInv, TypeOK
      <4>3. [request[q] EXCEPT !.op = "claim", !.job = j, !.token = token[j],
                               !.seen = status[j]].op = "claim"
        BY <4>2 DEF Request
      <4> QED
        BY <4>1, <4>3 DEF Open
    <3> QED
      BY <3>1, <3>2
  <2>3. ASSUME NEW p \in Thread, p # q PROVE Current(request[p], status', token', left')
    BY <2>1 DEF Current, FreshInv, row
  <2> QED
    BY <2>2, <2>3 DEF Current, IInv, TypeOK
<1>11. ASSUME NEW q \in Thread, ClaimWrite(q) PROVE Goal
  <2>1. /\ request[q].job \in Job /\ request[q].seen \in {"queued", "running"}
    BY <1>11, RequestInvIs DEF ClaimWrite, IInv, Fits
  <2>2. \A p \in Thread : request'[p] \in {request[p], Free}
    BY <1>11 DEF ClaimWrite, Answer, Open, IInv, TypeOK
  <2>3. CASE ~StillFree(request[q])
    BY <1>11, <2>2, <2>3, CurrentOn DEF ClaimWrite
  <2>4. CASE StillFree(request[q])
    <3> DEFINE i == request[q].job
    <3>1. UpForClaim(i)
      <4>1. TypeOK /\ request[q].age \in Nat
        BY <1>0 DEF IInv
      <4> QED
        BY <2>1, <2>4, <4>1, FreeForClaim
    <3>2. /\ status' = [status EXCEPT ![i] = "running"]
          /\ token' = [token EXCEPT ![i] = @ + 1]
          /\ \A j \in Job : j # i => left'[j] = left[j]
      BY <1>11, <2>4 DEF ClaimWrite, IInv, TypeOK
    <3>3. /\ status \in [Job -> Status] /\ token \in [Job -> Nat]
          /\ left \in [Job -> Int \cup {None}] /\ i \in Job
      BY <2>1 DEF IInv, TypeOK
    <3>4. ASSUME NEW p \in Thread, request[p].op \in {"renew", "store"}, request[p].age = 0
          PROVE  request[p].job \in Job /\ request[p].job # i
      <4>1. /\ request[p].job \in Job
            /\ status[request[p].job] \notin {"absent", "queued"}
        BY <3>4, RequestInvIs DEF IInv, Fits
      <4>2. status[request[p].job] = "running" => left[request[p].job] >= 0
        BY <3>4 DEF FreshInv, Current
      <4> HIDE DEF i
      <4>3. left[request[p].job] # None => left[request[p].job] \in Int
        BY <3>3, <4>1
      <4>4. ~UpForClaim(request[p].job)
        BY <4>1, <4>2, <4>3 DEF UpForClaim
      <4> QED
        BY <3>1, <4>1, <4>4
    <3>5. \A p \in Thread : Current(request[p], status', token', left')
      <4> HIDE DEF i
      <4> QED
        BY <3>2, <3>3, <3>4 DEF Current, FreshInv
    <3> QED
      BY <2>2, <3>5, FreeOK DEF Current
  <2> QED
    BY <2>3, <2>4
<1>12. ASSUME NEW q \in Thread, HeartbeatWrite(q) PROVE Goal
  <2>1. request[q].job \in Job /\ Lease - request[q].age \in Nat
    BY <1>0, <1>12, RequestInvIs DEF HeartbeatWrite, IInv, Fits
  <2>2. /\ left' = [left EXCEPT ![request[q].job] = Lease - request[q].age]
        /\ UNCHANGED <<status, token>>
    BY <1>12 DEF HeartbeatWrite
  <2>3. \A p \in Thread : request'[p] \in {request[p], Free}
    BY <1>12 DEF HeartbeatWrite, Answer, Open, IInv, TypeOK
  <2>4. \A j \in Job : left'[j] = left[j] \/ left'[j] \in Nat
    BY <2>1, <2>2 DEF IInv, TypeOK
  <2> QED
    BY <2>2, <2>3, <2>4, CurrentOn
<1>13. ASSUME NEW q \in Thread, CompleteWrite(q) PROVE Goal
  <2> DEFINE i == request[q].job
             st == IF request[q].ok THEN "completed" ELSE "failed"
  <2>1. /\ status' = [status EXCEPT ![i] = st]
        /\ left' = [left EXCEPT ![i] = None]
        /\ UNCHANGED token
    BY <1>13 DEF CompleteWrite
  <2>2. \A p \in Thread : request'[p] \in {request[p], Free}
    BY <1>13 DEF CompleteWrite, Answer, Open, IInv, TypeOK
  <2>3. st # "running" /\ status \in [Job -> Status] /\ left \in [Job -> Int \cup {None}]
    BY DEF IInv, TypeOK
  <2> HIDE DEF i, st
  <2>4. \A j \in Job : status'[j] = "running" => status[j] = "running" /\ left'[j] = left[j]
    BY <2>1, <2>3
  <2> QED
    BY <2>1, <2>2, <2>4, CurrentOn
<1> HIDE DEF Goal
<1>14. ASSUME NEW q \in Thread, Starts(q) PROVE Goal
  BY <1>14, <1>8, <1>9 DEF Starts
<1>15. ASSUME NEW q \in Thread, Goes(q) PROVE Goal
  BY <1>15, <1>10, <1>11, <1>12, <1>13 DEF Goes
<1>16. CASE Submits
  BY <1>16, <1>2 DEF Submits
<1> QED
  BY <1>1, <1>3, <1>4, <1>5, <1>6, <1>7, <1>14, <1>15, <1>16 DEF Next

\* FreshInv holds throughout as long as no handler outlives a lease.
LEMMA Fresh == ASSUME Delay <= Lease PROVE Spec => []FreshInv
<1>1. Init => FreshInv
  BY FreeOK DEF Init, FreshInv, Current
<1>2. IInv /\ FreshInv /\ [Next]_vars => FreshInv'
  BY FreshStep
<1> QED
  BY <1>1, <1>2, Invariance, PTL DEF Spec

\* As long as no handler outlives a lease, a heartbeat or a result written within the tick
\* of its check belongs to the lease that the job has when it is written, whatever the
\* other threads do.
THEOREM FenceHoldsWithinTick == ASSUME Delay <= Lease PROVE Spec => FencedWithinTick
<1>1. ASSUME FreshInv, NEW q \in Thread, HeartbeatWrite(q) \/ CompleteWrite(q),
             request[q].age = 0
      PROVE  token[request[q].job] = request[q].token
  BY <1>1 DEF FreshInv, Current, HeartbeatWrite, CompleteWrite
<1>2. FreshInv /\ [Next]_vars =>
        [\A q \in Thread :
            (HeartbeatWrite(q) \/ CompleteWrite(q)) /\ request[q].age = 0
                => token[request[q].job] = request[q].token]_vars
  BY <1>1
<1> QED
  BY <1>2, Fresh, PTL DEF Spec, FencedWithinTick

-----------------------------------------------------------------------------

\* What is stored came from the current lease, and only ended rows store anything.
ResultInv ==
    /\ ResultFromCurrentLease
    /\ \A j \in Job : result[j] # None => status[j] \in Ended

\* Without Delay every handler is younger than a tick, so what a completion stores comes
\* from the current lease; a claim replaces the lease of no row that stores anything.
LEMMA ResultStep ==
    ASSUME Delay = 0, IInv, FreshInv, ResultInv, [Next]_vars PROVE ResultInv'
<1>0. \A q \in Thread : request[q].age = 0
  BY RequestInvIs DEF IInv, TypeOK, Request, Fits
<1> DEFINE Goal ==
        /\ \A j \in Job : result'[j] \in {None, 0, token'[j]}
        /\ \A j \in Job : result'[j] # None => status'[j] \in Ended
<1>a. SUFFICES Goal
  BY DEF ResultInv, ResultFromCurrentLease
<1>b. /\ \A j \in Job : result[j] \in {None, 0, token[j]}
      /\ \A j \in Job : result[j] # None => status[j] \in Ended
  BY DEF ResultInv, ResultFromCurrentLease
<1>1. ASSUME UNCHANGED <<result, token, status>> PROVE Goal
  BY <1>1, <1>b
<1>2. ASSUME NEW j \in Job, NEW w \in BOOLEAN, Create(j, w) PROVE Goal
  BY <1>2, <1>b DEF Create, IInv, TypeOK, Ended
<1>3. ASSUME NEW j \in Job, Waits(j) PROVE Goal
  BY <1>3, <1>b DEF Waits, WaitEnds, WaitTimesOut, WaitCancels, IInv, TypeOK, Ended, row
<1>4. ASSUME NEW q \in Thread, NEW n \in Runner, ClaimStart(q, n) PROVE Goal
  <2>1. /\ \A j \in Job : status'[j] = status[j] \/ status'[j] = "failed"
        /\ \A j \in Job : result'[j] = result[j] \/ (result'[j] = 0 /\ status'[j] = "failed")
        /\ token' = token
    BY <1>4 DEF ClaimStart
  <2> QED
    BY <1>b, <2>1 DEF Ended
<1>5. ASSUME NEW q \in Thread, ClaimWrite(q), StillFree(request[q]) PROVE Goal
  <2> DEFINE i == request[q].job
  <2>1. i \in Job /\ UpForClaim(i)
    <3>1. request[q].job \in Job /\ request[q].seen \in {"queued", "running"}
      BY <1>5, RequestInvIs DEF ClaimWrite, IInv, Fits
    <3>2. TypeOK /\ request[q].age \in Nat
      BY <1>0 DEF IInv
    <3> QED
      BY <3>1, <3>2, <1>5, FreeForClaim
  <2>2. /\ status' = [status EXCEPT ![i] = "running"]
        /\ token' = [token EXCEPT ![i] = @ + 1]
        /\ result' = result
    BY <1>5 DEF ClaimWrite
  <2>3. status \in [Job -> Status] /\ token \in [Job -> Nat]
    BY DEF IInv, TypeOK
  <2>4. result[i] = None
    BY <1>b, <2>1 DEF UpForClaim, Ended
  <2> HIDE DEF i
  <2> QED
    BY <1>b, <2>1, <2>2, <2>3, <2>4
<1>6. ASSUME NEW q \in Thread, CompleteWrite(q) PROVE Goal
  <2> DEFINE i == request[q].job
             st == IF request[q].ok THEN "completed" ELSE "failed"
  <2>1. i \in Job /\ token[i] = request[q].token
    BY <1>0, <1>6, RequestInvIs DEF CompleteWrite, IInv, Fits, FreshInv, Current
  <2>2. /\ status' = [status EXCEPT ![i] = st]
        /\ result' = [result EXCEPT ![i] = request[q].token]
        /\ UNCHANGED token
    BY <1>6 DEF CompleteWrite
  <2>3. st \in Ended /\ status \in [Job -> Status] /\ result \in [Job -> Nat \cup {None}]
    BY DEF IInv, TypeOK, Ended
  <2> HIDE DEF i, st
  <2> QED
    BY <1>b, <2>1, <2>2, <2>3
<1> HIDE DEF Goal
<1>7. ASSUME NEW q \in Thread, Starts(q) PROVE Goal
  <2>1. CASE \E n \in Runner : ClaimStart(q, n)
    BY <1>4, <2>1
  <2>2. CASE ~ \E n \in Runner : ClaimStart(q, n)
    BY <1>1, <1>7, <2>2 DEF Starts, HeartbeatRead, CompleteRead, row
  <2> QED
    BY <2>1, <2>2
<1>8. ASSUME NEW q \in Thread, Goes(q) PROVE Goal
  <2>1. CASE ClaimWrite(q)
    BY <1>1, <1>5, <2>1 DEF ClaimWrite
  <2>2. CASE ClaimSelect(q) \/ HeartbeatWrite(q)
    BY <1>1, <2>2 DEF ClaimSelect, HeartbeatWrite, row
  <2> QED
    BY <1>6, <1>8, <2>1, <2>2 DEF Goes
<1>9. CASE Submits
  BY <1>2, <1>9 DEF Submits
<1>10. ASSUME \/ UNCHANGED vars \/ Registry \/ Tick \/ ServerCrash
              \/ \E q \in Thread : HandlerFails(q)
       PROVE  Goal
  BY <1>1, <1>10 DEF vars, Registry, RunnerHeartbeat, GoesOffline, Tick, ServerCrash,
                     HandlerFails, row
<1> QED
  BY <1>3, <1>7, <1>8, <1>9, <1>10 DEF Next

\* As long as no lease can lapse between a handler's reading and its writing, the stored
\* output is the server's own or comes from the last lease granted; the run
\* RemoteStaleComplete shows that one tick of delay is enough to lose this.
THEOREM FenceWithoutDelay == ASSUME Delay = 0 PROVE Spec => []ResultFromCurrentLease
<1>1. Init => ResultInv
  BY DEF Init, ResultInv, ResultFromCurrentLease
<1>2. IInv /\ FreshInv /\ ResultInv /\ [Next]_vars => ResultInv'
  BY ResultStep
<1>3. ResultInv => ResultFromCurrentLease
  BY DEF ResultInv
<1>4. Spec => []FreshInv
  BY Fresh
<1> QED
  BY <1>1, <1>2, <1>3, <1>4, Invariance, PTL DEF Spec

-----------------------------------------------------------------------------

\* A claim is of a job submitted to the runner it is for.
ClaimsOwn ==
    \A q \in Thread : request[q].op = "claim" => Target[request[q].job] = request[q].runner

\* No lease token is ever taken back, in any step of the broker.
LEMMA TokensGrow ==
    ASSUME IInv, [Next]_vars, NEW j \in Job
    PROVE  token[j] \in Nat /\ token'[j] \in Nat /\ token[j] <= token'[j]
<1>1. token[j] \in Nat /\ token \in [Job -> Nat]
  BY DEF IInv, TypeOK
<1>2. ASSUME NEW q \in Thread, ClaimWrite(q) PROVE token'[j] \in Nat /\ token[j] <= token'[j]
  BY <1>1, <1>2 DEF ClaimWrite
<1>3. token' = token \/ \E q \in Thread : ClaimWrite(q)
  BY DEF Next, vars, Submits, Create, Waits, WaitEnds, WaitTimesOut, WaitCancels,
         Registry, RunnerHeartbeat, GoesOffline, Tick, ServerCrash, HandlerFails,
         Starts, ClaimStart, HeartbeatRead, CompleteRead, Goes, ClaimSelect,
         HeartbeatWrite, CompleteWrite, row
<1> QED
  BY <1>1, <1>2, <1>3

\* One thread's record is replaced by one that claims an own job, if it claims at all.
LEMMA ClaimsOwnOpen ==
    ASSUME TypeOK, ClaimsOwn, NEW q \in Thread, NEW r, Open(q, r),
           r.op = "claim" => Target[r.job] = r.runner
    PROVE  ClaimsOwn'
<1>1. request'[q] = r /\ \A p \in Thread : p # q => request'[p] = request[p]
  BY DEF Open, TypeOK
<1> QED
  BY <1>1 DEF ClaimsOwn

\* Every step of the broker keeps claims to the runner's own jobs.
LEMMA ClaimsOwnStep == ASSUME IInv, ClaimsOwn, [Next]_vars PROVE ClaimsOwn'
<1>0. TypeOK
  BY DEF IInv
<1>1. CASE UNCHANGED request
  BY <1>1 DEF ClaimsOwn
<1>2. ASSUME NEW q \in Thread, Answer(q) PROVE ClaimsOwn'
  BY <1>0, <1>2, ClaimsOwnOpen, FreeOK DEF Answer
<1>3. CASE Tick
  <2>1. ASSUME NEW q \in Thread
        PROVE  /\ request'[q].op = request[q].op /\ request'[q].job = request[q].job
               /\ request'[q].runner = request[q].runner
    BY <1>0, <1>3 DEF Tick, TypeOK, Request
  <2> QED
    BY <2>1 DEF ClaimsOwn
<1>4. CASE ServerCrash
  BY <1>4, FreeOK DEF ServerCrash, ClaimsOwn
<1>5. ASSUME NEW q \in Thread, Starts(q) PROVE ClaimsOwn'
  <2>1. ASSUME NEW op, NEW n, NEW j, NEW k, NEW ok, op # "claim", Open(q, New(op, n, j, k, ok))
        PROVE  ClaimsOwn'
    <3>1. New(op, n, j, k, ok).op # "claim"
      BY <2>1 DEF New
    <3> QED
      BY <1>0, <2>1, <3>1, ClaimsOwnOpen
  <2> QED
    BY <1>5, <2>1 DEF Starts, ClaimStart, HeartbeatRead, CompleteRead
<1>6. ASSUME NEW q \in Thread, ClaimSelect(q) PROVE ClaimsOwn'
  <2> DEFINE r == request[q]
  <2>1. CASE Answer(q)
    BY <1>2, <2>1
  <2>2. ASSUME NEW j \in Job, Candidate(j, r.runner, r.age),
               Open(q, [r EXCEPT !.op = "claim", !.job = j, !.token = token[j],
                                 !.seen = status[j]])
        PROVE  ClaimsOwn'
    <3> DEFINE e == [r EXCEPT !.op = "claim", !.job = j, !.token = token[j],
                              !.seen = status[j]]
    <3>1. e.job = j /\ e.runner = r.runner
      BY <1>0 DEF TypeOK, Request
    <3>2. Target[e.job] = e.runner
      BY <2>2, <3>1 DEF Candidate
    <3> HIDE DEF e, r
    <3>3. Open(q, e)
      BY <2>2 DEF e
    <3> QED
      BY <1>0, <3>2, <3>3, ClaimsOwnOpen
  <2> QED
    BY <1>6, <2>1, <2>2 DEF ClaimSelect
<1>7. \/ UNCHANGED request \/ Tick \/ ServerCrash
      \/ \E q \in Thread : Answer(q) \/ Starts(q) \/ ClaimSelect(q)
  BY DEF Next, vars, Submits, Create, Waits, WaitEnds, WaitTimesOut, WaitCancels,
         Registry, RunnerHeartbeat, GoesOffline, HandlerFails, Goes, ClaimWrite,
         HeartbeatWrite, CompleteWrite
<1> QED
  BY <1>1, <1>2, <1>3, <1>4, <1>5, <1>6, <1>7

\* The runner's locals are typed, and what it awaits or works on fits the broker's state.
Locals ==
    /\ pc \in {"register", "poll", "claiming", "run", "renewing", "report", "storing"}
    /\ me \in Runner \cup {None} /\ exited \in BOOLEAN
    /\ pc # "register" => me \in Runner
    /\ pc \in {"register", "poll", "claiming", "storing"} => lease = NoLease

LeaseHeld(k) ==
    lease.job \in Job /\ Target[lease.job] = me /\ lease.token \in 1..k[lease.job]

\* RunnerInv by its parts.
LEMMA RunnerParts ==
    /\ RunnerInv <=> /\ Locals /\ ClaimsOwn
                     /\ pc \in {"run", "renewing", "report"} => LeaseHeld(token)
                     /\ IF via = None THEN pc \in {"register", "poll", "run", "report"}
                        ELSE via \in Thread /\ Awaited(request[via])
    /\ RunnerInv' <=> /\ Locals' /\ ClaimsOwn'
                      /\ pc' \in {"run", "renewing", "report"} => LeaseHeld(token)'
                      /\ IF via' = None THEN pc' \in {"register", "poll", "run", "report"}
                         ELSE via' \in Thread /\ Awaited(request[via])'
  BY DEF RunnerInv, RunnerInStep, Locals, ClaimsOwn, LeaseHeld, Issued

\* A step of the composed system is one of the broker, or leaves the broker alone.
LEMMA RunnerStepIsBrokers ==
    ASSUME RunnerInv, [RunnerNext]_all PROVE [Next]_vars
<1>1. CASE UNCHANGED all
  BY <1>1 DEF all
<1>2. /\ me \in Runner \cup {None}
      /\ pc # "register" => me \in Runner
      /\ pc \in {"run", "renewing", "report"} =>
            lease.job \in Job /\ lease.token \in Issued(lease.job)
      /\ exited \in BOOLEAN
  BY DEF RunnerInv, RunnerInStep
<1>3. CASE Register \/ RegisterLost
  <2>1. \E n \in Runner : RunnerHeartbeat(n)
    <3>1. CASE Register
      <4>1. PICK n \in (IF me = None THEN Runner \ given ELSE {me}) : RunnerHeartbeat(n)
        BY <3>1 DEF Register
      <4>2. n \in Runner
        BY <1>2, <4>1
      <4> QED
        BY <4>1, <4>2
    <3>2. CASE RegisterLost
      BY <3>2 DEF RegisterLost
    <3> QED
      BY <1>3, <3>1, <3>2
  <2> QED
    BY <2>1 DEF Next, Registry
<1>4. ASSUME NEW q \in Thread, Claim(q) PROVE Next
  <2>1. me \in Runner /\ ClaimStart(q, me)
    BY <1>2, <1>4 DEF Claim
  <2>2. Starts(q)
    BY <2>1 DEF Starts
  <2> QED
    BY <2>2 DEF Next
<1>5. ASSUME NEW q \in Thread, Report(q) PROVE Next \/ UNCHANGED vars
  BY <1>2, <1>5 DEF Report, Next, Starts
<1>6. ASSUME NEW q \in Thread, Renew(q) PROVE Next \/ UNCHANGED vars
  BY <1>2, <1>6 DEF Renew, Next, Starts
<1>7. ASSUME NEW q \in Thread, Handler(q) PROVE Next
  BY <1>7 DEF Handler, ClaimGoes, NoJob, RenewGoes, ReportGoes, Next, Goes
<1>8. CASE CommandExits \/ GivesUp \/ RunnerCrashes
  BY <1>8 DEF CommandExits, GivesUp, RunnerCrashes
<1>9. CASE ServerFails
  BY <1>9 DEF ServerFails, Next
<1>10. CASE Submits \/ Tick \/ (\E j \in Job : Waits(j)) \/ (\E n \in Runner : GoesOffline(n))
  BY <1>10 DEF Next, Registry
<1> QED
  BY <1>1, <1>3, <1>4, <1>5, <1>6, <1>7, <1>8, <1>9, <1>10 DEF RunnerNext, Loop

\* Whom the runner awaits, if anyone, is a thread whose handler is open.
LEMMA AwaitedIsOpen ==
    ASSUME RunnerInv, via # None
    PROVE  /\ via \in Thread /\ request[via].op # "free" /\ request[via] # Free
           /\ pc \in {"claiming", "renewing", "storing"}
  BY FreeOK DEF RunnerInv, RunnerInStep, Awaited

\* A lease the runner keeps stays a lease the broker gave out.
LEMMA LeaseStays ==
    ASSUME IInv, [Next]_vars, LeaseHeld(token), lease' = lease, me' = me
    PROVE  LeaseHeld(token)'
<1>1. lease.job \in Job
  BY DEF LeaseHeld
<1>2. /\ token[lease.job] \in Nat /\ token'[lease.job] \in Nat
      /\ token[lease.job] <= token'[lease.job]
  BY <1>1, TokensGrow
<1> QED
  BY <1>2 DEF LeaseHeld

\* A step in which the runner does nothing, and the request it awaits keeps what it is.
LEMMA RunnerIdles ==
    ASSUME IInv, RunnerInv, [Next]_vars, UNCHANGED client,
           via # None /\ Awaited(request[via]) => Awaited(request[via])'
    PROVE  RunnerInv'
<1>1. ClaimsOwn'
  BY RunnerParts, ClaimsOwnStep
<1>2. pc' \in {"run", "renewing", "report"} => LeaseHeld(token)'
  BY RunnerParts, LeaseStays DEF client
<1>3. Locals'
  BY RunnerParts DEF Locals, client
<1>4. IF via' = None THEN pc' \in {"register", "poll", "run", "report"}
      ELSE via' \in Thread /\ Awaited(request[via])'
  BY RunnerParts DEF client
<1> QED
  BY <1>1, <1>2, <1>3, <1>4, RunnerParts

\* A runner that starts its loop again, from wherever it was, awaits and holds nothing.
LEMMA RunnerRetries ==
    ASSUME IInv, RunnerInv, [Next]_vars, Retry, lease' = NoLease,
           me' \in {me, None}, exited' = exited
    PROVE  RunnerInv'
<1>1. ClaimsOwn'
  BY RunnerParts, ClaimsOwnStep
<1>2. pc' = "register" /\ via' = None
  BY DEF Retry, Goto
<1>3. Locals'
  BY <1>2, RunnerParts DEF Locals
<1> QED
  BY <1>1, <1>2, <1>3, RunnerParts

\* Registering gives the runner an id before its first request.
LEMMA RegisterKeeps ==
    ASSUME IInv, RunnerInv, [Next]_vars, Register PROVE RunnerInv'
<1>1. ClaimsOwn'
  BY RunnerParts, ClaimsOwnStep
<1>2. pc' = "poll" /\ via' = None /\ lease' = NoLease /\ exited' = exited
  BY RunnerParts DEF Register, Goto, Locals
<1>3. me' \in Runner
  <2>1. me' \in (IF me = None THEN Runner \ given ELSE {me})
    BY DEF Register
  <2>2. me \in Runner \cup {None}
    BY RunnerParts DEF Locals
  <2> QED
    BY <2>1, <2>2
<1>4. Locals'
  BY <1>2, <1>3, RunnerParts DEF Locals
<1> QED
  BY <1>1, <1>2, <1>4, RunnerParts

\* A step that opens a request of the runner, which from then on awaits its answer.
LEMMA OpensOwn ==
    ASSUME IInv, RunnerInv, [Next]_vars, NEW q \in Thread, NEW r, Open(q, r),
           via' = q, me' = me, me \in Runner, exited' \in BOOLEAN,
           \/ pc' = "claiming" /\ lease' = NoLease /\ r.op = "select" /\ r.runner = me
           \/ /\ pc' = "renewing" /\ lease' = lease /\ LeaseHeld(token)
              /\ r.op = "renew" /\ r.job = lease.job /\ r.token = lease.token
           \/ pc' = "storing" /\ lease' = NoLease /\ r.op = "store"
    PROVE  RunnerInv'
<1>1. ClaimsOwn'
  BY RunnerParts, ClaimsOwnStep
<1>2. request'[q] = r
  BY DEF Open, IInv, TypeOK
<1>3. Awaited(request[via])' /\ via' \in Thread /\ via' # None
  BY <1>2, RunnerAssumption DEF Awaited
<1>4. Locals'
  BY RunnerParts DEF Locals
<1>5. pc' \in {"run", "renewing", "report"} => LeaseHeld(token)'
  BY LeaseStays
<1> QED
  BY <1>1, <1>3, <1>4, <1>5, RunnerParts

\* The runner's requests: claim, lease heartbeat and completion.
LEMMA RequestsKeep ==
    ASSUME IInv, RunnerInv, [Next]_vars, NEW q \in Thread, Claim(q) \/ Renew(q) \/ Report(q)
    PROVE  RunnerInv'
<1>1. /\ me \in Runner \cup {None}
      /\ exited \in BOOLEAN
      /\ pc # "register" => me \in Runner
      /\ pc = "poll" => lease = NoLease
      /\ pc \in {"run", "report"} => LeaseHeld(token)
  BY RunnerParts DEF Locals
<1>2. CASE Claim(q)
  <2> DEFINE r == New("select", me, None, 0, FALSE)
  <2>1. /\ Open(q, r) /\ pc' = "claiming" /\ via' = q /\ me' = me
        /\ lease' = NoLease /\ exited' = exited /\ me \in Runner
    BY <1>1, <1>2 DEF Claim, ClaimStart, Goto
  <2>2. r.op = "select" /\ r.runner = me
    BY DEF New
  <2> HIDE DEF r
  <2> QED
    BY <1>1, <2>1, <2>2, OpensOwn
<1>3. CASE Renew(q)
  <2> DEFINE r == New("renew", Target[lease.job], lease.job, lease.token, FALSE)
  <2>1. pc = "run" /\ me' = me
    BY <1>3 DEF Renew
  <2>2. CASE HeartbeatRead(q, lease.job, lease.token) /\ Goto("renewing", q)
             /\ UNCHANGED <<lease, exited>>
    <3>1. /\ Open(q, r) /\ pc' = "renewing" /\ via' = q /\ lease' = lease /\ exited' = exited
      BY <2>2 DEF HeartbeatRead, Goto
    <3>2. r.op = "renew" /\ r.job = lease.job /\ r.token = lease.token
      BY DEF New
    <3> HIDE DEF r
    <3> QED
      BY <1>1, <2>1, <3>1, <3>2, OpensOwn
  <2>3. CASE Retry /\ lease' = NoLease /\ UNCHANGED exited
    BY <2>1, <2>3, RunnerRetries
  <2>4. CASE Goto("report", None) /\ exited' = FALSE /\ UNCHANGED lease
    <3>1. pc' = "report" /\ via' = None
      BY <2>4 DEF Goto
    <3>2. LeaseHeld(token)'
      BY <1>1, <2>1, <2>4, LeaseStays
    <3>3. Locals'
      BY <1>1, <2>1, <2>4, <3>1 DEF Locals
    <3> QED
      BY <3>1, <3>2, <3>3, ClaimsOwnStep, RunnerParts
  <2> QED
    BY <1>3, <2>2, <2>3, <2>4 DEF Renew
<1>4. CASE Report(q)
  <2> DEFINE r == New("store", Target[lease.job], lease.job, lease.token, exited)
  <2>1. pc = "report" /\ me' = me /\ lease' = NoLease /\ exited' = exited
    BY <1>4 DEF Report
  <2>2. CASE CompleteRead(q, lease.job, lease.token, exited) /\ Goto("storing", q)
    <3>1. Open(q, r) /\ pc' = "storing" /\ via' = q
      BY <2>2 DEF CompleteRead, Goto
    <3>2. r.op = "store"
      BY DEF New
    <3> HIDE DEF r
    <3> QED
      BY <1>1, <2>1, <3>1, <3>2, OpensOwn
  <2>3. CASE Retry
    BY <2>1, <2>3, RunnerRetries
  <2> QED
    BY <1>4, <2>2, <2>3 DEF Report
<1> QED
  BY <1>2, <1>3, <1>4

\* A handler the runner does not await leaves the runner where it is.
LEMMA OthersAnswer ==
    ASSUME IInv, RunnerInv, [Next]_vars, NEW q \in Thread, NEW r, Open(q, r),
           via # q, UNCHANGED client
    PROVE  RunnerInv'
<1>1. via # None => request'[via] = request[via]
  BY AwaitedIsOpen DEF Open, IInv, TypeOK
<1>2. via # None /\ Awaited(request[via]) => Awaited(request[via])'
  BY <1>1 DEF Awaited, client
<1> QED
  BY <1>2, RunnerIdles

\* The claim's answer: a lease on a job of the runner's own, or none.
LEMMA ClaimGoesKeeps ==
    ASSUME IInv, RunnerInv, [Next]_vars, NEW q \in Thread, ClaimGoes(q) PROVE RunnerInv'
<1>0. IInv => TypeOK
  BY DEF IInv
<1>1. CASE ClaimSelect(q) /\ request'[q] # Free /\ UNCHANGED client
  <2>1. /\ request[q].op = "select" /\ request'[q].op = "claim"
        /\ request'[q].runner = request[q].runner
        /\ \A p \in Thread : p # q => request'[p] = request[p]
    <3>1. request' # [request EXCEPT ![q] = Free]
      BY <1>0, <1>1 DEF TypeOK
    <3>2. PICK j \in Job :
             Open(q, [request[q] EXCEPT !.op = "claim", !.job = j, !.token = token[j],
                                        !.seen = status[j]])
      BY <1>1, <3>1 DEF ClaimSelect, Answer, Open
    <3>3. request[q] \in Request /\ request[q].op = "select"
      BY <1>0, <1>1 DEF ClaimSelect, TypeOK
    <3> QED
      BY <1>0, <3>2, <3>3 DEF Open, TypeOK, Request
  <2>2. via # None /\ Awaited(request[via]) => Awaited(request[via])'
    BY <1>1, <2>1, AwaitedIsOpen DEF Awaited, client
  <2> QED
    BY <1>1, <2>2, RunnerIdles
<1>2. ASSUME NoJob(q) \/ ClaimWrite(q) PROVE Answer(q)
  BY <1>0, <1>2 DEF NoJob, ClaimSelect, ClaimWrite, Answer, Open, TypeOK
<1>3. request[q].op \in {"select", "claim"}
  BY DEF ClaimGoes, NoJob, ClaimSelect, ClaimWrite
<1>4. via = q => /\ pc = "claiming" /\ lease = NoLease
                 /\ request[q].runner = me /\ me \in Runner /\ via # None
  <2>1. q # None
    BY RunnerAssumption
  <2> QED
    BY <1>3, <2>1, RunnerParts DEF Awaited, Locals
<1>5. ASSUME NoJob(q),
             IF via = q THEN Retry ELSE UNCHANGED <<pc, via>>,
             UNCHANGED <<me, lease, exited, given, crashes, faults>>
      PROVE  RunnerInv'
  <2>1. CASE via = q
    BY <1>4, <1>5, <2>1, RunnerRetries
  <2>2. CASE via # q
    BY <1>2, <1>5, <2>2, OthersAnswer DEF Answer, client
  <2> QED
    BY <2>1, <2>2
<1>6. ASSUME ClaimWrite(q), StillFree(request[q]),
             IF via = q
             THEN /\ lease' = [job |-> request[q].job, token |-> token'[request[q].job]]
                  /\ Goto("run", None)
             ELSE UNCHANGED <<lease, pc, via>>,
             UNCHANGED <<me, exited, given, crashes, faults>>
      PROVE  RunnerInv'
  <2>1. CASE via = q
    <3> DEFINE j == request[q].job
    <3>1. request[q].op = "claim" /\ j \in Job
      BY <1>6, RequestInvIs DEF ClaimWrite, IInv, Fits
    <3>2. token[j] \in Nat /\ token'[j] = token[j] + 1
      BY <1>0, <1>6, <3>1 DEF ClaimWrite, TypeOK
    <3>3. Target[j] = me
      BY <1>4, <2>1, <3>1, RunnerParts DEF ClaimsOwn
    <3>4. /\ lease' = [job |-> j, token |-> token'[j]] /\ pc' = "run" /\ via' = None
          /\ me' = me /\ exited' = exited
      BY <1>6, <2>1 DEF Goto
    <3>5. LeaseHeld(token)'
      BY <3>1, <3>2, <3>3, <3>4 DEF LeaseHeld
    <3>6. Locals'
      BY <1>4, <2>1, <3>4, RunnerParts DEF Locals
    <3> QED
      BY <3>4, <3>5, <3>6, ClaimsOwnStep, RunnerParts
  <2>2. CASE via # q
    BY <1>2, <1>6, <2>2, OthersAnswer DEF Answer, client
  <2> QED
    BY <2>1, <2>2
<1> QED
  BY <1>1, <1>5, <1>6 DEF ClaimGoes

\* A step in which the runner stays where it is and the request it awaits is untouched.
LEMMA StaysPut ==
    ASSUME IInv, RunnerInv, [Next]_vars, UNCHANGED <<pc, me, lease, exited, via>>,
           via # None => request'[via] = request[via]
    PROVE  RunnerInv'
<1>1. ClaimsOwn'
  BY RunnerParts, ClaimsOwnStep
<1>2. pc' \in {"run", "renewing", "report"} => LeaseHeld(token)'
  BY RunnerParts, LeaseStays
<1>3. Locals'
  BY RunnerParts DEF Locals
<1>4. IF via' = None THEN pc' \in {"register", "poll", "run", "report"}
      ELSE via' \in Thread /\ Awaited(request[via])'
  BY RunnerParts DEF Awaited
<1> QED
  BY <1>1, <1>2, <1>3, <1>4, RunnerParts

\* The answers to a lease heartbeat and to a completion.
LEMMA AnswersKeep ==
    ASSUME IInv, RunnerInv, [Next]_vars, NEW q \in Thread, RenewGoes(q) \/ ReportGoes(q)
    PROVE  RunnerInv'
<1>1. CASE via # q
  <2>1. Open(q, Free) /\ UNCHANGED client
    BY <1>1 DEF RenewGoes, ReportGoes, HeartbeatWrite, CompleteWrite, Answer, client
  <2> QED
    BY <1>1, <2>1, OthersAnswer
<1>2. CASE via = q
  <2>1. via # None /\ Awaited(request[q]) /\ me \in Runner
    BY <1>2, RunnerAssumption, RunnerParts DEF Awaited, Locals
  <2>2. CASE RenewGoes(q)
    <3>1. request[q].op = "renew"
      BY <2>2 DEF RenewGoes, HeartbeatWrite
    <3>2. pc = "renewing" /\ LeaseHeld(token)
      BY <2>1, <3>1, RunnerParts DEF Awaited
    <3>3. pc' = "run" /\ via' = None /\ me' = me /\ lease' = lease /\ exited' = exited
      BY <1>2, <2>2 DEF RenewGoes, Goto
    <3>4. LeaseHeld(token)'
      BY <3>2, <3>3, LeaseStays
    <3>5. Locals'
      BY <2>1, <3>3, RunnerParts DEF Locals
    <3> QED
      BY <3>3, <3>4, <3>5, ClaimsOwnStep, RunnerParts
  <2>3. CASE ReportGoes(q)
    <3>1. request[q].op = "store"
      BY <2>3 DEF ReportGoes, CompleteWrite
    <3>2. pc = "storing" /\ lease = NoLease
      BY <2>1, <3>1, RunnerParts DEF Awaited, Locals
    <3> QED
      BY <1>2, <2>3, <3>2, RunnerRetries DEF ReportGoes
  <2> QED
    BY <2>2, <2>3
<1> QED
  BY <1>1, <1>2

\* Giving up, dying, an answer to a registration that is lost, a command that ends.
LEMMA OwnStepsKeep ==
    ASSUME IInv, RunnerInv, [Next]_vars,
           GivesUp \/ RunnerCrashes \/ RegisterLost \/ CommandExits
    PROVE  RunnerInv'
<1>1. CASE GivesUp \/ RunnerCrashes
  BY <1>1, RunnerRetries DEF GivesUp, RunnerCrashes
<1>2. CASE RegisterLost
  <2>1. pc = "register" /\ via = None
    BY <1>2, RunnerParts, AwaitedIsOpen DEF RegisterLost
  <2>2. UNCHANGED <<pc, me, lease, exited, via>>
    BY <1>2 DEF RegisterLost
  <2>3. Locals'
    BY <2>2, RunnerParts DEF Locals
  <2> QED
    BY <2>1, <2>2, <2>3, ClaimsOwnStep, RunnerParts
<1>3. CASE CommandExits
  <2>1. /\ pc = "run" /\ pc' = "report" /\ via' = None /\ exited' \in BOOLEAN
        /\ me' = me /\ lease' = lease
    BY <1>3 DEF CommandExits, Goto
  <2>2. LeaseHeld(token)'
    BY <2>1, RunnerParts, LeaseStays
  <2>3. Locals'
    BY <2>1, RunnerParts DEF Locals
  <2> QED
    BY <2>1, <2>2, <2>3, ClaimsOwnStep, RunnerParts
<1> QED
  BY <1>1, <1>2, <1>3

\* A handler or the whole server fails under the runner's request, or under another's.
LEMMA FailsKeep ==
    ASSUME IInv, RunnerInv, [Next]_vars, ServerFails PROVE RunnerInv'
<1>1. ASSUME NEW q \in Thread, HandlerFails(q),
             IF via = q THEN Retry /\ lease' = NoLease ELSE UNCHANGED <<pc, via, lease>>
      PROVE  RunnerInv'
  <2>1. UNCHANGED <<me, exited, given, crashes>>
    BY DEF ServerFails
  <2>2. CASE via = q
    BY <1>1, <2>1, <2>2, RunnerRetries
  <2>3. CASE via # q
    <3>1. via # None => request'[via] = request[via]
      BY <1>1, <2>3, AwaitedIsOpen DEF HandlerFails, Answer, Open, IInv, TypeOK
    <3> QED
      BY <1>1, <2>1, <2>3, <3>1, StaysPut
  <2> QED
    BY <2>2, <2>3
<1>2. ASSUME IF via # None THEN Retry /\ lease' = NoLease ELSE UNCHANGED <<pc, via, lease>>
      PROVE  RunnerInv'
  <2>1. UNCHANGED <<me, exited, given, crashes>>
    BY DEF ServerFails
  <2>2. CASE via # None
    BY <1>2, <2>1, <2>2, RunnerRetries
  <2>3. CASE via = None
    BY <1>2, <2>1, <2>3, StaysPut
  <2> QED
    BY <2>2, <2>3
<1> QED
  BY <1>1, <1>2 DEF ServerFails

\* Other clients, the waiting tool and time leave the runner's request what it is.
LEMMA WorldKeeps ==
    ASSUME IInv, RunnerInv, [Next]_vars, UNCHANGED client,
           Submits \/ Tick \/ (\E j \in Job : Waits(j)) \/ (\E n \in Runner : GoesOffline(n))
    PROVE  RunnerInv'
<1>1. CASE UNCHANGED request
  BY <1>1, RunnerIdles DEF Awaited, client
<1>2. CASE Tick
  <2>1. ASSUME via \in Thread
        PROVE  /\ request'[via].op = request[via].op /\ request'[via].job = request[via].job
               /\ request'[via].runner = request[via].runner
               /\ request'[via].token = request[via].token
    BY <1>2, <2>1 DEF IInv, TypeOK, Tick, Request
  <2>2. via # None /\ Awaited(request[via]) => Awaited(request[via])'
    BY <2>1, AwaitedIsOpen DEF Awaited, client
  <2> QED
    BY <2>2, RunnerIdles
<1>3. UNCHANGED request \/ Tick
  BY DEF Submits, Create, Waits, WaitEnds, WaitTimesOut, WaitCancels, GoesOffline
<1> QED
  BY <1>1, <1>2, <1>3

\* The inductive step of the composed system.
LEMMA RunnerStep ==
    ASSUME IInv, RunnerInv, [RunnerNext]_all PROVE IInv' /\ RunnerInv' /\ [Next]_vars
<1>1. [Next]_vars
  BY RunnerStepIsBrokers
<1>2. IInv'
  BY <1>1, NextInv
<1>3. CASE UNCHANGED all
  BY <1>1, <1>2, <1>3, RunnerIdles DEF all, vars, Awaited, client
<1>4. CASE Register
  BY <1>1, <1>2, <1>4, RegisterKeeps
<1>5. ASSUME NEW q \in Thread, Claim(q) \/ Report(q) \/ Renew(q) PROVE RunnerInv'
  BY <1>1, <1>5, RequestsKeep
<1>6. ASSUME NEW q \in Thread, Handler(q) PROVE RunnerInv'
  BY <1>1, <1>6, ClaimGoesKeeps, AnswersKeep DEF Handler
<1>7. CASE GivesUp \/ RunnerCrashes \/ RegisterLost \/ CommandExits
  BY <1>1, <1>2, <1>7, OwnStepsKeep
<1>8. CASE ServerFails
  BY <1>1, <1>2, <1>8, FailsKeep
<1>9. CASE /\ UNCHANGED client
           /\ Submits \/ Tick \/ (\E j \in Job : Waits(j)) \/ (\E n \in Runner : GoesOffline(n))
  BY <1>1, <1>2, <1>9, WorldKeeps
<1>10. RunnerInv'
  BY <1>3, <1>4, <1>5, <1>6, <1>7, <1>8, <1>9 DEF RunnerNext, Loop
<1> QED
  BY <1>1, <1>2, <1>10

\* The initial states of the composed system.
LEMMA RunnerInitInv == RunnerInit => Init /\ IInv /\ RunnerInv
<1> SUFFICES ASSUME RunnerInit PROVE Init /\ IInv /\ RunnerInv
  OBVIOUS
<1>1. Init /\ IInv
  BY InitInv DEF RunnerInit
<1>2. Locals
  BY DEF RunnerInit, Locals
<1>3. ClaimsOwn
  BY FreeOK DEF RunnerInit, Init, ClaimsOwn
<1> QED
  BY <1>1, <1>2, <1>3, RunnerParts DEF RunnerInit

\* The broker's invariant together with the runner's, whatever answers are lost or late.
THEOREM RunnerInvariance == RunnerSpec => [](IInv /\ RunnerInv)
<1>1. RunnerInit => IInv /\ RunnerInv
  BY RunnerInitInv
<1>2. (IInv /\ RunnerInv) /\ [RunnerNext]_all => (IInv /\ RunnerInv)'
  BY RunnerStep
<1> QED
  BY <1>1, <1>2, PTL DEF RunnerSpec

\* Whatever the answers do, the runner works only on a job submitted to the id it has
\* now, under a token the broker gave out, and never waits for an answer that no handler
\* will give (remote_runner.py).
THEOREM RunnerStaysInStep == RunnerSpec => []RunnerInStep
<1>1. RunnerInv => RunnerInStep
  BY DEF RunnerInv
<1> QED
  BY <1>1, RunnerInvariance, PTL

\* Every behaviour of the broker with this runner is one of the broker with arbitrary
\* clients, so what is proved of the broker holds of the deployed pair.
THEOREM RunnerUsesBroker == RunnerSpec => Spec
<1>1. RunnerInit => Init
  BY RunnerInitInv
<1>2. IInv /\ RunnerInv /\ [RunnerNext]_all => [Next]_vars
  BY RunnerStep
<1> QED
  BY <1>1, <1>2, RunnerInvariance, PTL DEF RunnerSpec, Spec
=============================================================================
