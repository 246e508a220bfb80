------------------------- MODULE AgentRuntimeProofs -------------------------
(***************************************************************************)
(* Proofs about AgentRuntime, for any number of turns, calls, messages,    *)
(* crashes and resumes.                                                    *)
(***************************************************************************)
EXTENDS AgentRuntime, TLAPS

\* The calls of a response have had no effect yet, and the others keep theirs.
LEMMA ZerosAppended ==
    ASSUME NEW e \in Seq(Nat), NEW n \in Nat
    PROVE  LET f == e \o [k \in 1..n |-> 0] IN
           /\ f \in Seq(Nat) /\ Len(f) = Len(e) + n
           /\ \A i \in 1..Len(e) : f[i] = e[i]
           /\ \A i \in (Len(e) + 1)..Len(f) : f[i] = 0
  <1> DEFINE z == [k \in 1..n |-> 0]
  <1>1. z \in Seq(Nat) /\ Len(z) = n /\ \A k \in 1..n : z[k] = 0
    OBVIOUS
  <1> HIDE DEF z
  <1>2. /\ e \o z \in Seq(Nat) /\ Len(e \o z) = Len(e) + n
        /\ \A i \in 1..Len(e) : (e \o z)[i] = e[i]
        /\ \A i \in (Len(e) + 1)..(Len(e) + n) : (e \o z)[i] = z[i - Len(e)]
    BY <1>1
  <1>3. \A i \in (Len(e) + 1)..(Len(e) + n) : i - Len(e) \in 1..n
    OBVIOUS
  <1> QED BY <1>1, <1>2, <1>3 DEF z

\* Counting one more effect.
LEMMA CountOne ==
    ASSUME NEW e \in Seq(Nat), NEW i \in Nat
    PROVE  LET f == [e EXCEPT ![i] = @ + 1] IN
           /\ f \in Seq(Nat) /\ Len(f) = Len(e)
           /\ \A j \in 1..Len(e) : f[j] = IF j = i THEN e[j] + 1 ELSE e[j]
  <1> DEFINE f == [e EXCEPT ![i] = @ + 1]
  <1>1. \A j \in 1..Len(e) : e[j] \in Nat /\ f[j] = IF j = i THEN e[j] + 1 ELSE e[j]
    OBVIOUS
  <1>2. DOMAIN f = 1..Len(e)
    OBVIOUS
  <1>3. f \in [1..Len(e) -> Nat] /\ Len(e) \in Nat
    <2>1. e \in [1..Len(e) -> Nat] /\ Len(e) \in Nat
      OBVIOUS
    <2>2. ASSUME NEW N \in Nat, NEW g \in [1..N -> Nat]
          PROVE  [g EXCEPT ![i] = @ + 1] \in [1..N -> Nat]
      <3>1. CASE i \in 1..N
        <4>1. g[i] + 1 \in Nat
          BY <3>1
        <4> QED BY <3>1, <4>1
      <3>2. CASE i \notin 1..N
        <4>1. [g EXCEPT ![i] = @ + 1] = g
          BY <3>2
        <4> QED BY <4>1
      <3> QED BY <3>1, <3>2
    <2> QED BY <2>1, <2>2
  <1> HIDE DEF f
  <1>4. f \in Seq(Nat) /\ Len(f) = Len(e)
    BY <1>3
  <1> QED BY <1>1, <1>4 DEF f

\* With leaves a transcript, and at most appends the message.
LEMMA WithType ==
    ASSUME NEW s \in Seq(Message), NEW m \in Message
    PROVE  With(s, m) \in Seq(Message)
  BY DEF With

\* The messages the runtime builds are messages.
LEMMA MessageTypes ==
    /\ \A p \in Prompt \cup {First, None} : User(p) \in Message
    /\ Answer \in Message
    /\ \A S \in SUBSET Call : Calls(S) \in Message /\ Result(S) \in Message
    /\ \A M \in SUBSET Mail : Letters(M) \in Message
  BY DEF User, Answer, Calls, Result, Letters, Message, Kind

\* A checkpoint is one.
LEMMA StateType ==
    ASSUME NEW n \in Nat, NEW p \in Phase, NEW s \in Seq(Message), NEW S \in SUBSET Call
    PROVE  State(n, p, s, S) \in Checkpoint
  BY DEF State, Checkpoint

\* The calls of a response are calls with fresh numbers.
LEMMA NewCallsType ==
    ASSUME effects \in Seq(Nat), NEW n \in Nat
    PROVE  NewCalls(n) \in SUBSET Call
  <1>1. Issued \in Nat
    BY DEF Issued
  <1>2. \A k \in 1..n : Issued + k \in Nat \ {0} /\ k \in Nat \ {0}
    BY <1>1
  <1> QED BY <1>2 DEF NewCalls, Call

-----------------------------------------------------------------------------

\* What every end of a run leaves has its type.
LEMMA GoneType ==
    ASSUME Gone
    PROVE  /\ pc' \in PC /\ prompt' \in Prompt \cup {First, None}
           /\ messages' \in Seq(Message) /\ turn' \in Nat /\ limit' \in Nat
           /\ pending' \in SUBSET Call /\ DOMAIN mode' \subseteq Call
           /\ mode' \in [DOMAIN mode' -> Mode]
           /\ finished' \in SUBSET Call /\ taken' \in SUBSET Mail
  BY AgentAssumption DEF Gone, PC

\* Consuming keeps the types.
LEMMA ConsumeType ==
    ASSUME mail \in [Mail -> {"absent", "pending", "consumed"}],
           NEW K \in SUBSET Mail, Consume(K)
    PROVE  /\ taken' \in SUBSET Mail
           /\ mail' \in [Mail -> {"absent", "pending", "consumed"}]
  BY DEF Consume, Mark

LEMMA TypeInit == Init => TypeOK
  BY AgentAssumption DEF Init, TypeOK, PC

\* Every step of the specification keeps the types.
LEMMA TypeStep == TypeOK /\ [Next]_vars => TypeOK'
  <1> SUFFICES ASSUME TypeOK, [Next]_vars
               PROVE  TypeOK'
    OBVIOUS
  <1> USE AgentAssumption DEF TypeOK, row, run, bound
  <1>1. CASE UNCHANGED vars
    BY <1>1 DEF vars
  <1>2. CASE \E m \in Mail : Send(m)
    BY <1>2 DEF Send
  <1>3. CASE \E p \in Prompt \cup {None} : Resume(p)
    BY <1>3 DEF Resume
  <1>4. CASE StorePrompt
    BY <1>4 DEF StorePrompt
  <1>5. CASE Start
    BY <1>5 DEF Start, PC
  <1>6. CASE Begin
    <2>1. messages' \in Seq(Message)
      BY <1>6, MessageTypes DEF Begin
    <2>2. saved' \in Checkpoint
      BY <1>6, <2>1, StateType DEF Begin, Phase
    <2> QED BY <1>6, <2>1, <2>2 DEF Begin, PC
  <1>7. CASE Restore
    <2>1. saved \in Checkpoint /\ saved.messages \in Seq(Message) /\ saved.turn \in Nat
      BY <1>7 DEF Restore, Checkpoint
    <2>2. Unanswered(saved) \in SUBSET Call
      BY <2>1 DEF Unanswered, Checkpoint
    <2>3. messages' \in Seq(Message)
      BY <1>7, <2>1, <2>2, MessageTypes, WithType DEF Restore, Transcript
    <2>4. turn' \in Nat
      BY <1>7, <2>1 DEF Restore
    <2>5. saved' \in Checkpoint
      BY <1>7, <2>1, <2>3, <2>4, StateType DEF Restore, Phase
    <2>6. pc' \in PC
      BY <1>7 DEF Restore, PC
    <2> QED BY <1>7, <2>3, <2>4, <2>5, <2>6 DEF Restore
  <1>8. CASE AppendPrompt
    <2>1. messages' \in Seq(Message)
      BY <1>8, MessageTypes DEF AppendPrompt
    <2>2. saved' \in Checkpoint
      BY <1>8, <2>1, StateType DEF AppendPrompt, Phase
    <2> QED BY <1>8, <2>1, <2>2 DEF AppendPrompt, PC
  <1>9. CASE TurnStart
    BY <1>9, ConsumeType DEF TurnStart, PC
  <1>10. CASE Steered
    <2>1. messages' \in Seq(Message)
      BY <1>10, MessageTypes, WithType DEF Steered
    <2>2. saved' \in Checkpoint
      BY <1>10, <2>1, StateType DEF Steered, Phase
    <2> QED BY <1>10, <2>1, <2>2 DEF Steered, PC, Extended
  <1>11. CASE \E n \in 1..MaxCalls : LlmCalls(n)
    <2> PICK n \in 1..MaxCalls : LlmCalls(n)
      BY <1>11
    <2>0. n \in Nat /\ effects \in Seq(Nat)
      OBVIOUS
    <2>1. pending' \in SUBSET Call
      BY <2>0, NewCallsType DEF LlmCalls
    <2>2. messages' \in Seq(Message)
      BY <2>1, MessageTypes DEF LlmCalls
    <2>3. saved' \in Checkpoint
      BY <2>1, <2>2, StateType DEF LlmCalls, Phase, Save
    <2>4. effects' \in Seq(Nat)
      BY <2>0, ZerosAppended DEF LlmCalls
    <2> QED BY <2>1, <2>2, <2>3, <2>4 DEF LlmCalls, PC
  <1>12. CASE LlmAnswers
    <2>1. messages' \in Seq(Message)
      BY <1>12, MessageTypes DEF LlmAnswers
    <2> QED BY <1>12, <2>1, ConsumeType DEF LlmAnswers, PC
  <1>13. CASE Continue
    <2>1. messages' \in Seq(Message)
      BY <1>13, MessageTypes, WithType DEF Continue
    <2>2. turn + 1 \in Nat /\ {} \in SUBSET Call /\ "before_llm" \in Phase
      BY DEF Phase
    <2>3. saved' \in Checkpoint
      BY <1>13, <2>1, <2>2, StateType DEF Continue
    <2> QED BY <1>13, <2>1, <2>3 DEF Continue, PC, Extended
  <1>14. CASE Complete
    <2>1. turn + 1 \in Nat /\ {} \in SUBSET Call /\ "completed" \in Phase
      BY DEF Phase
    <2>2. saved' \in Checkpoint
      BY <1>14, <2>1, StateType DEF Complete
    <2> QED BY <1>14, <2>2 DEF Complete, PC
  <1>15. CASE Prepare
    BY <1>15 DEF Prepare, PC
  <1>16. CASE BatchEnds
    BY <1>16, ConsumeType DEF BatchEnds, PC
  <1>17. CASE AfterTools
    <2>1. messages' \in Seq(Message)
      BY <1>17, MessageTypes, WithType DEF AfterTools
    <2>2. turn + 1 \in Nat /\ {} \in SUBSET Call /\ "after_tools" \in Phase
      BY DEF Phase
    <2>3. saved' \in Checkpoint
      BY <1>17, <2>1, <2>2, StateType DEF AfterTools
    <2> QED BY <1>17, <2>1, <2>3 DEF AfterTools, PC, Extended
  <1>18. CASE \E c, d \in pending : Execute(c, d)
    <2> PICK c \in pending, d \in pending : Execute(c, d)
      BY <1>18
    <2>1. effects' \in Seq(Nat)
      BY CountOne DEF Execute, Call
    <2> QED BY <2>1 DEF Execute
  <1>19. CASE \E c \in pending : Record(c)
    <2> PICK c \in pending : Record(c)
      BY <1>19
    <2>1. messages' \in Seq(Message) /\ pending' \in SUBSET Call
      BY MessageTypes DEF Record
    <2>2. saved' \in Checkpoint
      BY <2>1, StateType DEF Record, Phase
    <2> QED BY <2>1, <2>2 DEF Record
  <1>20. CASE \E s \in {"completed", "failed"} : Ends(s)
    BY <1>20, GoneType DEF Ends
  <1>21. CASE Crash
    BY <1>21, GoneType DEF Crash
  <1> QED
    BY <1>1, <1>2, <1>3, <1>4, <1>5, <1>6, <1>7, <1>8, <1>9, <1>10, <1>11, <1>12,
       <1>13, <1>14, <1>15, <1>16, <1>17, <1>18, <1>19, <1>20, <1>21
    DEF Next, Run, Turn, Batch, Finish, Exhausted, Raises, Idles

-----------------------------------------------------------------------------

\* One transcript continues another.
Prefix(s, t) == Len(s) <= Len(t) /\ \A i \in DOMAIN s : t[i] = s[i]

\* What Restore puts into the transcript.
Recovered(c) == IF c.phase = "tools_pending"
                THEN With(c.messages, Result(Unanswered(c))) ELSE c.messages

\* Appending continues a transcript.
LEMMA AppendPrefix ==
    ASSUME NEW s \in Seq(Message), NEW m \in Message
    PROVE  /\ Prefix(s, s) /\ Prefix(s, Append(s, m)) /\ Prefix(s, With(s, m))
           /\ Said(s) \subseteq Said(Append(s, m)) /\ Said(s) \subseteq Said(With(s, m))
           /\ Said(Append(s, m)) \subseteq Said(s) \cup {m}
           /\ Said(With(s, m)) \subseteq Said(s) \cup {m}
  <1>1. /\ Len(Append(s, m)) = Len(s) + 1 /\ Len(s) \in Nat
        /\ DOMAIN Append(s, m) = 1..(Len(s) + 1) /\ DOMAIN s = 1..Len(s)
        /\ \A i \in 1..Len(s) : Append(s, m)[i] = s[i]
        /\ Append(s, m)[Len(s) + 1] = m
    OBVIOUS
  <1>2. Prefix(s, s) /\ Prefix(s, Append(s, m))
    BY <1>1 DEF Prefix
  <1>3. /\ Said(s) \subseteq Said(Append(s, m))
        /\ Said(Append(s, m)) \subseteq Said(s) \cup {m}
    BY <1>1 DEF Said
  <1> QED BY <1>2, <1>3 DEF With

\* The step of a run: what is saved is what is in memory.
LEMMA SavedStep ==
    ASSUME TypeOK, SavedInv, [Next]_vars
    PROVE  SavedInv'
  <1> USE DEF SavedInv, row, run, bound
  <1>a. /\ \A n \in Nat, p \in Phase, S \in {{}, pending'} : State(n, p, messages', S) # None
        /\ turn \in Nat /\ turn' \in Nat /\ turn + 1 \in Nat /\ 0 \in Nat
        /\ {"before_llm", "tools_pending", "after_tools", "completed"} \subseteq Phase
    <2>1. TypeOK'
      BY TypeStep
    <2>2. messages' \in Seq(Message) /\ pending' \in SUBSET Call /\ turn' \in Nat
      BY <2>1 DEF TypeOK
    <2>3. turn \in Nat
      BY DEF TypeOK
    <2> QED BY <2>2, <2>3, StateType, NoneAssumption DEF Phase
  <1>1. CASE UNCHANGED vars
    BY <1>1 DEF vars
  <1>2. CASE \E m \in Mail : Send(m)
    BY <1>2 DEF Send
  <1>3. CASE \E p \in Prompt \cup {None} : Resume(p)
    BY <1>3 DEF Resume
  <1>4. CASE StorePrompt
    BY <1>4 DEF StorePrompt
  <1>5. CASE Start
    BY <1>5 DEF Start
  <1>6. CASE Begin \/ AppendPrompt \/ Steered
    BY <1>6, <1>a DEF Begin, AppendPrompt, Steered, State
  <1>7. CASE Restore
    BY <1>7, <1>a DEF Restore, State, Transcript
  <1>8. CASE TurnStart \/ LlmAnswers \/ BatchEnds
    BY <1>8 DEF TurnStart, LlmAnswers, BatchEnds
  <1>9. CASE \E n \in 1..MaxCalls : LlmCalls(n)
    BY <1>9, <1>a DEF LlmCalls, State, Save
  <1>10. CASE Continue \/ Complete \/ AfterTools
    <2>1. CASE Continue
      BY <2>1, <1>a DEF Continue, State
    <2>2. CASE Complete
      <3>1. saved' = State(turn + 1, "completed", messages', {}) /\ messages' = messages
        BY <2>2 DEF Complete
      <3>2. saved' # None
        BY <3>1, <1>a
      <3>3. saved'.messages = messages' /\ pc' = "answered"
        BY <3>1, <2>2 DEF Complete, State
      <3> QED BY <3>2, <3>3
    <2>3. CASE AfterTools
      BY <2>3, <1>a DEF AfterTools, State
    <2> QED BY <1>10, <2>1, <2>2, <2>3
  <1>11. CASE Prepare \/ \E c, d \in pending : Execute(c, d)
    BY <1>11 DEF Prepare, Execute
  <1>12. CASE \E c \in pending : Record(c)
    <2> PICK c \in pending : Record(c)
      BY <1>12
    <2>1. saved' = State(turn, "tools_pending", messages', pending') /\ pc' = "batch"
      BY DEF Record
    <2>2. saved' # None
      BY <2>1, <1>a
    <2> QED BY <2>1, <2>2 DEF State
  <1>13. CASE (\E s \in {"completed", "failed"} : Ends(s)) \/ Crash
    BY <1>13 DEF Ends, Crash, Gone
  <1> QED
    BY <1>1, <1>2, <1>3, <1>4, <1>5, <1>6, <1>7, <1>8, <1>9, <1>10, <1>11, <1>12, <1>13
    DEF Next, Run, Turn, Batch, Finish, Exhausted, Raises, Idles

-----------------------------------------------------------------------------

\* The durable transcript of a step continues the one before it.
Grows == saved # None => saved' # None /\ Prefix(saved.messages, saved'.messages)

\* Continuing is transitive, and keeps what was said.
LEMMA PrefixFacts ==
    ASSUME NEW s \in Seq(Message), NEW t \in Seq(Message), NEW u \in Seq(Message)
    PROVE  /\ Prefix(s, t) /\ Prefix(t, u) => Prefix(s, u)
           /\ Prefix(s, t) => Said(s) \subseteq Said(t)
  BY DEF Prefix, Said

\* A saving step saves what is in memory.
LEMMA GrowsBySaving ==
    ASSUME TypeOK, SavedInv, [Next]_vars, Prefix(saved.messages, messages'),
           NEW n, NEW p, NEW S, saved' = State(n, p, messages', S),
           pc' \notin {"idle", "restore"}
    PROVE  Grows
  <1>1. SavedInv'
    BY SavedStep
  <1> QED BY <1>1 DEF SavedInv, Grows, State

LEMMA GrowsStep ==
    ASSUME TypeOK, SavedInv, [Next]_vars
    PROVE  Grows
  <1> USE DEF row, run, bound
  <1> DEFINE Same == saved' = saved
  <1>0. /\ saved # None => saved.messages \in Seq(Message) /\ saved \in Checkpoint
        /\ messages \in Seq(Message) /\ pending \in SUBSET Call /\ taken \in SUBSET Mail
    BY DEF TypeOK, Checkpoint
  <1>a. ASSUME Same PROVE Grows
    BY <1>0, <1>a, AppendPrefix, MessageTypes DEF Grows
  <1>b. \A m \in Message : /\ Prefix(messages, With(messages, m))
                          /\ Prefix(messages, Append(messages, m))
                          /\ Prefix(messages, messages)
    BY <1>0, AppendPrefix
  <1>1. CASE UNCHANGED vars
    BY <1>1, <1>a DEF vars
  <1>2. CASE \E m \in Mail : Send(m)
    BY <1>2, <1>a DEF Send
  <1>3. CASE \E p \in Prompt \cup {None} : Resume(p)
    BY <1>3, <1>a DEF Resume
  <1>4. CASE StorePrompt
    BY <1>4, <1>a DEF StorePrompt
  <1>5. CASE Start
    BY <1>5, <1>a DEF Start
  <1>6. CASE Begin
    BY <1>6 DEF Begin, Grows
  <1>7. CASE AppendPrompt
    <2>1. messages' = Append(messages, User(prompt)) /\ User(prompt) \in Message
      BY <1>7, MessageTypes DEF AppendPrompt, TypeOK
    <2>2. messages = saved.messages
      BY <1>7 DEF AppendPrompt, SavedInv
    <2> QED BY <1>7, <2>1, <2>2, <1>b, GrowsBySaving DEF AppendPrompt
  <1>8. CASE Steered
    <2>1. messages' = With(messages, Letters(taken)) /\ Letters(taken) \in Message
      BY <1>8, <1>0, MessageTypes DEF Steered
    <2>2. messages = saved.messages
      BY <1>8 DEF Steered, SavedInv
    <2> QED BY <1>8, <2>1, <2>2, <1>b, GrowsBySaving DEF Steered
  <1>9. CASE Restore
    <2>1. CASE saved.phase # "tools_pending"
      BY <1>9, <2>1, <1>a DEF Restore
    <2>2. CASE saved.phase = "tools_pending"
      <3>1. Unanswered(saved) \in SUBSET Call
        BY <1>9, <1>0 DEF Restore, Unanswered, Checkpoint
      <3>2. /\ messages' = With(saved.messages, Result(Unanswered(saved)))
            /\ saved' = State(turn', "after_tools", messages', {})
            /\ pc' \notin {"idle", "restore"}
        BY <1>9, <2>2 DEF Restore, Transcript
      <3>3. Prefix(saved.messages, messages')
        BY <1>9, <1>0, <3>1, <3>2, AppendPrefix, MessageTypes DEF Restore
      <3> QED BY <3>2, <3>3, GrowsBySaving
    <2> QED BY <2>1, <2>2
  <1>10. CASE TurnStart \/ LlmAnswers \/ BatchEnds
    BY <1>10, <1>a DEF TurnStart, LlmAnswers, BatchEnds
  <1>11. CASE \E n \in 1..MaxCalls : LlmCalls(n)
    <2> PICK n \in 1..MaxCalls : LlmCalls(n)
      BY <1>11
    <2>0. n \in Nat /\ effects \in Seq(Nat) /\ pending' = NewCalls(n)
      BY DEF LlmCalls, TypeOK
    <2>1. messages' = Append(messages, Calls(pending')) /\ Calls(pending') \in Message
      <3>1. pending' \in SUBSET Call
        BY <2>0, NewCallsType
      <3> QED BY <3>1, MessageTypes DEF LlmCalls
    <2>2. messages = saved.messages
      BY DEF LlmCalls, SavedInv
    <2> QED BY <2>1, <2>2, <1>b, GrowsBySaving DEF LlmCalls, Save
  <1>12. CASE Continue
    <2>1. messages' = With(messages, Letters(taken)) /\ Letters(taken) \in Message
      BY <1>12, <1>0, MessageTypes DEF Continue
    <2>2. messages = Append(saved.messages, Answer) /\ saved # None /\ Answer \in Message
      BY <1>12, MessageTypes DEF Continue, SavedInv
    <2>3. Prefix(saved.messages, messages) /\ Prefix(messages, messages')
      BY <2>1, <2>2, <1>0, AppendPrefix
    <2>4. messages' \in Seq(Message)
      BY <2>1, <1>0, WithType
    <2>5. Prefix(saved.messages, messages')
      BY <2>2, <2>3, <2>4, <1>0, PrefixFacts
    <2> QED BY <1>12, <2>5, GrowsBySaving DEF Continue
  <1>13. CASE Complete
    <2>1. messages = Append(saved.messages, Answer) /\ saved # None /\ Answer \in Message
      BY <1>13, MessageTypes DEF Complete, SavedInv
    <2>2. Prefix(saved.messages, messages') /\ messages' = messages
      BY <1>13, <2>1, <1>0, AppendPrefix DEF Complete
    <2> QED BY <1>13, <2>2, GrowsBySaving DEF Complete
  <1>14. CASE Prepare \/ \E c, d \in pending : Execute(c, d)
    BY <1>14, <1>a DEF Prepare, Execute
  <1>15. CASE \E c \in pending : Record(c)
    <2> PICK c \in pending : Record(c)
      BY <1>15
    <2>1. messages' = Append(messages, Result({c})) /\ Result({c}) \in Message
      BY <1>0, MessageTypes DEF Record
    <2>2. messages = saved.messages
      BY DEF Record, SavedInv
    <2> QED BY <2>1, <2>2, <1>b, GrowsBySaving DEF Record
  <1>16. CASE AfterTools
    <2>1. messages' = With(messages, Letters(taken)) /\ Letters(taken) \in Message
      BY <1>16, <1>0, MessageTypes DEF AfterTools
    <2>2. messages = saved.messages
      BY <1>16 DEF AfterTools, SavedInv
    <2> QED BY <1>16, <2>1, <2>2, <1>b, GrowsBySaving DEF AfterTools
  <1>17. CASE (\E s \in {"completed", "failed"} : Ends(s)) \/ Crash
    BY <1>17, <1>a DEF Ends, Crash
  <1> QED
    BY <1>1, <1>2, <1>3, <1>4, <1>5, <1>6, <1>7, <1>8, <1>9, <1>10, <1>11, <1>12, <1>13,
       <1>14, <1>15, <1>16, <1>17
    DEF Next, Run, Turn, Batch, Finish, Exhausted, Raises, Idles

-----------------------------------------------------------------------------

\* The calls a state knows of.
KnownCalls == Requested(messages) \cup pending \cup
    (IF saved = None THEN {} ELSE Requested(saved.messages) \cup saved.pending)

\* Appending adds the calls of the message.
LEMMA RequestedAppend ==
    ASSUME NEW s \in Seq(Message), NEW m \in Message
    PROVE  /\ Requested(s) \subseteq Requested(Append(s, m))
           /\ Requested(Append(s, m)) \subseteq Requested(s) \cup m.calls
           /\ Requested(With(s, m)) \subseteq Requested(s) \cup m.calls
  BY AppendPrefix DEF Requested

\* A step without new calls keeps the numbering.
LEMMA CallsKept ==
    ASSUME TypeOK, CallInv, Issued' = Issued,
           Requested(messages') \cup pending' \subseteq KnownCalls,
           saved' = saved \/ \E n, p : \E S \in {{}, pending'} : saved' = State(n, p, messages', S)
    PROVE  CallInv'
  <1>1. Numbered(KnownCalls)
    BY DEF CallInv, KnownCalls, Numbered
  <1>2. Numbered(Requested(messages') \cup pending')
    BY <1>1 DEF Numbered
  <1>3. Numbered(Requested(messages) \cup pending)'
    BY <1>2 DEF Numbered, Requested, Said
  <1>4. (saved # None => Numbered(Requested(saved.messages) \cup saved.pending))'
    <2>1. CASE saved' = saved
      BY <2>1 DEF CallInv, Numbered, Requested, Said
    <2>2. CASE \E n, p : \E S \in {{}, pending'} : saved' = State(n, p, messages', S)
      <3>1. saved'.messages = messages' /\ saved'.pending \subseteq pending'
        BY <2>2 DEF State
      <3> QED BY <3>1, <1>3 DEF Numbered, Requested, Said
    <2> QED BY <2>1, <2>2
  <1> QED BY <1>3, <1>4 DEF CallInv

LEMMA CallStep ==
    ASSUME TypeOK, SavedInv, CallInv, [Next]_vars
    PROVE  CallInv'
  <1> USE DEF row, run, bound
  <1>0. /\ saved # None => saved.messages \in Seq(Message) /\ saved \in Checkpoint
        /\ messages \in Seq(Message) /\ pending \in SUBSET Call /\ taken \in SUBSET Mail
        /\ effects \in Seq(Nat)
    BY DEF TypeOK, Checkpoint
  <1>a. ASSUME UNCHANGED <<messages, pending, saved, effects>> PROVE CallInv'
    BY <1>a DEF CallInv, Numbered, Requested, Said, Issued
  <1>1. CASE UNCHANGED vars
    BY <1>1, <1>a DEF vars
  <1>2. CASE \/ StorePrompt \/ Start \/ TurnStart \/ Prepare \/ BatchEnds
             \/ (\E m \in Mail : Send(m)) \/ (\E p \in Prompt \cup {None} : Resume(p))
    BY <1>2, <1>a DEF StorePrompt, Start, TurnStart, Prepare, BatchEnds, Send, Resume
  <1>3. CASE Begin
    <2>1. User(prompt) \in Message /\ User(prompt).calls = {}
      BY <1>3, MessageTypes DEF TypeOK, User
    <2>2. messages' = <<User(prompt)>> /\ Requested(messages') = {}
      BY <1>3, <2>1 DEF Begin, Requested, Said
    <2> QED BY <1>3, <2>2, CallsKept DEF Begin, KnownCalls, Issued
  <1>4. CASE AppendPrompt
    <2>1. User(prompt) \in Message /\ User(prompt).calls = {}
      BY <1>4, MessageTypes DEF TypeOK, User
    <2>2. Requested(messages') \subseteq Requested(messages)
      BY <1>4, <1>0, <2>1, RequestedAppend DEF AppendPrompt
    <2> QED BY <1>4, <2>2, CallsKept DEF AppendPrompt, KnownCalls, Issued
  <1>5. CASE Restore
    <2>1. CASE saved.phase # "tools_pending"
      BY <1>5, <2>1, CallsKept DEF Restore, Transcript, KnownCalls, Issued
    <2>2. CASE saved.phase = "tools_pending"
      <3>1. Unanswered(saved) \subseteq saved.pending /\ saved.pending \subseteq Call
        BY <1>5, <1>0 DEF Restore, Unanswered, Checkpoint
      <3>2. Result(Unanswered(saved)) \in Message
            /\ Result(Unanswered(saved)).calls = Unanswered(saved)
        BY <3>1, MessageTypes DEF Result
      <3>3. messages' = With(saved.messages, Result(Unanswered(saved)))
        BY <1>5, <2>2 DEF Restore, Transcript
      <3>4. Requested(messages') \subseteq Requested(saved.messages) \cup saved.pending
        BY <1>5, <1>0, <3>1, <3>2, <3>3, RequestedAppend DEF Restore
      <3>5. saved' = State(turn', "after_tools", messages', {})
        BY <1>5, <2>2 DEF Restore
      <3>6. Requested(messages') \cup pending' \subseteq KnownCalls /\ Issued' = Issued
        BY <1>5, <3>4 DEF Restore, KnownCalls, Issued
      <3> QED BY <3>5, <3>6, CallsKept
    <2> QED BY <2>1, <2>2
  <1>6. CASE Steered \/ Continue \/ AfterTools
    <2>1. Letters(taken) \in Message /\ Letters(taken).calls = {}
      BY <1>0, MessageTypes DEF Letters
    <2>2. messages' = With(messages, Letters(taken))
      BY <1>6 DEF Steered, Continue, AfterTools
    <2>3. Requested(messages') \subseteq Requested(messages)
      BY <1>0, <2>1, <2>2, RequestedAppend
    <2>4. Requested(messages') \cup pending' \subseteq KnownCalls /\ Issued' = Issued
      BY <1>6, <2>3 DEF Steered, Continue, AfterTools, KnownCalls, Issued
    <2>5. \E n, p : saved' = State(n, p, messages', {})
      BY <1>6 DEF Steered, Continue, AfterTools
    <2> QED BY <2>4, <2>5, CallsKept
  <1>7. CASE LlmAnswers
    <2>1. Answer \in Message /\ Answer.calls = {}
      BY MessageTypes DEF Answer
    <2>2. Requested(messages') \subseteq Requested(messages)
      BY <1>7, <1>0, <2>1, RequestedAppend DEF LlmAnswers
    <2> QED BY <1>7, <2>2, CallsKept DEF LlmAnswers, KnownCalls, Issued
  <1>8. CASE Complete
    BY <1>8, CallsKept DEF Complete, KnownCalls, Issued
  <1>9. CASE \E n \in 1..MaxCalls : LlmCalls(n)
    <2> PICK n \in 1..MaxCalls : LlmCalls(n)
      BY <1>9
    <2>0. n \in Nat
      OBVIOUS
    <2>1. pending' \in SUBSET Call /\ Calls(pending') \in Message /\ Calls(pending').calls = pending'
      BY <1>0, <2>0, NewCallsType, MessageTypes DEF LlmCalls, Calls
    <2>2. Requested(messages') \subseteq Requested(messages) \cup pending'
      BY <1>0, <2>1, RequestedAppend DEF LlmCalls
    <2>3. Issued' = Issued + n /\ Issued \in Nat
      BY <1>0, <2>0, ZerosAppended DEF LlmCalls, Issued
    <2>4. \A c \in pending' : c.no <= Issued' /\ (FreshIds => c.id = c.no)
      BY <2>3 DEF LlmCalls, NewCalls
    <2>5. Requested(messages) \subseteq Call
      <3>1. \A m \in Said(messages) : m \in Message
        BY <1>0 DEF Said
      <3>2. \A m \in Message : m.calls \subseteq Call
        BY DEF Message
      <3> QED BY <3>1, <3>2 DEF Requested
    <2>6. \A c \in Requested(messages) : c.no <= Issued' /\ (FreshIds => c.id = c.no)
      BY <2>3, <2>5 DEF CallInv, Numbered, Call
    <2>7. Numbered(Requested(messages) \cup pending)'
      BY <2>2, <2>4, <2>6 DEF Numbered, Requested, Said
    <2>8. saved'.messages = messages' /\ saved'.pending = pending'
      BY DEF LlmCalls, State, Save
    <2> QED BY <2>7, <2>8 DEF CallInv, Numbered, Requested, Said
  <1>10. CASE \E c, d \in pending : Execute(c, d)
    <2> PICK c \in pending, d \in pending : Execute(c, d)
      BY <1>10
    <2>1. Issued' = Issued
      BY <1>0, CountOne DEF Execute, Issued, Call
    <2> QED BY <2>1, CallsKept DEF Execute, KnownCalls
  <1>11. CASE \E c \in pending : Record(c)
    <2> PICK c \in pending : Record(c)
      BY <1>11
    <2>1. Result({c}) \in Message /\ Result({c}).calls = {c}
      BY <1>0, MessageTypes DEF Result
    <2>2. Requested(messages') \subseteq Requested(messages) \cup {c}
      BY <1>0, <2>1, RequestedAppend DEF Record
    <2>3. Requested(messages') \cup pending' \subseteq KnownCalls /\ Issued' = Issued
      BY <2>2 DEF Record, KnownCalls, Issued
    <2> QED BY <2>3, CallsKept DEF Record
  <1>12. CASE (\E s \in {"completed", "failed"} : Ends(s)) \/ Crash
    <2>1. messages' = <<>> /\ pending' = {} /\ Issued' = Issued /\ saved' = saved
      BY <1>12 DEF Ends, Crash, Gone, Issued
    <2>2. Requested(messages') = {}
      BY <2>1 DEF Requested, Said
    <2> QED BY <2>1, <2>2, CallsKept DEF KnownCalls
  <1> QED
    BY <1>1, <1>2, <1>3, <1>4, <1>5, <1>6, <1>7, <1>8, <1>9, <1>10, <1>11, <1>12
    DEF Next, Run, Turn, Batch, Finish, Exhausted, Raises, Idles

-----------------------------------------------------------------------------

\* Every step keeps the calls of a batch apart and marks those it executes.
LEMMA BatchStep ==
    ASSUME TypeOK, CallInv, BatchInv, [Next]_vars
    PROVE  BatchInv'
  <1> USE DEF row, run, bound
  <1>0. /\ messages \in Seq(Message) /\ pending \in SUBSET Call /\ effects \in Seq(Nat)
        /\ Issued = Len(effects) /\ Issued \in Nat
    BY DEF TypeOK, Issued
  <1>a. ASSUME pc' \notin {"prepare", "batch"} PROVE BatchInv'
    BY <1>a DEF BatchInv
  <1>b. ASSUME UNCHANGED <<pc, messages, pending, finished, effects>> PROVE BatchInv'
    BY <1>b DEF BatchInv, Said
  <1>1. CASE UNCHANGED vars
    BY <1>1, <1>b DEF vars
  <1>2. CASE \/ StorePrompt \/ (\E m \in Mail : Send(m))
             \/ (\E p \in Prompt \cup {None} : Resume(p))
    BY <1>2, <1>b DEF StorePrompt, Send, Resume
  <1>3. CASE \/ Start \/ Begin \/ Restore \/ AppendPrompt \/ TurnStart \/ Steered
             \/ LlmAnswers \/ Continue \/ Complete \/ BatchEnds \/ AfterTools \/ Crash
             \/ (\E s \in {"completed", "failed"} : Ends(s))
    BY <1>3, <1>a DEF Start, Begin, Restore, AppendPrompt, TurnStart, Steered, LlmAnswers,
                      Continue, Complete, BatchEnds, AfterTools, Crash, Ends, Gone
  <1>4. CASE \E n \in 1..MaxCalls : LlmCalls(n)
    <2> PICK n \in 1..MaxCalls : LlmCalls(n)
      BY <1>4
    <2>0. n \in Nat
      OBVIOUS
    <2>1. \A c \in pending' : c.no \in (Issued + 1)..(Issued + n)
      BY <1>0, <2>0 DEF LlmCalls, NewCalls
    <2>2. \A c, d \in pending' : d.no = c.no => d = c
      BY <1>0, <2>0 DEF LlmCalls, NewCalls
    <2>3. \A c \in pending' : effects'[c.no] = 0
      BY <1>0, <2>0, <2>1, ZerosAppended DEF LlmCalls
    <2>4. pending' \in SUBSET Call /\ Calls(pending') \in Message
      BY <1>0, <2>0, NewCallsType, MessageTypes DEF LlmCalls
    <2>5. Calls(pending') \in Said(messages')
      <3>1. messages' = Append(messages, Calls(pending'))
        BY DEF LlmCalls
      <3>2. /\ Len(messages) + 1 \in DOMAIN messages'
            /\ messages'[Len(messages) + 1] = Calls(pending')
        BY <1>0, <2>4, <3>1
      <3> QED BY <3>2 DEF Said
    <2>6. Calls(pending').kind = "calls" /\ Calls(pending').calls = pending'
      BY DEF Calls
    <2>7. \A c \in pending' : \E m \in Said(messages') : m.kind = "calls" /\ c \in m.calls
      BY <2>5, <2>6
    <2> QED BY <2>2, <2>3, <2>7 DEF BatchInv, Said
  <1>5. CASE Prepare
    BY <1>5 DEF Prepare, BatchInv, Said
  <1>6. CASE \E c, d \in pending : Execute(c, d)
    <2> PICK c \in pending, d \in pending : Execute(c, d)
      BY <1>6
    <2>1. pc = "batch" /\ pc' = pc /\ messages' = messages /\ pending' = pending
          /\ finished' = finished \cup {d}
      BY DEF Execute
    <2>2. \A e \in pending : e.no \in 1..Issued
      BY <1>0 DEF CallInv, Numbered, Call
    <2>3. \A e \in pending : e # d => effects'[e.no] = effects[e.no]
      BY <1>0, <2>1, <2>2, CountOne DEF Execute, BatchInv, Call
    <2> QED BY <2>1, <2>3 DEF BatchInv, Said
  <1>7. CASE \E c \in pending : Record(c)
    <2> PICK c \in pending : Record(c)
      BY <1>7
    <2>1. pc = "batch" /\ pc' = pc /\ effects' = effects /\ finished' = finished
          /\ pending' \subseteq pending
      BY DEF Record
    <2>2. Said(messages) \subseteq Said(messages')
      <3>1. messages' = Append(messages, Result({c})) /\ Result({c}) \in Message
        BY <1>0, MessageTypes DEF Record
      <3> QED BY <1>0, <3>1, AppendPrefix
    <2> QED BY <2>1, <2>2 DEF BatchInv, Said
  <1> QED
    BY <1>1, <1>2, <1>3, <1>4, <1>5, <1>6, <1>7
    DEF Next, Run, Turn, Batch, Finish, Exhausted, Raises, Idles

\* Which effects a step has: none, or the first one of a call that waits.
LEMMA EffectStep ==
    ASSUME TypeOK, CallInv, BatchInv, [Next]_vars
    PROVE  /\ Issued' >= Issued /\ effects' \in Seq(Nat)
           /\ \/ \A n \in 1..Issued' : effects'[n] = IF n <= Issued THEN effects[n] ELSE 0
              \/ \E d \in pending :
                    /\ pc = "batch" /\ saved' = saved /\ Issued' = Issued /\ d.no \in 1..Issued
                    /\ effects[d.no] = 0
                    /\ \A n \in 1..Issued : effects'[n] = IF n = d.no THEN 1 ELSE effects[n]
  <1> USE DEF row, run, bound
  <1>0. /\ pending \in SUBSET Call /\ effects \in Seq(Nat)
        /\ Issued = Len(effects) /\ Issued \in Nat
    BY DEF TypeOK, Issued
  <1>1. effects' \in Seq(Nat)
    BY TypeStep DEF TypeOK
  <1>2. CASE effects' = effects
    BY <1>0, <1>2 DEF Issued
  <1>3. CASE \E n \in 1..MaxCalls : LlmCalls(n)
    <2> PICK n \in 1..MaxCalls : LlmCalls(n)
      BY <1>3
    <2>1. n \in Nat /\ effects' = effects \o [k \in 1..n |-> 0]
      BY DEF LlmCalls
    <2>2. /\ Len(effects') = Len(effects) + n
          /\ \A i \in 1..Len(effects) : effects'[i] = effects[i]
          /\ \A i \in (Len(effects) + 1)..Len(effects') : effects'[i] = 0
      BY <1>0, <2>1, ZerosAppended
    <2> QED BY <1>0, <1>1, <2>1, <2>2 DEF Issued
  <1>4. CASE \E c, d \in pending : Execute(c, d)
    <2> PICK c \in pending, d \in pending : Execute(c, d)
      BY <1>4
    <2>1. d.no \in 1..Issued /\ d.no \in Nat
      BY <1>0 DEF CallInv, Numbered, Call
    <2>2. effects[d.no] = 0 /\ pc = "batch" /\ saved' = saved
      BY DEF Execute, NotYet, BatchInv
    <2>3. effects' = [effects EXCEPT ![d.no] = @ + 1]
      BY DEF Execute
    <2>4. /\ Len(effects') = Len(effects)
          /\ \A j \in 1..Len(effects) :
                effects'[j] = IF j = d.no THEN effects[j] + 1 ELSE effects[j]
      BY <1>0, <2>1, <2>3, CountOne
    <2> QED BY <1>0, <1>1, <2>1, <2>2, <2>4 DEF Issued
  <1>5. \/ effects' = effects \/ (\E n \in 1..MaxCalls : LlmCalls(n))
        \/ \E c, d \in pending : Execute(c, d)
    BY DEF Next, Run, Turn, Batch, Finish, Exhausted, Raises, Idles, vars, StorePrompt, Send,
           Resume, Start, Begin, Restore, AppendPrompt, TurnStart, Steered, LlmAnswers,
           Continue, Complete, Prepare, BatchEnds, AfterTools, Record, Crash, Ends
  <1> QED BY <1>2, <1>3, <1>4, <1>5

LEMMA EffectsOnceStep ==
    ASSUME TypeOK, CallInv, BatchInv, EffectsOnce, [Next]_vars
    PROVE  EffectsOnce'
  <1>1. effects \in Seq(Nat) /\ Issued \in Nat
    BY DEF TypeOK, Issued
  <1>2. \A n \in 1..Issued' : effects'[n] <= 1
    <2>1. CASE \A n \in 1..Issued' : effects'[n] = IF n <= Issued THEN effects[n] ELSE 0
      BY <1>1, <2>1 DEF EffectsOnce
    <2>2. CASE \E d \in pending : /\ Issued' = Issued
            /\ \A n \in 1..Issued : effects'[n] = IF n = d.no THEN 1 ELSE effects[n]
      BY <1>1, <2>2 DEF EffectsOnce
    <2> QED BY <2>1, <2>2, EffectStep
  <1> QED BY <1>2 DEF EffectsOnce

LEMMA EffectsKnownStep ==
    ASSUME TypeOK, SavedInv, CallInv, BatchInv, EffectsKnown, [Next]_vars
    PROVE  EffectsKnown'
  <1>1. effects \in Seq(Nat) /\ Issued \in Nat
    BY DEF TypeOK, Issued
  <1>2. ASSUME NEW n \in 1..Issued, effects[n] > 0
        PROVE  /\ saved' # None
               /\ \E m \in Said(saved'.messages) :
                     m.kind = "calls" /\ \E c \in m.calls : c.no = n
    <2>1. saved # None
          /\ \E m \in Said(saved.messages) : m.kind = "calls" /\ \E c \in m.calls : c.no = n
      BY <1>2 DEF EffectsKnown
    <2>2. saved' # None /\ Prefix(saved.messages, saved'.messages)
      BY <2>1, GrowsStep DEF Grows
    <2>3. saved.messages \in Seq(Message) /\ saved'.messages \in Seq(Message)
      BY <2>1, <2>2, TypeStep DEF TypeOK, Checkpoint
    <2>4. Said(saved.messages) \subseteq Said(saved'.messages)
      BY <2>2, <2>3, PrefixFacts
    <2> QED BY <2>1, <2>2, <2>4
  <1>3. ASSUME NEW n \in 1..Issued', effects'[n] > 0
        PROVE  /\ saved' # None
               /\ \E m \in Said(saved'.messages) :
                     m.kind = "calls" /\ \E c \in m.calls : c.no = n
    <2>1. CASE \A k \in 1..Issued' : effects'[k] = IF k <= Issued THEN effects[k] ELSE 0
      <3>1. n \in 1..Issued /\ effects[n] > 0
        BY <1>1, <1>3, <2>1
      <3> QED BY <3>1, <1>2
    <2>2. CASE \E d \in pending : /\ pc = "batch" /\ saved' = saved /\ Issued' = Issued
            /\ \A k \in 1..Issued : effects'[k] = IF k = d.no THEN 1 ELSE effects[k]
      <3> PICK d \in pending : /\ pc = "batch" /\ saved' = saved /\ Issued' = Issued
            /\ \A k \in 1..Issued : effects'[k] = IF k = d.no THEN 1 ELSE effects[k]
        BY <2>2
      <3>1. CASE n = d.no
        <4>1. saved # None /\ messages = saved.messages
          BY DEF SavedInv
        <4>2. \E m \in Said(messages) : m.kind = "calls" /\ d \in m.calls
          BY DEF BatchInv
        <4> QED BY <3>1, <4>1, <4>2
      <3>2. CASE n # d.no
        <4>1. n \in 1..Issued /\ effects[n] > 0
          BY <1>3, <3>2
        <4> QED BY <4>1, <1>2
      <3> QED BY <3>1, <3>2
    <2> QED BY <2>1, <2>2, EffectStep
  <1> QED BY <1>3 DEF EffectsKnown, Said

-----------------------------------------------------------------------------

\* Every row of a transcript is marked as consumed.
Read(msgs) == \A x \in Said(msgs) : \A m \in x.mail : mail[m] = "consumed"

\* Rows beyond those of the transcript are appended in order.
LEMMA OrderedAppend ==
    ASSUME NEW s \in Seq(Message), NEW m \in Message, Ordered(s),
           \A x \in Said(s) : \A a \in x.mail, b \in m.mail : SameKind(a, b) => a < b
    PROVE  Ordered(Append(s, m)) /\ Ordered(With(s, m))
  <1> DEFINE t == Append(s, m)
  <1>1. /\ Len(s) \in Nat /\ DOMAIN t = 1..(Len(s) + 1) /\ DOMAIN s = 1..Len(s)
        /\ \A i \in 1..Len(s) : t[i] = s[i]
        /\ t[Len(s) + 1] = m
    OBVIOUS
  <1> HIDE DEF t
  <1>2. ASSUME NEW i \in DOMAIN t, NEW j \in DOMAIN t, i < j,
               NEW a \in t[i].mail, NEW b \in t[j].mail, SameKind(a, b)
        PROVE  a < b
    <2>1. i \in DOMAIN s /\ t[i] = s[i] /\ s[i] \in Said(s)
      BY <1>1, <1>2 DEF Said
    <2>2. CASE j \in DOMAIN s
      BY <1>1, <1>2, <2>1, <2>2 DEF Ordered
    <2>3. CASE j \notin DOMAIN s
      <3>1. t[j] = m
        BY <1>1, <2>3
      <3> QED BY <1>2, <2>1, <3>1
    <2> QED BY <2>2, <2>3
  <1>3. Ordered(t)
    BY <1>2 DEF Ordered
  <1> QED BY <1>3 DEF With, t

\* A step that leaves the mailbox alone and puts what was taken, or nothing, behind s.
LEMMA MailAppended ==
    ASSUME TypeOK, MailInv, mail' = mail, taken' = {},
           NEW s \in Seq(Message), NEW m \in Message, Ordered(s), Read(s),
           \A b \in m.mail : mail[b] = "consumed",
           \A x \in Said(s) : \A a \in x.mail, b \in m.mail : SameKind(a, b) => a < b,
           messages' \in {s, Append(s, m), With(s, m)},
           saved' = saved \/ \E n, p, S : saved' = State(n, p, messages', S)
    PROVE  MailInv' /\ MailInOrder'
  <1>1. Ordered(messages')
    BY OrderedAppend
  <1>2. Said(messages') \subseteq Said(s) \cup {m}
    BY AppendPrefix
  <1>3. \A x \in Said(messages') : \A a \in x.mail : mail[a] = "consumed"
    BY <1>2 DEF Read
  <1>4. MailInOrder'
    BY <1>1 DEF MailInOrder, Ordered
  <1>5. saved' # None =>
          /\ Ordered(saved'.messages)
          /\ \A x \in Said(saved'.messages) : \A a \in x.mail : mail[a] = "consumed"
    <2>1. CASE saved' = saved
      BY <2>1 DEF MailInv
    <2>2. CASE \E n, p, S : saved' = State(n, p, messages', S)
      <3>1. saved'.messages = messages'
        BY <2>2 DEF State
      <3> QED BY <1>1, <1>3, <3>1
    <2> QED BY <2>1, <2>2
  <1> QED BY <1>3, <1>4, <1>5 DEF MailInv, Ordered, Said

\* Taking rows: all pending ones of a kind, which come after all of that kind before.
LEMMA MailConsumed ==
    ASSUME TypeOK, MailInv, MailInOrder, NEW K \in {Steering, Mail}, Consume(K), saved' = saved,
           NEW m \in Message, m.mail = {}, messages' \in {messages, Append(messages, m)},
           pc' \in {"steered", "replied", "tools"}
    PROVE  MailInv' /\ MailInOrder'
  <1>0. messages \in Seq(Message) /\ mail \in [Mail -> {"absent", "pending", "consumed"}]
        /\ Mail \subseteq Nat /\ Steering \subseteq Mail
    BY AgentAssumption DEF TypeOK
  <1>1. PICK M \in {{}, {a \in K : mail[a] = "pending"}} : taken' = M /\ mail' = Mark(mail, M)
    BY DEF Consume
  <1>2. M \subseteq K /\ \A a \in M : a \in Mail /\ mail[a] = "pending"
    BY <1>0
  <1>3. \A a \in Mail : mail'[a] = IF a \in M THEN "consumed" ELSE mail[a]
    BY <1>1 DEF Mark
  <1>4. \A a, b \in Mail : a < b /\ mail'[a] = "absent" => mail'[b] = "absent"
    BY <1>2, <1>3 DEF MailInv
  <1>5. ASSUME NEW a \in Mail, NEW b \in Mail, SameKind(a, b), mail'[a] = "consumed",
               mail'[b] # "consumed"
        PROVE  a < b
    <2>1. mail[b] # "consumed" /\ b \notin M
      BY <1>3, <1>5
    <2>2. CASE mail[a] = "consumed"
      BY <1>5, <2>1, <2>2 DEF MailInv
    <2>3. CASE mail[a] # "consumed"
      <3>1. a \in M /\ mail[a] = "pending" /\ a \in K
        BY <1>2, <1>3, <1>5, <2>3
      <3>2. b \in K /\ M = {c \in K : mail[c] = "pending"}
        BY <1>0, <1>5, <3>1 DEF SameKind
      <3>3. mail[b] = "absent"
        BY <1>0, <2>1, <3>2
      <3>4. ~(b < a) /\ a # b
        BY <3>1, <3>3 DEF MailInv
      <3> QED BY <1>0, <3>4
    <2> QED BY <2>2, <2>3
  <1>6. \A a \in taken' : mail'[a] = "consumed"
    BY <1>1, <1>2, <1>3
  <1>7. Said(messages') \subseteq Said(messages) \cup {m}
    BY <1>0, AppendPrefix
  <1>8. ASSUME NEW x \in Said(messages'), NEW a \in x.mail
        PROVE  mail'[a] = "consumed" /\ \A b \in taken' : SameKind(a, b) => a < b
    <2>1. x \in Said(messages) /\ x.mail \subseteq Mail
      <3>1. x \in Said(messages)
        BY <1>7, <1>8
      <3>2. x \in Message
        BY <1>0, <3>1 DEF Said
      <3> QED BY <3>1, <3>2 DEF Message
    <2>2. a \in Mail /\ mail[a] = "consumed"
      BY <1>8, <2>1 DEF MailInv
    <2> QED BY <1>1, <1>2, <1>3, <2>2 DEF MailInv
  <1>9. saved' # None =>
          /\ Ordered(saved'.messages)
          /\ \A x \in Said(saved'.messages) : \A a \in x.mail : mail'[a] = "consumed"
    <2> SUFFICES ASSUME saved # None
                 PROVE  /\ Ordered(saved.messages)
                        /\ \A x \in Said(saved.messages) : \A a \in x.mail : mail'[a] = "consumed"
      OBVIOUS
    <2>1. ASSUME NEW x \in Said(saved.messages), NEW a \in x.mail
          PROVE  mail'[a] = "consumed"
      <3>1. x \in Message /\ mail[a] = "consumed"
        BY <2>1 DEF MailInv, TypeOK, Checkpoint, Said
      <3>2. a \in Mail
        BY <2>1, <3>1 DEF Message
      <3> QED BY <1>3, <3>1, <3>2
    <2> QED BY <2>1 DEF MailInv
  <1>10. Ordered(messages')
    <2>1. Ordered(Append(messages, m))
      BY <1>0, OrderedAppend DEF MailInOrder
    <2> QED BY <2>1 DEF MailInOrder
  <1> QED
    BY <1>4, <1>5, <1>6, <1>8, <1>9, <1>10 DEF MailInv, MailInOrder, Ordered, Said, SameKind

LEMMA MailStep ==
    ASSUME TypeOK, SavedInv, MailInv, MailInOrder, [Next]_vars
    PROVE  MailInv' /\ MailInOrder'
  <1> USE DEF row, run, bound
  <1>0. /\ saved # None => saved.messages \in Seq(Message) /\ saved \in Checkpoint
        /\ messages \in Seq(Message) /\ pending \in SUBSET Call /\ taken \in SUBSET Mail
        /\ mail \in [Mail -> {"absent", "pending", "consumed"}]
        /\ Mail \subseteq Nat
    BY AgentAssumption DEF TypeOK, Checkpoint
  <1>a. ASSUME UNCHANGED <<mail, taken, messages, saved>>,
               pc \in {"steered", "replied", "tools"} => pc' = pc
        PROVE  MailInv' /\ MailInOrder'
    BY <1>a DEF MailInv, MailInOrder, Ordered, Said, SameKind
  <1>b. Read(messages) /\ Ordered(messages) /\ Ordered(<<>>) /\ Read(<<>>)
        /\ (saved # None => Read(saved.messages) /\ Ordered(saved.messages))
        /\ <<>> \in Seq(Message)
    BY DEF MailInv, MailInOrder, Read, Ordered, Said
  <1>1. CASE UNCHANGED vars
    BY <1>1, <1>a DEF vars
  <1>2. CASE \/ StorePrompt \/ Start \/ Prepare \/ (\E c, d \in pending : Execute(c, d))
             \/ (\E p \in Prompt \cup {None} : Resume(p))
    BY <1>2, <1>a DEF StorePrompt, Start, Prepare, Execute, Resume
  <1>3. CASE \E m \in Mail : Send(m)
    <2> PICK m \in Mail : Send(m)
      BY <1>3
    <2>1. /\ \A n \in Mail : n < m => mail[n] # "absent"
          /\ mail[m] = "absent"
          /\ \A n \in Mail : mail'[n] = IF n = m THEN "pending" ELSE mail[n]
          /\ UNCHANGED <<saved, messages, taken, pc>>
      BY <1>0 DEF Send
    <2>2. \A a, b \in Mail : a < b /\ mail'[a] = "absent" => mail'[b] = "absent"
      <3>1. ASSUME NEW a \in Mail, NEW b \in Mail, a < b, mail'[a] = "absent"
            PROVE  mail'[b] = "absent"
        <4>1. mail[a] = "absent" /\ mail[b] = "absent"
          BY <2>1, <3>1 DEF MailInv
        <4>2. b # m
          BY <2>1, <3>1, <4>1
        <4> QED BY <2>1, <4>1, <4>2
      <3> QED BY <3>1
    <2>3. \A a, b \in Mail :
            SameKind(a, b) /\ mail'[a] = "consumed" /\ mail'[b] # "consumed" => a < b
      BY <2>1 DEF MailInv
    <2>4. \A a \in Mail : mail[a] = "consumed" => mail'[a] = "consumed"
      BY <2>1
    <2>5. \A a \in taken : mail'[a] = "consumed"
      BY <1>0, <2>4 DEF MailInv
    <2>6. \A t \in Seq(Message) : Read(t) => \A x \in Said(t) : \A a \in x.mail : mail'[a] = "consumed"
      <3>1. \A t \in Seq(Message) : \A x \in Said(t) : x.mail \subseteq Mail
        <4>1. \A t \in Seq(Message) : \A x \in Said(t) : x \in Message
          BY DEF Said
        <4>2. \A x \in Message : x.mail \subseteq Mail
          BY DEF Message
        <4> QED BY <4>1, <4>2
      <3> QED BY <2>4, <3>1 DEF Read
    <2>7. \A x \in Said(messages) : \A a \in x.mail : mail'[a] = "consumed"
      BY <1>0, <1>b, <2>6
    <2>8. saved # None => \A x \in Said(saved.messages) : \A a \in x.mail : mail'[a] = "consumed"
      BY <1>0, <1>b, <2>6
    <2> QED
      BY <2>1, <2>2, <2>3, <2>5, <2>7, <2>8 DEF MailInv, MailInOrder, Ordered, Said, SameKind
  <1>4. CASE Begin
    <2>1. User(prompt) \in Message /\ User(prompt).mail = {}
      BY <1>4, MessageTypes DEF TypeOK, User
    <2>2. messages' = Append(<<>>, User(prompt)) /\ mail' = mail /\ taken' = {}
          /\ saved' = State(0, "before_llm", messages', {})
      BY <1>4 DEF Begin, MailInv
    <2> QED BY <1>b, <2>1, <2>2, MailAppended
  <1>5. CASE AppendPrompt
    <2>1. User(prompt) \in Message /\ User(prompt).mail = {}
      BY <1>5, MessageTypes DEF TypeOK, User
    <2>2. messages' = Append(messages, User(prompt)) /\ mail' = mail /\ taken' = {}
          /\ saved' = State(turn, "before_llm", messages', {})
      BY <1>5 DEF AppendPrompt, MailInv
    <2> QED BY <1>0, <1>b, <2>1, <2>2, MailAppended
  <1>6. CASE Restore
    <2>1. Unanswered(saved) \in SUBSET Call
      BY <1>6, <1>0 DEF Restore, Unanswered, Checkpoint
    <2>2. Result(Unanswered(saved)) \in Message /\ Result(Unanswered(saved)).mail = {}
      BY <2>1, MessageTypes DEF Result
    <2>3. messages' \in {saved.messages, With(saved.messages, Result(Unanswered(saved)))}
      BY <1>6 DEF Restore, Transcript
    <2>4. saved # None /\ mail' = mail /\ taken' = {}
      BY <1>6 DEF Restore, MailInv
    <2>5. saved' = saved \/ saved' = State(turn', "after_tools", messages', {})
      BY <1>6 DEF Restore
    <2> QED BY <1>0, <1>b, <2>2, <2>3, <2>4, <2>5, MailAppended
  <1>7. CASE Steered \/ Continue \/ AfterTools
    <2>1. Letters(taken) \in Message /\ Letters(taken).mail = taken
      BY <1>0, MessageTypes DEF Letters
    <2>2. messages' = With(messages, Letters(taken)) /\ mail' = mail /\ taken' = {}
      BY <1>7 DEF Steered, Continue, AfterTools
    <2>3. \E n, p : saved' = State(n, p, messages', {})
      BY <1>7 DEF Steered, Continue, AfterTools
    <2>4. /\ \A b \in taken : mail[b] = "consumed"
          /\ \A x \in Said(messages) : \A a \in x.mail, b \in taken : SameKind(a, b) => a < b
      BY DEF MailInv
    <2> QED BY <1>0, <1>b, <2>1, <2>2, <2>3, <2>4, MailAppended
  <1>8. CASE TurnStart \/ BatchEnds
    <2>1. Answer \in Message /\ Answer.mail = {}
      BY MessageTypes DEF Answer
    <2>2. Consume(Steering) /\ saved' = saved /\ messages' = messages
          /\ pc' \in {"steered", "replied", "tools"}
      BY <1>8 DEF TurnStart, BatchEnds
    <2> QED BY <2>1, <2>2, MailConsumed
  <1>9. CASE LlmAnswers
    <2>1. Answer \in Message /\ Answer.mail = {}
      BY MessageTypes DEF Answer
    <2>2. Consume(Mail) /\ saved' = saved /\ messages' = Append(messages, Answer)
          /\ pc' \in {"steered", "replied", "tools"}
      BY <1>9 DEF LlmAnswers
    <2> QED BY <2>1, <2>2, MailConsumed
  <1>10. CASE Complete
    <2>1. Answer \in Message /\ Answer.mail = {}
      BY MessageTypes DEF Answer
    <2>2. messages' = messages /\ mail' = mail /\ taken' = {}
          /\ saved' = State(turn + 1, "completed", messages', {})
      BY <1>10 DEF Complete
    <2> QED BY <1>0, <1>b, <2>1, <2>2, MailAppended
  <1>11. CASE \E n \in 1..MaxCalls : LlmCalls(n)
    <2> PICK n \in 1..MaxCalls : LlmCalls(n)
      BY <1>11
    <2>0. n \in Nat /\ effects \in Seq(Nat) /\ pending' = NewCalls(n)
      BY DEF LlmCalls, TypeOK
    <2>1. Calls(pending') \in Message /\ Calls(pending').mail = {}
      <3>1. pending' \in SUBSET Call
        BY <2>0, NewCallsType
      <3> QED BY <3>1, MessageTypes DEF Calls
    <2>2. messages' = Append(messages, Calls(pending')) /\ mail' = mail /\ taken' = {}
          /\ saved' = State(turn, "tools_pending", messages', pending')
      BY DEF LlmCalls, MailInv, Save
    <2> QED BY <1>0, <1>b, <2>1, <2>2, MailAppended
  <1>12. CASE \E c \in pending : Record(c)
    <2> PICK c \in pending : Record(c)
      BY <1>12
    <2>1. Result({c}) \in Message /\ Result({c}).mail = {}
      BY <1>0, MessageTypes DEF Result
    <2>2. messages' = Append(messages, Result({c})) /\ mail' = mail /\ taken' = {}
          /\ saved' = State(turn, "tools_pending", messages', pending')
      BY DEF Record, MailInv
    <2> QED BY <1>0, <1>b, <2>1, <2>2, MailAppended
  <1>13. CASE (\E s \in {"completed", "failed"} : Ends(s)) \/ Crash
    <2>1. Answer \in Message /\ Answer.mail = {}
      BY MessageTypes DEF Answer
    <2>2. messages' = <<>> /\ mail' = mail /\ taken' = {} /\ saved' = saved
      BY <1>13 DEF Ends, Crash, Gone
    <2> QED BY <1>b, <2>1, <2>2, MailAppended
  <1> QED
    BY <1>1, <1>2, <1>3, <1>4, <1>5, <1>6, <1>7, <1>8, <1>9, <1>10, <1>11, <1>12, <1>13
    DEF Next, Run, Turn, Batch, Finish, Exhausted, Raises, Idles

-----------------------------------------------------------------------------

\* A message that is neither a request nor a result leaves a settled transcript settled.
LEMMA SettledOther ==
    ASSUME NEW s \in Seq(Message), NEW m \in Message, m.kind \notin {"calls", "result"},
           SettledBut(s, {})
    PROVE  SettledBut(Append(s, m), {}) /\ SettledBut(With(s, m), {})
  <1> DEFINE t == Append(s, m)
  <1>1. /\ Len(s) \in Nat /\ Len(t) = Len(s) + 1 /\ DOMAIN t = 1..(Len(s) + 1)
        /\ DOMAIN s = 1..Len(s) /\ \A i \in 1..Len(s) : t[i] = s[i]
        /\ t[Len(s) + 1] = m
    OBVIOUS
  <1> HIDE DEF t
  <1>2. ASSUME NEW i \in DOMAIN t, t[i].kind = "calls", NEW c \in t[i].calls
        PROVE  \E j \in DOMAIN t :
                  /\ i < j
                  /\ \A k \in (i + 1)..j : t[k].kind = "result"
                  /\ \A k \in DOMAIN t : t[k].kind = "result" /\ c \in t[k].calls <=> k = j
    <2>1. i \in DOMAIN s /\ s[i].kind = "calls" /\ c \in s[i].calls
      BY <1>1, <1>2
    <2>2. PICK j \in DOMAIN s :
                  /\ i < j
                  /\ \A k \in (i + 1)..j : s[k].kind = "result"
                  /\ \A k \in DOMAIN s : s[k].kind = "result" /\ c \in s[k].calls <=> k = j
      BY <2>1 DEF SettledBut
    <2> QED BY <1>1, <2>1, <2>2
  <1>3. SettledBut(t, {})
    BY <1>2 DEF SettledBut
  <1> QED BY <1>3 DEF With, t

\* A request makes its calls wait.
LEMMA SettledCalls ==
    ASSUME NEW s \in Seq(Message), NEW P \in SUBSET Call, SettledBut(s, {}),
           Requested(s) \cap P = {}
    PROVE  SettledBut(Append(s, Calls(P)), P)
  <1> DEFINE m == Calls(P)
             t == Append(s, m)
  <1>0. m \in Message /\ m.kind = "calls"
    BY MessageTypes DEF Calls
  <1>1. /\ Len(s) \in Nat /\ Len(t) = Len(s) + 1 /\ DOMAIN t = 1..(Len(s) + 1)
        /\ DOMAIN s = 1..Len(s) /\ \A i \in 1..Len(s) : t[i] = s[i]
        /\ t[Len(s) + 1] = m
    BY <1>0
  <1>2. \A i \in DOMAIN s : s[i].calls \cap P = {}
    BY DEF Requested, Said
  <1>c. m.calls = P
    BY DEF Calls
  <1> HIDE DEF m, t
  <1>3. ASSUME NEW i \in DOMAIN t, t[i].kind = "calls", NEW c \in t[i].calls
        PROVE  IF c \in P THEN \A k \in (i + 1)..Len(t) : t[k].kind = "result"
               ELSE \E j \in DOMAIN t :
                  /\ i < j
                  /\ \A k \in (i + 1)..j : t[k].kind = "result"
                  /\ \A k \in DOMAIN t : t[k].kind = "result" /\ c \in t[k].calls <=> k = j
    <2>1. CASE i = Len(s) + 1
      BY <1>1, <1>3, <1>c, <2>1
    <2>2. CASE i \in DOMAIN s
      <3>1. c \notin P /\ s[i].kind = "calls" /\ c \in s[i].calls
        BY <1>1, <1>2, <1>3, <2>2
      <3>2. PICK j \in DOMAIN s :
                  /\ i < j
                  /\ \A k \in (i + 1)..j : s[k].kind = "result"
                  /\ \A k \in DOMAIN s : s[k].kind = "result" /\ c \in s[k].calls <=> k = j
        BY <2>2, <3>1 DEF SettledBut
      <3> QED BY <1>0, <1>1, <2>2, <3>1, <3>2
    <2> QED BY <1>1, <2>1, <2>2
  <1>4. \A k \in DOMAIN t : t[k].kind = "result" => t[k].calls \cap P = {}
    BY <1>0, <1>1, <1>2
  <1>5. SettledBut(t, P)
    BY <1>3, <1>4 DEF SettledBut
  <1> QED BY <1>5 DEF t, m

\* A result answers its calls.
LEMMA SettledResult ==
    ASSUME NEW s \in Seq(Message), NEW P \in SUBSET Call, NEW R \in SUBSET P, SettledBut(s, P)
    PROVE  /\ SettledBut(Append(s, Result(R)), P \ R)
           /\ R = P => SettledBut(With(s, Result(R)), {})
  <1> DEFINE m == Result(R)
             t == Append(s, m)
  <1>0. m \in Message /\ m.kind = "result" /\ m.calls = R /\ m.mail = {}
    BY MessageTypes DEF Result
  <1>1. /\ Len(s) \in Nat /\ Len(t) = Len(s) + 1 /\ DOMAIN t = 1..(Len(s) + 1)
        /\ DOMAIN s = 1..Len(s) /\ \A i \in 1..Len(s) : t[i] = s[i]
        /\ t[Len(s) + 1] = m
    BY <1>0
  <1> HIDE DEF m, t
  <1>2. ASSUME NEW i \in DOMAIN t, t[i].kind = "calls", NEW c \in t[i].calls
        PROVE  IF c \in P \ R THEN \A k \in (i + 1)..Len(t) : t[k].kind = "result"
               ELSE \E j \in DOMAIN t :
                  /\ i < j
                  /\ \A k \in (i + 1)..j : t[k].kind = "result"
                  /\ \A k \in DOMAIN t : t[k].kind = "result" /\ c \in t[k].calls <=> k = j
    <2>1. i \in DOMAIN s /\ s[i].kind = "calls" /\ c \in s[i].calls
      BY <1>0, <1>1, <1>2
    <2>2. CASE c \in P
      <3>1. \A k \in (i + 1)..Len(s) : s[k].kind = "result"
        BY <2>1, <2>2 DEF SettledBut
      <3>2. \A k \in (i + 1)..Len(t) : t[k].kind = "result"
        BY <1>0, <1>1, <2>1, <3>1
      <3>3. \A k \in DOMAIN s : ~(s[k].kind = "result" /\ c \in s[k].calls)
        BY <2>2 DEF SettledBut
      <3>4. c \in R => \A k \in DOMAIN t :
                t[k].kind = "result" /\ c \in t[k].calls <=> k = Len(t)
        BY <1>0, <1>1, <3>3
      <3> QED BY <1>1, <2>1, <2>2, <3>2, <3>4
    <2>3. CASE c \notin P
      <3>1. PICK j \in DOMAIN s :
                  /\ i < j
                  /\ \A k \in (i + 1)..j : s[k].kind = "result"
                  /\ \A k \in DOMAIN s : s[k].kind = "result" /\ c \in s[k].calls <=> k = j
        BY <2>1, <2>3 DEF SettledBut
      <3> QED BY <1>0, <1>1, <2>1, <2>3, <3>1
    <2> QED BY <2>2, <2>3
  <1>3. \A k \in DOMAIN t : t[k].kind = "result" => t[k].calls \cap (P \ R) = {}
    BY <1>0, <1>1 DEF SettledBut
  <1>4. SettledBut(t, P \ R)
    BY <1>2, <1>3 DEF SettledBut
  <1>5. ASSUME R = P PROVE SettledBut(With(s, m), {})
    <2>1. P \ R = {}
      BY <1>5
    <2>2. SettledBut(t, {})
      BY <1>4, <2>1
    <2>3. P = {} => SettledBut(s, {})
      OBVIOUS
    <2> QED BY <1>0, <1>5, <2>2, <2>3 DEF With, t
  <1> QED BY <1>4, <1>5 DEF t, m

\* The calls that wait in memory.
WaitingNow == IF pc \in {"prepare", "batch"} THEN pending ELSE {}

\* What a step leaves is settled but for the calls that wait, in memory and saved.
LEMMA SettledBySaving ==
    ASSUME FreshIds, NEW P, SettledBut(messages', P), WaitingNow' = P,
           NEW n, NEW p, NEW S, saved' = State(n, p, messages', S),
           P = IF p = "tools_pending" THEN S ELSE {}
    PROVE  SettledInv'
  <1>1. saved'.messages = messages' /\ Waiting(saved') = P
    BY DEF State, Waiting
  <1>2. SettledBut(messages', IF pc' \in {"prepare", "batch"} THEN pending' ELSE {})
    BY DEF WaitingNow
  <1> QED BY <1>1, <1>2 DEF SettledInv, SettledBut, Waiting

\* Or saves nothing.
LEMMA SettledUnsaved ==
    ASSUME SettledInv, saved' = saved,
           pc' \in {"idle", "restore"} \/ SettledBut(messages', WaitingNow')
    PROVE  SettledInv'
  <1>1. pc' \notin {"idle", "restore"} =>
           SettledBut(messages', IF pc' \in {"prepare", "batch"} THEN pending' ELSE {})
    BY DEF WaitingNow
  <1> QED BY <1>1 DEF SettledInv, SettledBut, Waiting

\* The calls Restore finds unanswered are those that were pending.
LEMMA UnansweredIsPending ==
    ASSUME FreshIds, TypeOK, CallInv, SettledInv, saved # None, saved.phase = "tools_pending"
    PROVE  Unanswered(saved) = saved.pending
  <1>1. saved \in Checkpoint
    BY DEF TypeOK
  <1>2. saved.messages \in Seq(Message) /\ saved.pending \subseteq Call
    BY <1>1 DEF Checkpoint
  <1>3. \A k \in DOMAIN saved.messages : saved.messages[k].kind = "result" =>
            saved.messages[k].calls \cap saved.pending = {}
    BY DEF SettledInv, SettledBut, Waiting
  <1> SUFFICES ASSUME NEW x \in saved.pending, NEW m \in Said(saved.messages), m.kind = "result",
                      NEW y \in m.calls, y.id = x.id
               PROVE  FALSE
    BY DEF Unanswered
  <1>4. m \in Message /\ y \notin saved.pending
    BY <1>2, <1>3 DEF Said
  <1>5. y \in Call /\ y \in Requested(saved.messages)
    BY <1>4 DEF Message, Requested
  <1>6. y.id = y.no /\ x.id = x.no
    BY <1>5 DEF CallInv, Numbered
  <1>7. y = x
    <2>1. x \in Call /\ y \in Call /\ x.no = y.no /\ x.id = y.id
      BY <1>2, <1>5, <1>6
    <2>2. \A a, b \in Call : a.no = b.no /\ a.id = b.id => a = b
      BY DEF Call
    <2> QED BY <2>1, <2>2
  <1> QED BY <1>4, <1>7

LEMMA SettledStep ==
    ASSUME TypeOK, SavedInv, CallInv, SettledInv, [Next]_vars
    PROVE  SettledInv'
  <1> SUFFICES ASSUME FreshIds PROVE SettledInv'
    BY DEF SettledInv
  <1> USE DEF row, run, bound
  <1>0. /\ saved # None => saved.messages \in Seq(Message) /\ saved \in Checkpoint
        /\ messages \in Seq(Message) /\ pending \in SUBSET Call /\ taken \in SUBSET Mail
        /\ effects \in Seq(Nat)
    BY DEF TypeOK, Checkpoint
  <1>a. pc \notin {"idle", "restore"} => SettledBut(messages, WaitingNow)
    BY DEF SettledInv, WaitingNow
  <1>b. ASSUME UNCHANGED <<pc, messages, pending, saved>> PROVE SettledInv'
    BY <1>b DEF SettledInv, SettledBut, Waiting
  <1>1. CASE UNCHANGED vars
    BY <1>1, <1>b DEF vars
  <1>2. CASE \/ StorePrompt \/ (\E m \in Mail : Send(m)) \/ (\E c, d \in pending : Execute(c, d))
             \/ (\E p \in Prompt \cup {None} : Resume(p))
    BY <1>2, <1>b DEF StorePrompt, Send, Execute, Resume
  <1>3. CASE Start \/ Crash \/ (\E s \in {"completed", "failed"} : Ends(s))
    BY <1>3, SettledUnsaved DEF Start, Crash, Ends, Gone
  <1>4. CASE TurnStart \/ Prepare \/ BatchEnds
    <2>1. messages' = messages /\ saved' = saved /\ WaitingNow' = WaitingNow
          /\ pc \notin {"idle", "restore"}
      BY <1>4 DEF TurnStart, Prepare, BatchEnds, WaitingNow
    <2> QED BY <2>1, <1>a, SettledUnsaved
  <1>5. CASE Begin
    <2>1. User(prompt) \in Message /\ User(prompt).kind \notin {"calls", "result"}
      BY <1>5, MessageTypes DEF TypeOK, User
    <2>2. SettledBut(<<>>, {}) /\ <<>> \in Seq(Message)
      BY DEF SettledBut
    <2>3. messages' = Append(<<>>, User(prompt)) /\ WaitingNow' = {}
          /\ saved' = State(0, "before_llm", messages', {})
      BY <1>5 DEF Begin, WaitingNow
    <2>4. SettledBut(messages', {})
      BY <2>1, <2>2, <2>3, SettledOther
    <2> QED BY <2>3, <2>4, SettledBySaving
  <1>6. CASE AppendPrompt
    <2>1. User(prompt) \in Message /\ User(prompt).kind \notin {"calls", "result"}
      BY <1>6, MessageTypes DEF TypeOK, User
    <2>2. messages' = Append(messages, User(prompt)) /\ WaitingNow = {} /\ WaitingNow' = {}
          /\ saved' = State(turn, "before_llm", messages', {}) /\ pc \notin {"idle", "restore"}
      BY <1>6 DEF AppendPrompt, WaitingNow
    <2>3. SettledBut(messages', {})
      BY <1>0, <1>a, <2>1, <2>2, SettledOther
    <2> QED BY <2>2, <2>3, SettledBySaving
  <1>7. CASE Restore
    <2>0. saved # None /\ WaitingNow' = {} /\ SettledBut(saved.messages, Waiting(saved))
      BY <1>7 DEF Restore, WaitingNow, SettledInv
    <2>1. CASE saved.phase = "tools_pending"
      <3>1. messages' = With(saved.messages, Result(saved.pending))
            /\ saved' = State(turn', "after_tools", messages', {})
        BY <1>7, <2>0, <2>1, UnansweredIsPending DEF Restore, Transcript
      <3>2. saved.pending \in SUBSET Call /\ SettledBut(saved.messages, saved.pending)
        BY <1>0, <2>0, <2>1 DEF Checkpoint, Waiting
      <3>3. SettledBut(messages', {})
        BY <1>0, <2>0, <3>1, <3>2, SettledResult
      <3> QED BY <2>0, <3>1, <3>3, SettledBySaving
    <2>2. CASE saved.phase # "tools_pending"
      <3>1. messages' = saved.messages /\ saved' = saved /\ Waiting(saved) = {}
        BY <1>7, <2>2 DEF Restore, Transcript, Waiting
      <3> QED BY <2>0, <3>1, SettledUnsaved
    <2> QED BY <2>1, <2>2
  <1>8. CASE Steered \/ Continue \/ AfterTools
    <2>1. Letters(taken) \in Message /\ Letters(taken).kind \notin {"calls", "result"}
      BY <1>0, MessageTypes DEF Letters
    <2>2. messages' = With(messages, Letters(taken)) /\ WaitingNow = {} /\ WaitingNow' = {}
          /\ pc \notin {"idle", "restore"}
      BY <1>8 DEF Steered, Continue, AfterTools, WaitingNow
    <2>3. \E n : \E p \in {"before_llm", "after_tools"} : saved' = State(n, p, messages', {})
      BY <1>8 DEF Steered, Continue, AfterTools
    <2>4. SettledBut(messages', {})
      BY <1>0, <1>a, <2>1, <2>2, SettledOther
    <2> QED BY <2>2, <2>3, <2>4, SettledBySaving
  <1>9. CASE LlmAnswers
    <2>1. Answer \in Message /\ Answer.kind \notin {"calls", "result"}
      BY MessageTypes DEF Answer
    <2>2. messages' = Append(messages, Answer) /\ WaitingNow = {} /\ WaitingNow' = {}
          /\ saved' = saved /\ pc \notin {"idle", "restore"}
      BY <1>9 DEF LlmAnswers, WaitingNow
    <2>3. SettledBut(messages', {})
      BY <1>0, <1>a, <2>1, <2>2, SettledOther
    <2> QED BY <2>2, <2>3, SettledUnsaved
  <1>10. CASE Complete
    <2>1. messages' = messages /\ WaitingNow = {} /\ WaitingNow' = {}
          /\ saved' = State(turn + 1, "completed", messages', {}) /\ pc \notin {"idle", "restore"}
      BY <1>10 DEF Complete, WaitingNow
    <2>2. SettledBut(messages', {})
      BY <1>a, <2>1
    <2> QED BY <2>1, <2>2, SettledBySaving
  <1>11. CASE \E n \in 1..MaxCalls : LlmCalls(n)
    <2> PICK n \in 1..MaxCalls : LlmCalls(n)
      BY <1>11
    <2>0. n \in Nat
      OBVIOUS
    <2>1. messages' = Append(messages, Calls(pending')) /\ WaitingNow = {} /\ WaitingNow' = pending'
          /\ saved' = State(turn, "tools_pending", messages', pending')
          /\ pc \notin {"idle", "restore"}
      BY DEF LlmCalls, WaitingNow, Save
    <2>2. pending' \in SUBSET Call
      BY <1>0, <2>0, NewCallsType DEF LlmCalls
    <2>3. \A c \in pending' : ~(c.no <= Issued)
      <3>1. Issued \in Nat
        BY <1>0 DEF Issued
      <3> QED BY <2>0, <3>1 DEF LlmCalls, NewCalls
    <2>4. Requested(messages) \cap pending' = {}
      BY <2>3 DEF CallInv, Numbered
    <2>5. SettledBut(messages', pending')
      BY <1>0, <1>a, <2>1, <2>2, <2>4, SettledCalls
    <2> QED BY <2>1, <2>5, SettledBySaving
  <1>12. CASE \E c \in pending : Record(c)
    <2> PICK c \in pending : Record(c)
      BY <1>12
    <2>1. messages' = Append(messages, Result({c})) /\ WaitingNow = pending /\ WaitingNow' = pending'
          /\ saved' = State(turn, "tools_pending", messages', pending')
          /\ pc \notin {"idle", "restore"}
      BY DEF Record, WaitingNow
    <2>2. pending' = pending \ {c}
      <3>1. \A d \in pending : d.id = d.no
        BY DEF CallInv, Numbered
      <3>2. \A d \in pending : d.id = c.id => d = c
        BY <1>0, <3>1 DEF Call
      <3> QED BY <3>2 DEF Record
    <2>3. SettledBut(messages', pending')
      BY <1>0, <1>a, <2>1, <2>2, SettledResult
    <2> QED BY <2>1, <2>3, SettledBySaving
  <1> QED
    BY <1>1, <1>2, <1>3, <1>4, <1>5, <1>6, <1>7, <1>8, <1>9, <1>10, <1>11, <1>12
    DEF Next, Run, Turn, Batch, Finish, Exhausted, Raises, Idles

-----------------------------------------------------------------------------

\* A transcript without waiting calls is settled.
LEMMA SettledWithoutWaiting ==
    ASSUME NEW s \in Seq(Message), SettledBut(s, {})
    PROVE  Settled(s)
  BY DEF SettledBut, Settled

LEMMA InitInv == Init => IInv
  <1> SUFFICES ASSUME Init PROVE IInv
    OBVIOUS
  <1>1. TypeOK
    BY TypeInit
  <1>2. /\ messages = <<>> /\ saved = None /\ effects = <<>> /\ pc = "idle" /\ taken = {}
        /\ pending = {} /\ mail = [m \in Mail |-> "absent"]
    BY DEF Init
  <1>3. Said(messages) = {} /\ Issued = 0
    BY <1>2 DEF Said, Issued
  <1>4. SavedInv /\ CallInv /\ BatchInv
    BY <1>2, <1>3 DEF SavedInv, CallInv, BatchInv, Numbered, Requested
  <1>5. MailInv /\ MailInOrder
    BY <1>2, <1>3 DEF MailInv, MailInOrder, Ordered
  <1>6. SettledInv /\ EffectsOnce /\ EffectsKnown
    BY <1>2, <1>3 DEF SettledInv, EffectsOnce, EffectsKnown
  <1> QED BY <1>1, <1>4, <1>5, <1>6 DEF IInv

LEMMA NextInv == IInv /\ [Next]_vars => IInv'
  <1> SUFFICES ASSUME IInv, [Next]_vars PROVE IInv'
    OBVIOUS
  <1> USE DEF IInv
  <1>1. TypeOK'
    BY TypeStep
  <1>2. SavedInv' /\ CallInv' /\ BatchInv'
    BY SavedStep, CallStep, BatchStep
  <1>3. MailInv' /\ MailInOrder' /\ SettledInv'
    BY MailStep, SettledStep
  <1>4. EffectsOnce' /\ EffectsKnown'
    BY EffectsOnceStep, EffectsKnownStep
  <1> QED BY <1>1, <1>2, <1>3, <1>4

\* The inductive invariant holds for any number of turns, calls, messages, crashes and
\* resumes, and whether or not ids repeat.
THEOREM Invariance == Spec => []IInv
  BY InitInv, NextInv, PTL DEF Spec

\* Every variable keeps its type.
THEOREM TypeCorrect == Spec => []TypeOK
  <1>1. IInv => TypeOK
    BY DEF IInv
  <1> QED BY Invariance, <1>1, PTL

\* No tool call has its effect twice, whatever crashes, errors and resumes do to its batch.
THEOREM ToolsRunOnce == Spec => []EffectsOnce
  <1>1. IInv => EffectsOnce
    BY DEF IInv
  <1> QED BY Invariance, <1>1, PTL

\* A tool call that had its effect is in the durable transcript.
THEOREM ToolsAreKnown == Spec => []EffectsKnown
  <1>1. IInv => EffectsKnown
    BY DEF IInv
  <1> QED BY Invariance, <1>1, PTL

\* Together: tool calls have their effects once, and never unknown to the transcript.
THEOREM EffectsAreSound == Spec => []EffectsSound
  <1>1. IInv => EffectsSound
    BY DEF IInv, EffectsSound
  <1> QED BY Invariance, <1>1, PTL

\* If ids do not repeat, the model is only asked with transcripts in which every call has
\* exactly one result, in its place.
THEOREM ModelIsNotConfused == Spec => []ModelSeesSettled
  <1>1. IInv => ModelSeesSettled
    BY SettledWithoutWaiting DEF IInv, TypeOK, SettledInv, ModelSeesSettled
  <1> QED BY Invariance, <1>1, PTL

\* Mailbox messages of one kind are read once and in the order of their rows.
THEOREM MailIsOrdered == Spec => []MailInOrder
  <1>1. IInv => MailInOrder
    BY DEF IInv
  <1> QED BY Invariance, <1>1, PTL

\* No step, crash or resume rewrites a transcript that was saved.
THEOREM TranscriptGrows == Spec => CheckpointGrows
  <1>1. IInv /\ [Next]_vars =>
          [saved # None =>
             /\ saved' # None
             /\ Len(saved.messages) <= Len(saved'.messages)
             /\ \A i \in DOMAIN saved.messages : saved'.messages[i] = saved.messages[i]]_vars
    BY GrowsStep DEF IInv, Grows, Prefix
  <1> QED BY Invariance, <1>1, PTL DEF Spec, CheckpointGrows

=============================================================================
