---------------------------- MODULE AgentRuntime ----------------------------
(***************************************************************************)
(* One agent run and its checkpoint: AgentRuntime.run with its transcript, *)
(* model turns, tool batches and mailbox, executed by a worker that may    *)
(* crash between any two commits, recovered after a restart, or failed and *)
(* resumed by the user with or without a new message.                      *)
(*                                                                         *)
(* A step reaches from one durable effect (a commit, or the side effect of *)
(* a tool) to the next.  What a step does not commit is lost by Crash and  *)
(* by Raises.  TaskLifecycle models who may run the task; here it runs in  *)
(* one place at a time.                                                    *)
(***************************************************************************)
EXTENDS Naturals, Sequences, FiniteSets

CONSTANTS
    Prompt,     \* messages a user may resume with
    First,      \* the message the task was created with
    Mail,       \* mailbox messages, numbered in the order of their rows
    Steering,   \* the mailbox messages of kind "steering"; the others are "follow_up"
    None,       \* "no value"
    MaxTurns,   \* max_turns of the runtime
    MaxCalls,   \* tool calls in one model response
    FreshIds,   \* the provider never uses a tool call id twice
    Split,      \* the worker is another process than the API
    MaxCrashes, \* bound on crashes
    MaxResumes  \* bound on resumes

ASSUME AgentAssumption ==
    /\ Mail \subseteq Nat /\ Steering \subseteq Mail
    /\ None \notin Prompt /\ First \notin Prompt /\ First # None
    /\ "no" \notin Prompt \cup {None}
    /\ MaxTurns \in Nat \ {0} /\ MaxCalls \in Nat \ {0}
    /\ FreshIds \in BOOLEAN /\ Split \in BOOLEAN
    /\ MaxCrashes \in Nat /\ MaxResumes \in Nat

VARIABLES
    status,    \* agent_tasks.status
    saved,     \* agent_tasks.checkpoint_json
    request,   \* request_json["resume_prompt"]
    mail,      \* task_mailbox_messages.status
    resuming,  \* the resume handler between its two commits: the prompt it will store
    pc,        \* where run() is
    prompt,    \* the prompt argument of the run
    messages,  \* self.messages
    turn,      \* turn_index
    limit,     \* turn_limit
    pending,   \* pending_calls
    mode,      \* how each prepared call is to be executed
    finished,  \* calls of the batch that were executed
    taken,     \* mailbox messages consumed but not yet in the transcript
    effects,   \* history: executions of each tool call ever requested
    crashes, resumes

row   == <<status, saved, request, mail>>
run   == <<pc, prompt, messages, turn, limit, pending, mode, finished, taken>>
bound == <<crashes, resumes>>
vars  == <<status, saved, request, mail, resuming, pc, prompt, messages, turn, limit,
           pending, mode, finished, taken, effects, crashes, resumes>>

(***************************************************************************)
(* The transcript.  A "calls" message holds the calls of one assistant     *)
(* message, a "result" message stands for a ToolResult of each of its      *)
(* calls, a "mail" message for the user message of each of its rows.       *)
(***************************************************************************)

Call     == [no : Nat \ {0}, id : Nat \ {0}]
Kind     == {"user", "answer", "calls", "result", "mail"}
Message  == [kind : Kind, text : Prompt \cup {First, None}, calls : SUBSET Call,
             mail : SUBSET Mail]
User(p)  == [kind |-> "user", text |-> p, calls |-> {}, mail |-> {}]
Answer   == [kind |-> "answer", text |-> None, calls |-> {}, mail |-> {}]
Calls(S) == [kind |-> "calls", text |-> None, calls |-> S, mail |-> {}]
Result(S) == [kind |-> "result", text |-> None, calls |-> S, mail |-> {}]
Letters(M) == [kind |-> "mail", text |-> None, calls |-> {}, mail |-> M]

\* A message without calls and rows is not appended.
With(msgs, m) == IF m.calls = {} /\ m.mail = {} THEN msgs ELSE Append(msgs, m)
Said(msgs) == {msgs[i] : i \in DOMAIN msgs}

Phase      == {"before_llm", "tools_pending", "after_tools", "completed"}
Checkpoint == [turn : Nat, phase : Phase, messages : Seq(Message), pending : SUBSET Call]
State(n, phase, msgs, calls) ==
    [turn |-> n, phase |-> phase, messages |-> msgs, pending |-> calls]

ASSUME NoneAssumption == None \notin Checkpoint

PC    == {"idle", "restore", "prompt", "turn", "steered", "llm", "replied", "answer", "prepare",
          "batch", "tools", "answered"}
Mode  == {"refused", "alone", "parallel"}
Issued == Len(effects)

Init ==
    /\ status = "queued"
    /\ saved = None
    /\ request = None
    /\ mail = [m \in Mail |-> "absent"]
    /\ resuming = "no"
    /\ pc = "idle"
    /\ prompt = None
    /\ messages = <<>>
    /\ turn = 0
    /\ limit = MaxTurns
    /\ pending = {}
    /\ mode = <<>>
    /\ finished = {}
    /\ taken = {}
    /\ effects = <<>>
    /\ crashes = 0
    /\ resumes = 0

(***************************************************************************)
(* The user.                                                               *)
(***************************************************************************)

\* enqueue_message, for a task that has not ended.
Send(m) ==
    /\ mail[m] = "absent"
    /\ \A n \in Mail : n < m => mail[n] # "absent"
    /\ status \in {"queued", "running"}
    /\ mail' = [mail EXCEPT ![m] = "pending"]
    /\ UNCHANGED <<status, saved, request, resuming, effects>>
    /\ UNCHANGED run /\ UNCHANGED bound

\* "failed" stands for failed, cancelled and interrupted.  A message equal to the original
\* prompt (p = None) only resumes the checkpoint.
Resume(p) ==
    /\ resumes < MaxResumes
    /\ status = "failed" /\ saved # None /\ resuming = "no"
    /\ resumes' = resumes + 1
    /\ status' = "queued"
    /\ resuming' = p
    /\ UNCHANGED <<saved, request, mail, effects, crashes>>
    /\ UNCHANGED run

\* The handler's second commit, after which the id is enqueued.
StorePrompt ==
    /\ resuming # "no"
    /\ request' = resuming
    /\ resuming' = "no"
    /\ UNCHANGED <<status, saved, mail, effects>>
    /\ UNCHANGED run /\ UNCHANGED bound

(***************************************************************************)
(* The start of a run.                                                     *)
(***************************************************************************)

\* Claimed by a worker: in a process of its own it need not wait for the handler.
Start ==
    /\ pc = "idle" /\ status = "queued"
    /\ Split \/ resuming = "no"
    /\ status' = "running"
    /\ prompt' = IF saved = None THEN First ELSE request
    /\ pc' = "restore"
    /\ UNCHANGED <<saved, request, mail, resuming, effects>>
    /\ UNCHANGED <<messages, turn, limit, pending, mode, finished, taken>>
    /\ UNCHANGED bound

\* A first run: the prompt is the transcript.
Begin ==
    /\ pc = "restore" /\ saved = None
    /\ messages' = <<User(prompt)>>
    /\ turn' = 0
    /\ saved' = State(0, "before_llm", messages', {})
    /\ pc' = "turn"
    /\ UNCHANGED <<status, request, mail, resuming, effects>>
    /\ UNCHANGED <<prompt, limit, pending, mode, finished, taken>>
    /\ UNCHANGED bound

\* Mutants: the transcript is replaced by the prompt; a call that may have run gets no
\* result.
OnlyPrompt(c) == <<User(First)>>
NoneUnanswered(c) == {}

\* The pending calls no result names, told by their ids.
Unanswered(c) ==
    LET known == UNION {m.calls : m \in {n \in Said(c.messages) : n.kind = "result"}}
    IN  {x \in c.pending : \A y \in known : y.id # x.id}

Transcript(c) == c.messages

\* A run that finds a checkpoint.  Interrupted calls get an "uncertain" result and are
\* not repeated.
Restore ==
    /\ pc = "restore" /\ saved # None
    /\ IF saved.phase = "tools_pending"
       THEN /\ messages' = With(Transcript(saved), Result(Unanswered(saved)))
            /\ turn' = saved.turn + 1
            /\ saved' = State(turn', "after_tools", messages', {})
       ELSE /\ messages' = Transcript(saved)
            /\ turn' = saved.turn
            /\ saved' = saved
    /\ pc' = CASE prompt # None -> "prompt"
               [] prompt = None /\ saved.phase = "completed" -> "answered"
               [] OTHER -> "turn"
    /\ UNCHANGED <<status, request, mail, resuming, effects>>
    /\ UNCHANGED <<prompt, limit, pending, mode, finished, taken>>
    /\ UNCHANGED bound

\* The message the user resumed with.
AppendPrompt ==
    /\ pc = "prompt"
    /\ messages' = Append(messages, User(prompt))
    /\ saved' = State(turn, "before_llm", messages', {})
    /\ pc' = "turn"
    /\ UNCHANGED <<status, request, mail, resuming, effects>>
    /\ UNCHANGED <<prompt, turn, limit, pending, mode, finished, taken>>
    /\ UNCHANGED bound

(***************************************************************************)
(* A turn.                                                                 *)
(***************************************************************************)

\* Mutant: consumed rows stay pending.
NotMarked(box, M) == box

Mark(box, M) == [m \in Mail |-> IF m \in M THEN "consumed" ELSE box[m]]

\* consume_messages commits what it takes; after a database error it takes nothing.
Consume(kinds) ==
    \E M \in {{}, {m \in kinds : mail[m] = "pending"}} :
        /\ taken' = M
        /\ mail' = Mark(mail, M)

TurnStart ==
    /\ pc = "turn" /\ turn < limit
    /\ Consume(Steering)
    /\ pc' = "steered"
    /\ UNCHANGED <<status, saved, request, resuming, effects>>
    /\ UNCHANGED <<prompt, messages, turn, limit, pending, mode, finished>>
    /\ UNCHANGED bound

\* Every consumption that took something allows one more turn.
Extended(n) == IF taken = {} THEN n ELSE n + 1

Steered ==
    /\ pc = "steered"
    /\ messages' = With(messages, Letters(taken))
    /\ limit' = Extended(limit)
    /\ taken' = {}
    /\ saved' = State(turn, "before_llm", messages', {})
    /\ pc' = "llm"
    /\ UNCHANGED <<status, request, mail, resuming, effects>>
    /\ UNCHANGED <<prompt, turn, pending, mode, finished>>
    /\ UNCHANGED bound

\* Mutant: calls are counted from zero.
FromZero(n) == {[no |-> Issued + k - 1, id |-> k] : k \in 1..n}

\* The calls of one response, numbered over the life of the task.
NewCalls(n) == {[no |-> Issued + k, id |-> IF FreshIds THEN Issued + k ELSE k] : k \in 1..n}

\* Mutant: the checkpoint before a batch is left out.
Unsaved(c) == saved
Save(c) == c

\* A response with tool calls is saved before any of them is prepared.
LlmCalls(n) ==
    /\ pc = "llm"
    /\ pending' = NewCalls(n)
    /\ messages' = Append(messages, Calls(pending'))
    /\ effects' = effects \o [k \in 1..n |-> 0]
    /\ saved' = Save(State(turn, "tools_pending", messages', pending'))
    /\ pc' = "prepare"
    /\ UNCHANGED <<status, request, mail, resuming>>
    /\ UNCHANGED <<prompt, turn, limit, mode, finished, taken>>
    /\ UNCHANGED bound

\* A response without: the mailbox may ask for more.
LlmAnswers ==
    /\ pc = "llm"
    /\ messages' = Append(messages, Answer)
    /\ Consume(Mail)
    /\ pc' = "replied"
    /\ UNCHANGED <<status, saved, request, resuming, effects>>
    /\ UNCHANGED <<prompt, turn, limit, pending, mode, finished>>
    /\ UNCHANGED bound

Continue ==
    /\ pc = "replied" /\ taken # {}
    /\ messages' = With(messages, Letters(taken))
    /\ turn' = turn + 1
    /\ limit' = Extended(limit)
    /\ taken' = {}
    /\ saved' = State(turn', "before_llm", messages', {})
    /\ pc' = "turn"
    /\ UNCHANGED <<status, request, mail, resuming, effects>>
    /\ UNCHANGED <<prompt, pending, mode, finished>>
    /\ UNCHANGED bound

Complete ==
    /\ pc = "replied" /\ taken = {}
    /\ saved' = State(turn + 1, "completed", messages, {})
    /\ pc' = "answered"
    /\ UNCHANGED <<status, request, mail, resuming, effects>>
    /\ UNCHANGED <<prompt, messages, turn, limit, pending, mode, finished, taken>>
    /\ UNCHANGED bound

(***************************************************************************)
(* A tool batch.                                                           *)
(***************************************************************************)

\* Unknown tools, hooks, permissions and approvals refuse calls; the others run in the
\* execution mode of their tool.
Prepare ==
    /\ pc = "prepare"
    /\ mode' \in [pending -> Mode]
    /\ finished' = {}
    /\ pc' = "batch"
    /\ UNCHANGED <<row, resuming, effects>>
    /\ UNCHANGED <<prompt, messages, turn, limit, pending, taken>>
    /\ UNCHANGED bound

\* The first call without a result, and the calls gathered with it.
Due(c) == c \in pending /\ \A d \in pending : c.no <= d.no
Group(c) ==
    IF mode[c] # "parallel" THEN {c}
    ELSE {d \in pending : \A e \in pending : e.no <= d.no => mode[e] = "parallel"}

\* Mutant: a call is executed although it was.
Again(c) == TRUE

NotYet(c) == c \notin finished

\* A tool of the current group has its effect.
Execute(c, d) ==
    /\ pc = "batch" /\ Due(c)
    /\ d \in Group(c) /\ mode[d] # "refused" /\ NotYet(d)
    /\ effects' = [effects EXCEPT ![d.no] = @ + 1]
    /\ finished' = finished \cup {d}
    /\ UNCHANGED <<row, resuming>>
    /\ UNCHANGED <<pc, prompt, messages, turn, limit, pending, mode, taken>>
    /\ UNCHANGED bound

\* The whole group is awaited; results are recorded and saved one by one, in call order.
Record(c) ==
    /\ pc = "batch" /\ Due(c)
    /\ mode[c] = "refused" \/ Group(c) \subseteq finished
    /\ messages' = Append(messages, Result({c}))
    /\ pending' = {d \in pending : d.id # c.id}
    /\ saved' = State(turn, "tools_pending", messages', pending')
    /\ UNCHANGED <<status, request, mail, resuming, effects>>
    /\ UNCHANGED <<pc, prompt, turn, limit, mode, finished, taken>>
    /\ UNCHANGED bound

BatchEnds ==
    /\ pc = "batch" /\ pending = {}
    /\ Consume(Steering)
    /\ pc' = "tools"
    /\ UNCHANGED <<status, saved, request, resuming, effects>>
    /\ UNCHANGED <<prompt, messages, turn, limit, pending, mode, finished>>
    /\ UNCHANGED bound

AfterTools ==
    /\ pc = "tools"
    /\ messages' = With(messages, Letters(taken))
    /\ limit' = Extended(limit)
    /\ taken' = {}
    /\ turn' = turn + 1
    /\ saved' = State(turn', "after_tools", messages', {})
    /\ mode' = <<>> /\ finished' = {}
    /\ pc' = "turn"
    /\ UNCHANGED <<status, request, mail, resuming, effects>>
    /\ UNCHANGED <<prompt, pending>>
    /\ UNCHANGED bound

(***************************************************************************)
(* The end of a run.                                                       *)
(***************************************************************************)

\* The coroutine is gone, with everything it did not commit.
Gone ==
    /\ pc' = "idle" /\ prompt' = None /\ messages' = <<>> /\ turn' = 0
    /\ limit' = MaxTurns /\ pending' = {} /\ mode' = <<>> /\ finished' = {}
    /\ taken' = {}

Ends(s) ==
    /\ status' = s
    /\ Gone
    /\ UNCHANGED <<saved, request, mail, resuming, effects>>
    /\ UNCHANGED bound

\* The executor persists the answer and finishes the task.
Finish == pc = "answered" /\ Ends("completed")

\* "AgentRuntime exceeded max_turns": text streamed beside the tool calls of this run, if
\* there was any, counts as the answer.
Exhausted == pc = "turn" /\ turn >= limit /\ \E s \in {"completed", "failed"} : Ends(s)

\* TaskCancelled, a provider, hook or database error; the task can be resumed.
Raises == pc # "idle" /\ Ends("failed")

\* The process dies; the recovery of the next one queues the row again.
Crash ==
    /\ crashes < MaxCrashes
    /\ crashes' = crashes + 1
    /\ status' = IF status = "running" THEN "queued" ELSE status
    /\ resuming' = IF Split THEN resuming ELSE "no"
    /\ Gone
    /\ UNCHANGED <<saved, request, mail, effects, resumes>>

\* The worker waits for a task.
Idles ==
    /\ pc = "idle" /\ status \in {"completed", "failed"}
    /\ UNCHANGED vars

-----------------------------------------------------------------------------

Batch == Prepare \/ BatchEnds \/ AfterTools \/ \E c \in pending :
            Record(c) \/ \E d \in pending : Execute(c, d)
Turn  == TurnStart \/ Steered \/ LlmAnswers \/ Continue \/ Complete \/ Batch
            \/ \E n \in 1..MaxCalls : LlmCalls(n)
Run   == Start \/ Begin \/ Restore \/ AppendPrompt \/ Turn \/ Finish \/ Exhausted

Next ==
    \/ Run \/ Raises \/ Crash \/ StorePrompt \/ Idles
    \/ \E m \in Mail : Send(m)
    \/ \E p \in Prompt \cup {None} : Resume(p)

Spec == Init /\ [][Next]_vars

(***************************************************************************)
(* Properties.                                                             *)
(***************************************************************************)

\* Every variable stays in its domain.
TypeOK ==
    /\ status \in {"queued", "running", "failed", "completed"}
    /\ saved = None \/ saved \in Checkpoint
    /\ request \in Prompt \cup {None}
    /\ mail \in [Mail -> {"absent", "pending", "consumed"}]
    /\ resuming \in Prompt \cup {None, "no"}
    /\ pc \in PC
    /\ prompt \in Prompt \cup {First, None}
    /\ messages \in Seq(Message)
    /\ turn \in Nat /\ limit \in Nat
    /\ pending \in SUBSET Call
    /\ DOMAIN mode \subseteq Call /\ mode \in [DOMAIN mode -> Mode]
    /\ finished \in SUBSET Call
    /\ taken \in SUBSET Mail
    /\ effects \in Seq(Nat)
    /\ crashes \in Nat /\ resumes \in Nat

\* Every tool call has its effect at most once, whatever crashes, errors and resumes fall
\* into its batch, and one that has had it is in the durable transcript, so that no restart
\* can leave the model unaware of it (runtime.py checkpoints, _restore_pending_tool_results).
EffectsOnce == \A n \in 1..Issued : effects[n] <= 1
EffectsKnown ==
    \A n \in 1..Issued : effects[n] > 0 =>
        /\ saved # None
        /\ \E m \in Said(saved.messages) : m.kind = "calls" /\ \E c \in m.calls : c.no = n
EffectsSound == EffectsOnce /\ EffectsKnown

\* Each call of a transcript has exactly one result, with nothing but results between.
Settled(msgs) ==
    \A i \in DOMAIN msgs : msgs[i].kind = "calls" => \A c \in msgs[i].calls :
        \E j \in DOMAIN msgs :
            /\ i < j
            /\ \A k \in (i + 1)..j : msgs[k].kind = "result"
            /\ \A k \in DOMAIN msgs :
                  msgs[k].kind = "result" /\ c \in msgs[k].calls <=> k = j

\* With call ids that are not used twice, the model never sees a transcript with an
\* unanswered or doubly answered call, on any path through restore, steering and resume.
ModelSeesSettled == FreshIds /\ pc = "llm" => Settled(messages)

\* Messages of one kind are read in the order in which they were accepted, each once.
SameKind(m, n) == m \in Steering <=> n \in Steering
Ordered(msgs) ==
    \A i, j \in DOMAIN msgs : i < j =>
        \A m \in msgs[i].mail, n \in msgs[j].mail : SameKind(m, n) => m < n
MailInOrder == Ordered(messages)

\* The durable transcript only grows: no restart, resume or error rewrites what an earlier
\* run has saved.
CheckpointGrows ==
    [][saved # None =>
          /\ saved' # None
          /\ Len(saved.messages) <= Len(saved'.messages)
          /\ \A i \in DOMAIN saved.messages : saved'.messages[i] = saved.messages[i]]_vars

(***************************************************************************)
(* Why they hold: the parts of an inductive invariant.                     *)
(***************************************************************************)

\* What the run has in memory is what it has saved, but for an answer it may still drop.
SavedInv ==
    /\ pc \notin {"idle", "restore", "replied"} => saved # None /\ messages = saved.messages
    /\ pc = "replied" => saved # None /\ messages = Append(saved.messages, Answer)

\* The calls of a transcript are numbered by requests.
Numbered(S) == \A c \in S : c.no <= Issued /\ (FreshIds => c.id = c.no)
Requested(msgs) == UNION {m.calls : m \in Said(msgs)}
CallInv ==
    /\ Numbered(Requested(messages) \cup pending)
    /\ saved # None => Numbered(Requested(saved.messages) \cup saved.pending)

\* The calls that wait are different ones, are known, and had no effect before they finish.
BatchInv ==
    pc \in {"prepare", "batch"} => \A c \in pending :
        /\ \E m \in Said(messages) : m.kind = "calls" /\ c \in m.calls
        /\ \A d \in pending : d.no = c.no => d = c
        /\ pc = "prepare" \/ c \notin finished => effects[c.no] = 0

\* Rows are taken in the order of their numbers, kind by kind, and read in that order.
MailInv ==
    /\ \A m, n \in Mail : m < n /\ mail[m] = "absent" => mail[n] = "absent"
    /\ \A m, n \in Mail :
          SameKind(m, n) /\ mail[m] = "consumed" /\ mail[n] # "consumed" => m < n
    /\ \A m \in taken : mail[m] = "consumed"
    /\ pc \notin {"steered", "replied", "tools"} => taken = {}
    /\ \A x \in Said(messages) : \A m \in x.mail :
          mail[m] = "consumed" /\ \A n \in taken : SameKind(m, n) => m < n
    /\ saved # None =>
          /\ Ordered(saved.messages)
          /\ \A x \in Said(saved.messages) : \A m \in x.mail : mail[m] = "consumed"

\* A transcript in which the calls of P still wait for their results.
SettledBut(msgs, P) ==
    /\ \A i \in DOMAIN msgs : msgs[i].kind = "calls" => \A c \in msgs[i].calls :
          IF c \in P THEN \A k \in (i + 1)..Len(msgs) : msgs[k].kind = "result"
          ELSE \E j \in DOMAIN msgs :
                  /\ i < j
                  /\ \A k \in (i + 1)..j : msgs[k].kind = "result"
                  /\ \A k \in DOMAIN msgs :
                        msgs[k].kind = "result" /\ c \in msgs[k].calls <=> k = j
    /\ \A k \in DOMAIN msgs : msgs[k].kind = "result" => msgs[k].calls \cap P = {}

Waiting(c) == IF c.phase = "tools_pending" THEN c.pending ELSE {}
SettledInv ==
    FreshIds =>
        /\ pc \notin {"idle", "restore"} =>
              SettledBut(messages, IF pc \in {"prepare", "batch"} THEN pending ELSE {})
        /\ saved # None => SettledBut(saved.messages, Waiting(saved))

\* What holds between any two steps of a run, its crashes and its resumes.
IInv ==
    /\ TypeOK /\ SavedInv /\ CallInv /\ BatchInv /\ MailInv /\ SettledInv
    /\ EffectsOnce /\ EffectsKnown /\ MailInOrder

=============================================================================
