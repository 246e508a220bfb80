---------------------------- MODULE ContextWindow ----------------------------
(* What fits into a model's context. Each turn gives the model the messages  *)
(* of the agent loop, which stay as they are, or when they are too many a     *)
(* summary and the newest of them, or a deterministic cut. Between runs the  *)
(* stored messages of a conversation are folded into its summary. Costs stand *)
(* for estimated tokens.                                                     *)
EXTENDS Naturals, FiniteSets, SequencesExt

CONSTANTS
    MaxTokens,   \* the budget, at least 1024; compaction starts above its trigger share
    Trigger,     \* int(max_tokens * ratio)
    Overhead,    \* tokens counted for each message beside its content
    Costs,       \* costs of messages, the overhead included
    MaxLength,   \* bound: messages in the loop, and messages stored
    Recent,      \* context_recent_messages
    TriggerCount,\* messages after the summary that start a fold
    Preparer,    \* runs that prepare their history
    Nobody       \* initial place of a preparer

ASSUME ContextAssumption ==
    /\ {MaxTokens, Trigger, Overhead, MaxLength, Recent, TriggerCount} \subseteq Nat
    /\ Trigger <= MaxTokens /\ Overhead < MaxTokens \div 3 /\ 0 < Recent
    /\ \A c \in Costs : c \in Nat /\ c > Overhead

VARIABLES
    messages,    \* the loop's messages: role and cost
    given,       \* the messages the model was given this turn, and how they were made
    summary,     \* the stored summary: the messages it covers, summary_until
    history,     \* how many messages the conversation has
    preparer     \* per run: the rows it read, and what it returned

contextVars == <<messages, given, summary, history, preparer>>
loopVars == <<messages, given>>
storeVars == <<summary, history, preparer>>

Cost(ms) == FoldSeq(LAMBDA m, sum : m.cost + sum, 0, ms)
Suffix(ms, i) == SubSeq(ms, i, Len(ms))
Least(set) == CHOOSE i \in set : \A j \in set : i <= j
Greatest(set) == CHOOSE i \in set : \A j \in set : j <= i

Message(role, cost) == [role |-> role, cost |-> cost]
Nothing == [how |-> "nothing", messages |-> <<>>]

\* The prompt of the user, behind the summary of a folded conversation.
ContextInit ==
    /\ \E cost \in Costs :
           LET prompt == Message("user", cost)
           IN  messages \in {<<prompt>>} \union {<<Message("system", c), prompt>> : c \in Costs}
    /\ given = Nothing
    /\ summary = [covers |-> {}, until |-> 0] /\ history = 0
    /\ preparer = [p \in Preparer |-> [pc |-> Nobody, rows |-> {}, base |-> {}, gives |-> {}]]

(* The end of a turn: the assistant's message, and the results of its calls or
   a message that was waiting in the mailbox. *)
Turn(assistant, role, more) ==
    /\ given # Nothing /\ Len(messages) + 1 + Len(more) <= MaxLength
    /\ messages' = Append(messages, Message("assistant", assistant))
                   \o [i \in DOMAIN more |-> Message(role, more[i])]
    /\ given' = Nothing /\ UNCHANGED storeVars

(* fit_llm_messages: a leading system message, cut to a third of the budget,
   and as many of the newest messages as fit; the newest one is cut to fit. *)
Share == MaxTokens \div 3
HeadOf(ms) ==
    IF ms[1].role # "system" THEN <<>>
    ELSE IF ms[1].cost > Share THEN <<[ms[1] EXCEPT !.cost = Share + Overhead]>>
    ELSE <<ms[1]>>
\* Mutant: the summary in front is not counted.
WholeBudget(ms) == MaxTokens
Remaining(ms) == MaxTokens - Cost(HeadOf(ms))
Newest(ms, room) ==
    IF ms = <<>> THEN <<>>
    ELSE IF Last(ms).cost > room THEN <<[Last(ms) EXCEPT !.cost = room]>>
    ELSE Suffix(ms, Least({i \in 1..Len(ms) : Cost(Suffix(ms, i)) <= room}))
Fit(ms) ==
    IF Cost(ms) <= MaxTokens THEN ms
    ELSE HeadOf(ms) \o Newest(Suffix(ms, Len(HeadOf(ms)) + 1), Remaining(ms))

(* compact_llm_messages: the newest messages within half of the budget, and
   further back while the first of them is a tool result. *)
KeepFrom(ms) ==
    Least({i \in 1..Len(ms) : i = Len(ms) \/ Cost(Suffix(ms, i)) <= MaxTokens \div 2})
BackToCall(ms, start) ==
    LET calls == {i \in 1..start : ms[i].role # "tool"}
    IN  IF calls = {} THEN 1 ELSE Greatest(calls)
Compacted(ms, cost) ==
    <<Message("system", cost)>> \o Suffix(ms, BackToCall(ms, KeepFrom(ms)))
Compact(ok, cost) ==
    LET recent == BackToCall(messages, KeepFrom(messages))
        summed == Compacted(messages, cost)
    IN  /\ given = Nothing
        /\ given' = IF Cost(messages) <= Trigger THEN [how |-> "whole", messages |-> messages]
                    ELSE IF recent = 1 \/ ~ok THEN [how |-> "cut", messages |-> Fit(messages)]
                    ELSE [how |-> IF Cost(summed) > MaxTokens THEN "cut" ELSE "summary",
                          messages |-> Fit(summed)]
        /\ UNCHANGED messages /\ UNCHANGED storeVars

(* prepare: the messages after the summary are read; with too many of them, or
   too many tokens ("long"), all but the recent ones are merged into the summary, in one commit. *)
StoreMessage ==
    /\ history < MaxLength /\ history' = history + 1
    /\ UNCHANGED <<loopVars, summary, preparer>>
ReadHistory(p) ==
    /\ preparer[p].pc # "read"
    /\ preparer' = [preparer EXCEPT ![p] = [pc |-> "read", rows |-> summary.until + 1 .. history,
           base |-> summary.covers, gives |-> {}]]
    /\ UNCHANGED <<loopVars, summary, history>>
Older(rows) == {n \in rows : n + Recent <= Greatest(rows)}
FoldHistory(p, long) ==
    LET rows == preparer[p].rows
        fold == (long \/ Cardinality(rows) > TriggerCount) /\ Older(rows) # {}
    IN  /\ preparer[p].pc = "read"
        /\ summary' = IF fold THEN [covers |-> preparer[p].base \union Older(rows),
                                    until |-> Greatest(Older(rows))]
                      ELSE summary
        /\ preparer' = [preparer EXCEPT ![p].pc = "done", ![p].gives = rows \union preparer[p].base]
        /\ UNCHANGED <<loopVars, history>>

LoopNext ==
    \/ \E assistant \in Costs : \E n \in 0..2 : \E more \in [1..n -> Costs] :
           Turn(assistant, "tool", more) \/ (n = 1 /\ Turn(assistant, "user", more))
    \/ \E ok \in BOOLEAN, cost \in Costs : Compact(ok, cost)
StoreNext == StoreMessage \/ \E p \in Preparer :
    ReadHistory(p) \/ \E long \in BOOLEAN : FoldHistory(p, long)
ContextNext == LoopNext \/ StoreNext
ContextSpec == ContextInit /\ [][ContextNext]_contextVars
----------------------------------------------------------------------------
ContextTypeOK ==
    /\ \A ms \in {messages, given.messages} :
           ms \in Seq([role: {"system", "user", "assistant", "tool"}, cost: Nat])
    /\ given.how \in {"nothing", "whole", "summary", "cut"} /\ history \in 0..MaxLength
    /\ summary \in [covers: SUBSET (1..MaxLength), until: 0..MaxLength]
    /\ preparer \in [Preparer -> [pc: {Nobody, "read", "done"}, rows: SUBSET (1..MaxLength),
                                  base: SUBSET (1..MaxLength), gives: SUBSET (1..MaxLength)]]

(* What the model is given fits into the budget and ends with the newest
   message; with a summary in front no tool result has lost its call; and a
   prepared history is the whole conversation up to its last message, each
   message summarised or present, although other runs fold the same history
   meanwhile (context.py compact, fit; services/context.py prepare). *)
WithinBudget == Cost(given.messages) <= MaxTokens
NewestGiven ==
    given # Nothing => given.messages # <<>> /\ Last(given.messages).role = Last(messages).role
Paired(ms) == \A i \in DOMAIN ms : ms[i].role = "tool" =>
                  i > 1 /\ ms[i - 1].role \in {"assistant", "tool"}
SummaryKeepsCalls == given.how = "summary" => Paired(given.messages)
HistoryIsWhole ==
    /\ summary.covers = 1..summary.until
    /\ \A p \in Preparer : preparer[p].pc = "done" =>
           \E n \in 0..history : preparer[p].gives = 1..n
ContextFits == WithinBudget /\ NewestGiven /\ SummaryKeepsCalls /\ HistoryIsWhole
=============================================================================
