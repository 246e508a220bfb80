---------------------------- MODULE Conversations ----------------------------
(* The conversations of one user: their messages, forks and branch tree, the *)
(* workspace each coding conversation owns, and the terminals that run in a  *)
(* workspace. A handler is split where it reads before it writes.            *)
EXTENDS Naturals, Sequences, FiniteSets

CONSTANTS
    Conversation,   \* identifiers of conversations rows; a row of an older version has no workspace
    Workspace,      \* workspace identifiers, drawn at random by the manager
    Visit,          \* requests in flight
    NoConversation, \* no parent
    NoWorkspace,    \* chatbot conversations, and nothing read
    MaxTerminals,   \* terminal_max_per_workspace
    MaxMessages     \* bound: messages written

ASSUME ConversationsAssumption ==
    /\ IsFiniteSet(Conversation) /\ NoConversation \notin Conversation /\ NoWorkspace \notin Workspace
    /\ MaxTerminals \in Nat \ {0} /\ MaxMessages \in Nat

VARIABLES
    conversation,  \* the rows: mode, workspace, parent, messages, how many a fork copied
    made,          \* the workspaces made so far
    terminals,     \* per workspace: how many terminals are open
    visit          \* per request: its place, conversation, workspace, messages read

conversationVars == <<conversation, made, terminals, visit>>

Absent == [mode |-> "absent", workspace |-> NoWorkspace, parent |-> NoConversation,
           copied |-> 0, messages |-> <<>>]
Nowhere == [pc |-> "idle", c |-> NoConversation, workspace |-> NoWorkspace, read |-> <<>>]
Present(c) == conversation[c].mode # "absent"
Written == UNION {{conversation[c].messages[i] : i \in DOMAIN conversation[c].messages} :
                  c \in Conversation}

ConversationsInit ==
    /\ \E old \in SUBSET Conversation :
           conversation = [c \in Conversation |->
               IF c \in old THEN [Absent EXCEPT !.mode = "coding-agent"] ELSE Absent]
    /\ made = {} /\ terminals = [w \in Workspace |-> 0]
    /\ visit = [v \in Visit |-> Nowhere]

(* manager.create and manager.fork: a new directory, before any row names it. *)
NewWorkspace(w) == w \in Workspace \ made /\ made' = made \union {w}

(* create_conversation and get_or_create without an id. *)
CreateConversation(c, mode, w) ==
    /\ ~Present(c)
    /\ IF mode = "coding-agent" THEN NewWorkspace(w) ELSE w = NoWorkspace /\ UNCHANGED made
    /\ conversation' = [conversation EXCEPT ![c] = [Absent EXCEPT !.mode = mode, !.workspace = w]]
    /\ UNCHANGED <<terminals, visit>>

(* A turn stores its message; the other fields follow single requests. *)
WriteMessage(c) ==
    LET n == Cardinality(Written)
    IN  /\ Present(c) /\ n < MaxMessages
        /\ conversation' = [conversation EXCEPT ![c].messages = Append(@, n + 1)]
        /\ UNCHANGED <<made, terminals, visit>>

(* ensure_workspace: the row is read; without a workspace one is made and
   stored, whatever another request stored meanwhile, and read again. *)
ReadConversation(v, c, pc) ==
    /\ visit[v] = Nowhere /\ Present(c)
    /\ visit' = [visit EXCEPT ![v] = [pc |-> pc, c |-> c,
           workspace |-> conversation[c].workspace,
           read |-> IF pc = "fork" THEN conversation[c].messages ELSE <<>>]]
    /\ UNCHANGED <<conversation, made, terminals>>
EnsureWorkspace(v, w) ==
    LET c == visit[v].c
    IN  /\ visit[v].pc = "terminal" /\ visit[v].workspace = NoWorkspace
        /\ conversation[c].mode = "coding-agent"
        /\ NewWorkspace(w)
        /\ conversation' = [conversation EXCEPT ![c].workspace = w]
        /\ visit' = [visit EXCEPT ![v].pc = "stored"]
        /\ UNCHANGED terminals
RereadWorkspace(v) ==
    /\ visit[v].pc = "stored"
    /\ visit' = [visit EXCEPT ![v].pc = "terminal",
                              ![v].workspace = conversation[visit[v].c].workspace]
    /\ UNCHANGED <<conversation, made, terminals>>

(* terminal_manager.create counts and adds under its lock. *)
CreateTerminal(v) ==
    LET w == visit[v].workspace
    IN  /\ visit[v].pc = "terminal" /\ w # NoWorkspace
        /\ terminals' = IF terminals[w] < MaxTerminals THEN [terminals EXCEPT ![w] = @ + 1]
                        ELSE terminals
        /\ visit' = [visit EXCEPT ![v] = Nowhere]
        /\ UNCHANGED <<conversation, made>>
\* Mutant: a terminal that is already gone is closed.
CloseAnyTerminal(w) ==
    /\ terminals' = [terminals EXCEPT ![w] = @ - 1]
    /\ UNCHANGED <<conversation, made, visit>>
CloseOneTerminal(w) ==
    /\ terminals[w] > 0 /\ terminals' = [terminals EXCEPT ![w] = @ - 1]
    /\ UNCHANGED <<conversation, made, visit>>

(* fork_conversation: the messages up to the boundary were read, the files of
   the workspace are copied, then branch and messages are stored. *)
\* Mutant: the branch works in the workspace of its source.
ShareWorkspace(v, w) == w = visit[v].workspace /\ UNCHANGED made
CopyWorkspace(v, w) ==
    IF visit[v].workspace = NoWorkspace THEN w = NoWorkspace /\ UNCHANGED made
    ELSE NewWorkspace(w)
ForkConversation(v, c, w, boundary) ==
    /\ visit[v].pc = "fork" /\ ~Present(c) /\ boundary \in 0..Len(visit[v].read)
    /\ CopyWorkspace(v, w)
    /\ conversation' = [conversation EXCEPT ![c] =
           [mode |-> conversation[visit[v].c].mode, workspace |-> w, parent |-> visit[v].c,
            copied |-> boundary, messages |-> SubSeq(visit[v].read, 1, boundary)]]
    /\ visit' = [visit EXCEPT ![v] = Nowhere]
    /\ UNCHANGED terminals

(* import_conversation_workspace: the project is copied first, a failed copy
   is removed; the row is swapped, then the terminals of the workspace the
   row had when the request read it are closed. delete_conversation closes
   them too; that it then archives the row only filters lists, and is left
   out. *)
ImportWorkspace(v, w) ==
    /\ visit[v].pc = "import" /\ conversation[visit[v].c].mode = "coding-agent"
    /\ NewWorkspace(w)
    /\ conversation' = [conversation EXCEPT ![visit[v].c].workspace = w]
    /\ visit' = [visit EXCEPT ![v].pc = "close"]
    /\ UNCHANGED terminals
CloseWorkspace(v) ==
    /\ visit[v].pc \in {"close", "delete"}
    /\ terminals' = IF visit[v].workspace = NoWorkspace THEN terminals
                    ELSE [terminals EXCEPT ![visit[v].workspace] = 0]
    /\ visit' = [visit EXCEPT ![v] = Nowhere]
    /\ UNCHANGED <<conversation, made>>

(* A request may also end with an error before any of its steps. *)
RequestFails(v) ==
    /\ visit' = [visit EXCEPT ![v] = Nowhere]
    /\ UNCHANGED <<conversation, made, terminals>>

(* conversation_branches climbs to the root and collects its descendants. *)
Parent(c) == conversation[c].parent
Climb[at \in Conversation \X SUBSET Conversation] ==  \* a conversation, and those seen
    IF Parent(at[1]) = NoConversation \/ at[1] \in at[2] THEN at[1]
    ELSE Climb[<<Parent(at[1]), at[2] \union {at[1]}>>]
Descend[included \in SUBSET Conversation] ==
    LET more == {c \in Conversation : Parent(c) \in included} \ included
    IN  IF more = {} THEN included ELSE Descend[included \union more]
Branches(c) == Descend[{Climb[<<c, {}>>]}]

ConversationsNext ==
    \/ \E c \in Conversation : WriteMessage(c)
    \/ \E c \in Conversation, mode \in {"chatbot", "coding-agent"},
          w \in Workspace \union {NoWorkspace} : CreateConversation(c, mode, w)
    \/ \E w \in Workspace : CloseOneTerminal(w)
    \/ \E v \in Visit :
          \/ RereadWorkspace(v) \/ CreateTerminal(v) \/ CloseWorkspace(v) \/ RequestFails(v)
          \/ \E c \in Conversation, pc \in {"terminal", "fork", "import", "delete"} :
                ReadConversation(v, c, pc)
          \/ \E w \in Workspace : EnsureWorkspace(v, w) \/ ImportWorkspace(v, w)
          \/ \E c \in Conversation, w \in Workspace \union {NoWorkspace},
                boundary \in 0..MaxMessages : ForkConversation(v, c, w, boundary)
ConversationsSpec == ConversationsInit /\ [][ConversationsNext]_conversationVars
----------------------------------------------------------------------------
ConversationsTypeOK ==
    /\ conversation \in [Conversation ->
           [mode: {"absent", "chatbot", "coding-agent"}, workspace: Workspace \union {NoWorkspace},
            parent: Conversation \union {NoConversation}, copied: Nat, messages: Seq(Nat)]]
    /\ made \subseteq Workspace /\ terminals \in [Workspace -> Nat]
    /\ visit \in [Visit -> [pc: {"idle", "terminal", "stored", "fork", "import", "close",
                                "delete"}, c: Conversation \union {NoConversation},
                           workspace: Workspace \union {NoWorkspace}, read: Seq(Nat)]]

(* No two conversations ever work in one workspace, whatever forks, imports and
   first uses run at once; the terminals of a workspace stay within the limit;
   a branch keeps the history of its source up to the boundary; and the branch
   tree is the whole family of a conversation and nothing else
   (conversations.py fork, branches, import; manager.py fork). *)
OwnWorkspace ==
    \A c, d \in Conversation : c # d /\ conversation[c].workspace # NoWorkspace
        => conversation[c].workspace # conversation[d].workspace
TerminalsLimited == \A w \in Workspace : terminals[w] <= MaxTerminals
First(c, n) == SubSeq(conversation[c].messages, 1, n)
BranchKeepsHistory ==
    \A c \in Conversation : Parent(c) # NoConversation =>
        First(c, conversation[c].copied) = First(Parent(c), conversation[c].copied)
IsFamily(set) ==
    \A c \in Conversation : Parent(c) # NoConversation => (c \in set <=> Parent(c) \in set)
BranchesAreFamily ==
    \A c \in Conversation :
        /\ c \in Branches(c) /\ IsFamily(Branches(c))
        /\ \A set \in SUBSET Conversation : c \in set /\ IsFamily(set) => Branches(c) \subseteq set
ConversationsSound ==
    OwnWorkspace /\ TerminalsLimited /\ BranchKeepsHistory /\ BranchesAreFamily
=============================================================================
