---------------------------- MODULE MCWorkbench ----------------------------
(* What stands behind the conversations, on small instances: Accounts,       *)
(* Conversations, WorkspaceFiles, TerminalSessions, LanguageServer,          *)
(* MemoryStore, Extensions and ContextWindow. They share no variable: "part"  *)
(* names the one that moves, as in MCServices.                               *)
EXTENDS Accounts, Conversations, WorkspaceFiles, TerminalSessions, LanguageServer,
        MemoryStore, Extensions, ContextWindow, TLC

CONSTANTS a1, a2, a3, b1, b2, e1, e2

VARIABLE part

Parts == {"sessions", "limiter", "conversations", "files", "terminal", "language",
          "memory", "extensions", "loop", "store"}
Interchangeable == Permutations({a1, a2, a3}) \union Permutations({b1, b2})
                   \union Permutations({e1, e2})

workbenchVars == <<part, accountVars, conversationVars, fileVars, terminalVars, lspVars,
                   memoryVars, extensionVars, contextVars>>

\* The initial choices of a part that does not move are made once.
WorkbenchInit ==
    /\ part \in Parts
    /\ AccountsInit /\ FilesInit /\ TerminalInit /\ LspInit /\ MemoryInit /\ ContextInit
    /\ ConversationsInit
    /\ Cardinality({c \in Conversation : Present(c)}) <= IF part = "conversations" THEN 1 ELSE 0
    /\ ExtensionsInit
    /\ part = "extensions" \/ (profile = {} /\ requires = [e \in Extension |-> {}])
    /\ part = "loop" \/ messages = <<Message("user", Greatest(Costs))>>

WorkbenchNext ==
    \/ part = "sessions" /\ SessionsNext /\ UNCHANGED <<part, conversationVars, fileVars,
           terminalVars, lspVars, memoryVars, extensionVars, contextVars>>
    \/ part = "limiter" /\ LimiterNext /\ UNCHANGED <<part, conversationVars, fileVars,
           terminalVars, lspVars, memoryVars, extensionVars, contextVars>>
    \/ part = "conversations" /\ ConversationsNext /\ UNCHANGED <<part, accountVars, fileVars,
           terminalVars, lspVars, memoryVars, extensionVars, contextVars>>
    \/ part = "files" /\ FilesNext /\ UNCHANGED <<part, accountVars, conversationVars,
           terminalVars, lspVars, memoryVars, extensionVars, contextVars>>
    \/ part = "terminal" /\ TerminalNext /\ UNCHANGED <<part, accountVars, conversationVars,
           fileVars, lspVars, memoryVars, extensionVars, contextVars>>
    \/ part = "language" /\ LspNext /\ UNCHANGED <<part, accountVars, conversationVars,
           fileVars, terminalVars, memoryVars, extensionVars, contextVars>>
    \/ part = "memory" /\ MemoryNext /\ UNCHANGED <<part, accountVars, conversationVars,
           fileVars, terminalVars, lspVars, extensionVars, contextVars>>
    \/ part = "extensions" /\ ExtensionsNext /\ UNCHANGED <<part, accountVars,
           conversationVars, fileVars, terminalVars, lspVars, memoryVars, contextVars>>
    \/ part = "loop" /\ LoopNext /\ UNCHANGED <<part, accountVars, conversationVars, fileVars,
           terminalVars, lspVars, memoryVars, extensionVars>>
    \/ part = "store" /\ StoreNext /\ UNCHANGED <<part, accountVars, conversationVars,
           fileVars, terminalVars, lspVars, memoryVars, extensionVars>>

WorkbenchSpec == WorkbenchInit /\ [][WorkbenchNext]_workbenchVars

(* Every component's variables keep their types. *)
WorkbenchTypeOK ==
    /\ part \in Parts /\ AccountsTypeOK /\ ConversationsTypeOK /\ FilesTypeOK
    /\ TerminalTypeOK /\ LspTypeOK /\ MemoryTypeOK /\ ExtensionsTypeOK /\ ContextTypeOK
=============================================================================
