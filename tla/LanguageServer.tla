--------------------------- MODULE LanguageServer ---------------------------
(* One LSP session of a workspace and its callers, editor requests that run  *)
(* in threads: a document is synchronised, then a question asked about it.   *)
(* The version is taken under a lock and the notification sent outside of it. *)
(* The server is external: it takes frames in the order of the pipe.         *)
EXTENDS Naturals, Sequences

CONSTANTS
    Caller,      \* requests about one document
    Text,        \* contents the callers pass
    NoText,      \* no content: not opened, not answered
    MaxSessions  \* bound: how often the server process is started

ASSUME LanguageAssumption == NoText \notin Text /\ MaxSessions \in Nat \ {0}

VARIABLES
    lsp,         \* the session: its number, alive, _documents, _pending, versions sent
    pipe,        \* frames written and not yet read by the server
    server,      \* external: the document as the server has it
    replies,     \* external: responses and diagnostics not yet read
    published,   \* _diagnostics: the text they are about; and whether its event is set
    caller       \* per request: its place, text, version, session, answer

lspVars == <<lsp, pipe, server, replies, published, caller>>

Started(n) == [number |-> n, alive |-> TRUE, version |-> 0, text |-> NoText, pending |-> {},
               sent |-> 0, overtaken |-> FALSE]
NoQuestion == [pc |-> "idle", text |-> NoText, version |-> 0, session |-> 0,
               answer |-> NoText, overlapped |-> FALSE]

LspInit ==
    /\ lsp = Started(1) /\ pipe = <<>> /\ server = NoText /\ replies = {}
    /\ published = [text |-> NoText, event |-> FALSE]
    /\ caller = [q \in Caller |-> NoQuestion]

Mine(q) == caller[q].session = lsp.number /\ lsp.alive
Busy == {q \in Caller : caller[q].pc \notin {"idle", "done"}}

(* manager.session: a dead session is replaced and its documents forgotten. *)
NewSession ==
    /\ ~lsp.alive /\ lsp.number < MaxSessions
    /\ lsp' = [Started(lsp.number + 1) EXCEPT !.overtaken = lsp.overtaken]
    /\ pipe' = <<>> /\ server' = NoText /\ replies' = {}
    /\ published' = [text |-> NoText, event |-> FALSE]
    /\ UNCHANGED caller
ServerExits ==
    /\ lsp.alive /\ lsp' = [lsp EXCEPT !.alive = FALSE]
    /\ UNCHANGED <<pipe, server, replies, published, caller>>

(* sync, under the state lock. *)
\* Mutant: an open document is never sent again.
Opened(text) == lsp.version > 0
Same(text) == lsp.text = text
Sync(q, text) ==
    /\ caller[q].pc = "idle" /\ lsp.alive
    /\ caller' = [p \in Caller |->
           IF p = q THEN [pc |-> IF Same(text) THEN "ask" ELSE "notify", text |-> text,
                          version |-> IF Same(text) THEN lsp.version ELSE lsp.version + 1,
                          session |-> lsp.number, answer |-> NoText, overlapped |-> Busy # {}]
           ELSE IF p \in Busy THEN [caller[p] EXCEPT !.overlapped = TRUE] ELSE caller[p]]
    /\ IF Same(text) THEN UNCHANGED <<lsp, published>>
       ELSE /\ lsp' = [lsp EXCEPT !.version = @ + 1, !.text = text]
            /\ published' = [published EXCEPT !.event = FALSE]
    /\ UNCHANGED <<pipe, server, replies>>

(* notify: didOpen or didChange with the version taken before. A session that
   has ended raises; so do the sends below. *)
Notify(q) ==
    /\ caller[q].pc = "notify"
    /\ caller' = [caller EXCEPT ![q].pc = IF Mine(q) THEN "ask" ELSE "done"]
    /\ IF Mine(q)
       THEN /\ pipe' = Append(pipe, [kind |-> "document", what |-> caller[q].text])
            /\ lsp' = [lsp EXCEPT !.sent = caller[q].version,
                                  !.overtaken = @ \/ caller[q].version < lsp.sent]
       ELSE UNCHANGED <<pipe, lsp>>
    /\ UNCHANGED <<server, replies, published>>

(* request: an id is registered, the frame sent, the response awaited. A send
   that raises leaves the id among the pending ones. *)
Register(q) ==
    /\ caller[q].pc = "ask" /\ Mine(q)
    /\ lsp' = [lsp EXCEPT !.pending = @ \union {q}]
    /\ caller' = [caller EXCEPT ![q].pc = "send"]
    /\ UNCHANGED <<pipe, server, replies, published>>
SendRequest(q) ==
    /\ caller[q].pc = "send" /\ Mine(q)
    /\ pipe' = Append(pipe, [kind |-> "request", what |-> q])
    /\ caller' = [caller EXCEPT ![q].pc = "wait"]
    /\ UNCHANGED <<lsp, server, replies, published>>
SendFails(q) ==
    /\ caller[q].pc \in {"ask", "send"} /\ ~Mine(q)
    /\ caller' = [caller EXCEPT ![q].pc = "done"]
    /\ UNCHANGED <<lsp, pipe, server, replies, published>>

(* The server reads a frame; it answers about the text it has. *)
ServerReads ==
    /\ lsp.alive /\ pipe # <<>> /\ pipe' = Tail(pipe)
    /\ IF Head(pipe).kind = "document"
       THEN server' = Head(pipe).what /\ UNCHANGED replies
       ELSE /\ replies' = replies \union {[to |-> Head(pipe).what, text |-> server]}
            /\ UNCHANGED server
    /\ UNCHANGED <<lsp, published, caller>>

(* _read_loop: a response goes to the request that waits for its id, if one
   does; diagnostics replace the ones before and set the event. *)
ReadReply(m) ==
    /\ lsp.alive /\ replies' = replies \ {m}
    /\ caller' = IF m.to \in lsp.pending /\ caller[m.to].pc = "wait" /\ Mine(m.to)
                 THEN [caller EXCEPT ![m.to].answer = m.text] ELSE caller
    /\ UNCHANGED <<lsp, pipe, server, published>>
Publish ==
    /\ lsp.alive /\ server # NoText
    /\ published' = [text |-> server, event |-> TRUE]
    /\ UNCHANGED <<lsp, pipe, server, replies, caller>>

(* The request returns with the response or after its timeout; a diagnostics
   call waits for the event, or a second and a half, instead of asking. *)
EndRequest(q) ==
    /\ caller[q].pc = "wait"
    /\ lsp' = IF caller[q].session = lsp.number THEN [lsp EXCEPT !.pending = @ \ {q}] ELSE lsp
    /\ caller' = [caller EXCEPT ![q].pc = "done"]
    /\ UNCHANGED <<pipe, server, replies, published>>
ReadDiagnostics(q) ==
    /\ caller[q].pc = "ask" /\ published.event
    /\ caller' = [caller EXCEPT ![q].pc = "done"]
    /\ UNCHANGED <<lsp, pipe, server, replies, published>>

LspNext ==
    \/ NewSession \/ ServerExits \/ ServerReads \/ Publish
    \/ \E m \in replies : ReadReply(m)
    \/ \E q \in Caller :
          \/ Notify(q) \/ Register(q) \/ SendRequest(q) \/ SendFails(q)
          \/ EndRequest(q) \/ ReadDiagnostics(q)
          \/ \E text \in Text : Sync(q, text)
LspSpec == LspInit /\ [][LspNext]_lspVars
----------------------------------------------------------------------------
LspTypeOK ==
    /\ lsp.number \in 1..MaxSessions /\ lsp.alive \in BOOLEAN /\ lsp.version \in Nat
    /\ lsp.text \in Text \union {NoText} /\ lsp.pending \subseteq Caller
    /\ server \in Text \union {NoText} /\ \A m \in replies : m.to \in Caller
    /\ \A q \in Caller : caller[q].pc \in {"idle", "notify", "ask", "send", "wait", "done"}

(* A request that no other overlapped is answered about the text its caller
   passed, unless notifications have ever overtaken each other; and
   the server then ends up with the document the session remembers. Overlapping
   requests have no such promise: a version may be sent after a later one, and
   the session never sends that text again (lsp.py sync). *)
AnswerIsAboutText ==
    \A q \in Caller :
        caller[q].answer # NoText /\ ~caller[q].overlapped /\ ~lsp.overtaken
            => caller[q].answer = caller[q].text
InFlight == \E q \in Caller : caller[q].pc = "notify" /\ caller[q].session = lsp.number
ServerCatchesUp ==
    lsp.alive /\ pipe = <<>> /\ ~InFlight /\ ~lsp.overtaken => server = lsp.text
DocumentsAgree == AnswerIsAboutText /\ ServerCatchesUp
=============================================================================
