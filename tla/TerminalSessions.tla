-------------------------- MODULE TerminalSessions --------------------------
(* One terminal session: the reader thread that appends the output of the    *)
(* shell to a bounded buffer and brings a shell lost to Ctrl+C back, the     *)
(* sockets that follow the buffer with a cursor, and the commands that run   *)
(* one at a time, streamed or not. An item stands for a chunk of output.     *)
EXTENDS Naturals, Sequences

CONSTANTS
    Socket,      \* terminal websockets
    Command,     \* execute requests; each may be streamed
    NoCommand,   \* nobody holds the command lock
    MaxOutput,   \* MAX_OUTPUT_CHARS: length of the buffer
    Window,      \* length of the tail a payload shows
    MaxItems,    \* bound: items the shell writes
    MaxRestarts  \* bound: recoveries of the shell

ASSUME TerminalAssumption ==
    /\ {MaxOutput, Window, MaxItems, MaxRestarts} \subseteq Nat
    /\ 0 < Window /\ Window <= MaxOutput /\ NoCommand \notin Command

VARIABLES
    shell,       \* whether a process is attached: up, down, or gone for good
    output,      \* the buffer: the numbers of its items, oldest first
    base,        \* _base_offset: how many items were trimmed
    written,     \* history: how many items the shell wrote
    mayRestart,  \* whether Ctrl+C was sent within the recovery window
    restarts,    \* _restart_count
    socket,      \* per websocket: its cursor, restarts it announced, items it sent
    command,     \* per execute request: its place, cursor, marker and stream
    holder       \* who holds _command_lock

terminalVars == <<shell, output, base, written, mayRestart, restarts, socket, command, holder>>
bufferVars == <<output, base, written>>

EndOffset == base + Len(output)
Tail50k == SubSeq(output, (IF Len(output) > Window THEN Len(output) - Window ELSE 0) + 1,
                  Len(output))

TerminalInit ==
    /\ shell = "up" /\ output = <<>> /\ base = 0 /\ written = 0
    /\ mayRestart = FALSE /\ restarts = 0 /\ holder = NoCommand
    /\ socket = [s \in Socket |-> [pc |-> "closed", from |-> 0, cursor |-> 0,
                                   announced |-> 0, alive |-> TRUE, sent |-> <<>>]]
    /\ command = [c \in Command |-> [pc |-> "new", start |-> 0, marker |-> 0,
                                     offset |-> 0, streamed |-> <<>>]]

(* _append: the oldest items go when the buffer is longer than its limit. *)
Excess(long) == IF Len(long) > MaxOutput THEN Len(long) - MaxOutput ELSE 0
AppendOutput ==
    LET long == Append(output, written + 1)
    IN  /\ written < MaxItems /\ written' = written + 1
        /\ output' = SubSeq(long, Len(long) - (IF Len(long) > MaxOutput THEN MaxOutput
                                               ELSE Len(long)) + 1, Len(long))
        /\ base' = base + Excess(long)

ShellWrites ==
    /\ shell = "up" /\ AppendOutput
    /\ UNCHANGED <<shell, mayRestart, restarts, socket, command, holder>>

(* write: input reaches a shell that is up; Ctrl+C opens the recovery window,
   which time closes. *)
CtrlC ==
    /\ shell = "up" /\ ~mayRestart /\ mayRestart' = TRUE
    /\ UNCHANGED <<shell, bufferVars, restarts, socket, command, holder>>
WindowCloses ==
    /\ mayRestart /\ mayRestart' = FALSE
    /\ UNCHANGED <<shell, bufferVars, restarts, socket, command, holder>>

(* The shell process ends. Within the window the reader thread starts another
   one; outside of it, or if that fails, the session stays dead. *)
ShellExits ==
    /\ shell = "up" /\ shell' = "down"
    /\ UNCHANGED <<bufferVars, mayRestart, restarts, socket, command, holder>>
ShellRecovers ==
    /\ shell = "down" /\ mayRestart /\ restarts < MaxRestarts
    /\ shell' = "up" /\ mayRestart' = FALSE /\ restarts' = restarts + 1
    /\ AppendOutput
    /\ UNCHANGED <<socket, command, holder>>
ShellStaysDown ==
    /\ shell = "down" /\ shell' = "gone"
    /\ UNCHANGED <<bufferVars, mayRestart, restarts, socket, command, holder>>
CloseTerminal ==
    /\ shell # "gone" /\ shell' = "gone"
    /\ UNCHANGED <<bufferVars, mayRestart, restarts, socket, command, holder>>

(* A websocket opens with one payload: its tail is sent, its cursor followed. *)
OpenSocket(s) ==
    /\ socket[s].pc = "closed" /\ socket[s].sent = <<>>
    /\ socket' = [socket EXCEPT ![s] = [pc |-> "open", from |-> EndOffset - Len(Tail50k),
           cursor |-> EndOffset, announced |-> restarts, alive |-> TRUE, sent |-> Tail50k]]
    /\ UNCHANGED <<shell, bufferVars, mayRestart, restarts, command, holder>>

(* read_since: what follows the cursor, or the oldest item still there. *)
\* Mutant: the cursor is an index of the buffer, trimmed or not.
FromCursor(cursor) == SubSeq(output, cursor + 1, Len(output))
Since(cursor) == SubSeq(output, (IF cursor > base THEN cursor - base ELSE 0) + 1, Len(output))
ReadSocket(s) ==
    /\ socket[s].pc = "open"
    /\ socket[s].cursor < EndOffset \/ shell # "up" \/ socket[s].announced # restarts
    /\ socket' = [socket EXCEPT ![s].sent = @ \o Since(socket[s].cursor),
           ![s].cursor = EndOffset, ![s].alive = (shell = "up"), ![s].pc = "read"]
    /\ UNCHANGED <<shell, bufferVars, mayRestart, restarts, command, holder>>

(* Then a new payload: a recovery is announced; a read that saw the shell dead
   ends the socket only if it is dead still. *)
CheckSocket(s) ==
    /\ socket[s].pc = "read"
    /\ socket' = [socket EXCEPT ![s].announced = restarts,
           ![s].pc = IF ~socket[s].alive /\ shell # "up" THEN "exit" ELSE "open"]
    /\ UNCHANGED <<shell, bufferVars, mayRestart, restarts, command, holder>>

(* execute reads the end of the buffer, then waits for the lock; the stream
   remembers the length of the window it was shown. *)
StartCommand(c) ==
    /\ command[c].pc = "new"
    /\ command' = [command EXCEPT ![c] = [@ EXCEPT !.pc = "started", !.start = EndOffset,
           !.offset = Len(Tail50k)]]
    /\ UNCHANGED <<shell, bufferVars, mayRestart, restarts, socket, holder>>
LockCommand(c) ==
    /\ command[c].pc = "started" /\ holder = NoCommand
    /\ IF shell = "up"
       THEN holder' = c /\ command' = [command EXCEPT ![c].pc = "running"]
       ELSE holder' = holder /\ command' = [command EXCEPT ![c].pc = "error"]
    /\ UNCHANGED <<shell, bufferVars, mayRestart, restarts, socket>>

(* The shell ends the command: its marker is the next item. *)
MarkerWritten(c) ==
    /\ command[c].pc = "running" /\ shell = "up" /\ command[c].marker = 0
    /\ AppendOutput
    /\ command' = [command EXCEPT ![c].marker = written + 1]
    /\ UNCHANGED <<shell, mayRestart, restarts, socket, holder>>

(* execute returns: its marker was read, the shell is dead, or time is up,
   which sends Ctrl+C. *)
EndCommand(c) ==
    /\ command[c].pc = "running" /\ holder' = NoCommand
    /\ \/ /\ command[c].marker # 0 \/ shell # "up"
          /\ UNCHANGED mayRestart
       \/ /\ command[c].marker = 0 /\ shell = "up"
          /\ mayRestart' = TRUE
    /\ command' = [command EXCEPT ![c].pc = "done"]
    /\ UNCHANGED <<shell, bufferVars, restarts, socket>>

(* The stream sends what the window has beyond the length sent before. Once
   the window is full its length no longer grows and nothing more is sent. *)
Beyond(c) == SubSeq(Tail50k, command[c].offset + 1, Len(Tail50k))
StreamCommand(c) ==
    /\ command[c].pc \in {"started", "running", "done"}
    /\ Len(Tail50k) > command[c].offset
    /\ command' = [command EXCEPT ![c].streamed = @ \o Beyond(c), ![c].offset = Len(Tail50k)]
    /\ UNCHANGED <<shell, bufferVars, mayRestart, restarts, socket, holder>>

TerminalNext ==
    \/ ShellWrites \/ CtrlC \/ WindowCloses \/ ShellExits \/ ShellRecovers
    \/ ShellStaysDown \/ CloseTerminal
    \/ \E s \in Socket : OpenSocket(s) \/ ReadSocket(s) \/ CheckSocket(s)
    \/ \E c \in Command : \/ StartCommand(c) \/ LockCommand(c) \/ MarkerWritten(c)
                          \/ EndCommand(c) \/ StreamCommand(c)
TerminalSpec == TerminalInit /\ [][TerminalNext]_terminalVars
----------------------------------------------------------------------------
TerminalTypeOK ==
    /\ shell \in {"up", "down", "gone"} /\ output \in Seq(Nat) /\ base \in Nat
    /\ written \in Nat /\ mayRestart \in BOOLEAN /\ restarts \in Nat
    /\ socket \in [Socket -> [pc: {"closed", "open", "read", "exit"}, from: Nat, cursor: Nat,
                              announced: Nat, alive: BOOLEAN, sent: Seq(Nat)]]
    /\ command \in [Command -> [pc: {"new", "started", "running", "done", "error"},
                                start: Nat, marker: Nat, offset: Nat,
                                streamed: Seq(Nat)]]
    /\ holder \in Command \union {NoCommand}

Increasing(s) == \A i, j \in DOMAIN s : i < j => s[i] < s[j]
Items(s) == {s[i] : i \in DOMAIN s}

(* A websocket sends every item from its first on, once and in order, except
   items that had left the buffer before it read them; and the stream of a
   command repeats nothing and shows nothing older than the command, although
   it skips items once the window slides (session.py read_since, _append). *)
SocketIsGapless ==
    \A s \in Socket : socket[s].pc # "closed" =>
        /\ Increasing(socket[s].sent)
        /\ \A n \in socket[s].from + 1 .. socket[s].cursor :
               n \in Items(socket[s].sent) \/ n <= base
StreamRepeatsNothing ==
    \A c \in Command :
        /\ Increasing(command[c].streamed)
        /\ \A n \in Items(command[c].streamed) : n > command[c].start
TerminalStreams == SocketIsGapless /\ StreamRepeatsNothing
=============================================================================
