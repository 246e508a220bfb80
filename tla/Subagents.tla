----------------------------- MODULE Subagents -----------------------------
(* The child agents of one parent task: durable rows, the asyncio jobs that  *)
(* run them, the tools of the parent (spawn, wait, interrupt, send), the two *)
(* routes of the user interface, and the recovery of rows at a start.        *)
EXTENDS Naturals

CONSTANTS
    Child,        \* identifiers of agent_subtasks rows
    MaxMail,      \* bound: messages a child is sent
    MaxRecoveries \* bound: how often processes start and recover rows

ASSUME SubagentsAssumption == {MaxMail, MaxRecoveries} \subseteq Nat

VARIABLES
    child,        \* the status of each row
    job,          \* per child, the entry of _jobs in the parent's process
    mail,         \* per child: messages accepted, messages consumed
    parent,       \* the parent's run: running, waiting for a child, or over
    cancelled,    \* whether the parent task is being cancelled
    asked,        \* history: the children somebody asked to interrupt
    recoveries    \* history: how often rows were recovered

subagentVars == <<child, job, mail, parent, cancelled, asked, recoveries>>

Running == [pc |-> "running"]
WaitingFor(c) == [pc |-> "waiting", for |-> c]
Live == {"created", "running", "cancelling"}

SubagentsInit ==
    /\ child = [c \in Child |-> "absent"]
    /\ job = [c \in Child |-> "none"]
    /\ mail = [c \in Child |-> [accepted |-> 0, consumed |-> 0]]
    /\ parent = Running /\ cancelled = FALSE /\ asked = {} /\ recoveries = 0

(* spawn_agent: the row is committed as queued, then launch creates the job. *)
SpawnAgent(c) ==
    /\ parent = Running /\ child[c] = "absent"
    /\ child' = [child EXCEPT ![c] = "queued"] /\ job' = [job EXCEPT ![c] = "created"]
    /\ UNCHANGED <<mail, parent, cancelled, asked, recoveries>>

(* run_child begins: it stores running over whatever the row says, an
   interrupt from the user interface included. *)
StartChild(c) ==
    /\ job[c] = "created"
    /\ child' = [child EXCEPT ![c] = "running"] /\ job' = [job EXCEPT ![c] = "running"]
    /\ UNCHANGED <<mail, parent, cancelled, asked, recoveries>>

(* send_agent and the route: accepted while the row says the child may run. *)
SendAgent(c) ==
    /\ child[c] \in {"queued", "running", "interrupted"} /\ mail[c].accepted < MaxMail
    /\ mail' = [mail EXCEPT ![c].accepted = @ + 1]
    /\ UNCHANGED <<child, job, parent, cancelled, asked, recoveries>>
ConsumeMessages(c) ==
    /\ job[c] = "running" /\ mail[c].consumed < mail[c].accepted
    /\ mail' = [mail EXCEPT ![c].consumed = mail[c].accepted]
    /\ UNCHANGED <<child, job, parent, cancelled, asked, recoveries>>

(* The loop of run_child ends, the row found there is overwritten: with a
   report, with an error, or because an event saw the row or the parent
   cancelled; the last event may have come before that. *)
EndChild(c, outcome, result) ==
    /\ job[c] = "running"
    /\ child' = [child EXCEPT ![c] = outcome] /\ job' = [job EXCEPT ![c] = result]
    /\ UNCHANGED <<mail, parent, cancelled, asked, recoveries>>
CompleteChild(c) == EndChild(c, "completed", "ok")
FailChild(c) == EndChild(c, "failed", "raised")
StopChild(c) == (child[c] = "cancelled" \/ cancelled) /\ EndChild(c, "cancelled", "raised")

(* The CancelledError of a cancelled job reaches its handler, which stores the
   outcome and raises it again. *)
UnwindChild(c) ==
    /\ job[c] = "cancelling"
    /\ child' = [child EXCEPT ![c] = "cancelled"] /\ job' = [job EXCEPT ![c] = "cancelled"]
    /\ UNCHANGED <<mail, parent, cancelled, asked, recoveries>>

(* interrupt_agent cancels a job that is not done and stores cancelled; the
   route only stores it. Neither looks at the status. *)
InterruptAgent(c) ==
    /\ parent = Running /\ child[c] # "absent"
    /\ job' = [job EXCEPT ![c] = IF @ \in Live THEN "cancelling" ELSE @]
    /\ child' = [child EXCEPT ![c] = "cancelled"] /\ asked' = asked \union {c}
    /\ UNCHANGED <<mail, parent, cancelled, recoveries>>
InterruptSubtask(c) ==
    /\ child[c] # "absent"
    /\ child' = [child EXCEPT ![c] = "cancelled"] /\ asked' = asked \union {c}
    /\ UNCHANGED <<job, mail, parent, cancelled, recoveries>>

(* wait_agent: a recovered child without a job is launched again; a job that
   is not done is awaited behind a shield. *)
Relaunches(c) == child[c] \in {"interrupted", "queued"} /\ job[c] = "none"
WaitAgent(c) ==
    /\ parent = Running /\ child[c] # "absent"
    /\ job' = [job EXCEPT ![c] = IF Relaunches(c) THEN "created" ELSE @]
    /\ parent' = IF job'[c] \in Live THEN WaitingFor(c) ELSE Running
    /\ UNCHANGED <<child, mail, cancelled, asked, recoveries>>

(* The wait ends: with the child, whose exception becomes a tool error, by its
   timeout, or with the CancelledError of the child, which no tool catches. *)
WaitReturns ==
    /\ parent.pc = "waiting"
    /\ parent' = IF job[parent.for] = "cancelled" THEN [pc |-> "killed"] ELSE Running
    /\ UNCHANGED <<child, job, mail, cancelled, asked, recoveries>>

(* The parent ends; its jobs live on in the process, and a resumed parent
   finds them there. Cancelling the task reaches the children's next check. *)
EndParent ==
    /\ parent' = IF parent = Running THEN [pc |-> "ended"] ELSE Running
    /\ parent.pc \in {"running", "ended"}
    /\ UNCHANGED <<child, job, mail, cancelled, asked, recoveries>>
CancelParent ==
    /\ ~cancelled /\ cancelled' = TRUE
    /\ UNCHANGED <<child, job, mail, parent, asked, recoveries>>

(* init_db at the start of any process. With crash the parent's process ended
   and its task is executed again; otherwise its jobs go on beside the rows. *)
\* Mutant: only the running rows are recovered.
OnlyRunning == {"running"}
Unfinished == {"queued", "running"}
RecoverSubtasks(crash) ==
    /\ recoveries < MaxRecoveries /\ recoveries' = recoveries + 1
    /\ child' = [c \in Child |-> IF child[c] \in Unfinished THEN "interrupted" ELSE child[c]]
    /\ IF crash THEN job' = [c \in Child |-> "none"] /\ parent' = Running
                ELSE UNCHANGED <<job, parent>>
    /\ UNCHANGED <<mail, cancelled, asked>>

ChildStep(c) ==
    \/ StartChild(c) \/ ConsumeMessages(c) \/ UnwindChild(c)
    \/ CompleteChild(c) \/ FailChild(c) \/ StopChild(c)
ParentStep(c) == SpawnAgent(c) \/ WaitAgent(c) \/ InterruptAgent(c)
SubagentsNext ==
    \/ \E c \in Child : ChildStep(c) \/ ParentStep(c) \/ SendAgent(c) \/ InterruptSubtask(c)
    \/ WaitReturns \/ EndParent \/ CancelParent
    \/ \E crash \in BOOLEAN : RecoverSubtasks(crash)
SubagentsSpec == SubagentsInit /\ [][SubagentsNext]_subagentVars
----------------------------------------------------------------------------
SubagentsTypeOK ==
    /\ child \in [Child -> {"absent", "queued", "running", "interrupted", "completed",
                            "failed", "cancelled"}]
    /\ job \in [Child -> {"none", "ok", "raised", "cancelled"} \union Live]
    /\ mail \in [Child -> [accepted: 0..MaxMail, consumed: 0..MaxMail]]
    /\ parent \in {Running, [pc |-> "ended"], [pc |-> "killed"]}
                      \union {WaitingFor(c) : c \in Child}
    /\ cancelled \in BOOLEAN /\ asked \subseteq Child /\ recoveries \in 0..MaxRecoveries

(* Rows and jobs agree: a row that says the child is active has a job that will
   end it, after any restart; a row says cancelled only if somebody interrupted
   the child or its task; and a child that reported is shown as completed
   unless it was interrupted (extension.py, task_runtime.py update_subtask). *)
ActiveHasJob == \A c \in Child : child[c] \in {"queued", "running"} => job[c] \in Live
CancelledWasAsked == \A c \in Child : child[c] = "cancelled" => c \in asked \/ cancelled
ReportIsShown == \A c \in Child : job[c] = "ok" /\ child[c] # "completed" => c \in asked
ChildOutcome == ActiveHasJob /\ CancelledWasAsked /\ ReportIsShown

(* "Interrupt one child agent without cancelling the parent task", says the
   description of interrupt_agent (extension.py:255). *)
InterruptSparesParent == parent.pc # "killed"
=============================================================================
