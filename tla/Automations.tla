---------------------------- MODULE Automations ----------------------------
(* Scheduled automations: the rows the routes edit, the ticks of the        *)
(* scheduler loop and of "run now", the tasks they create, and the notice a *)
(* finished task leaves.                                                    *)
EXTENDS Naturals, FiniteSets

CONSTANTS
    Automation,  \* identifiers of scheduled_automations rows
    Ticker,      \* concurrent callers of tick: the loop and the run-now requests
    Occasion,    \* identifiers of the tasks that can be created
    Rules,       \* rules a user may set, each the set of its occurrence times
    NoOccasion,  \* last_task_id before the first task
    Policy,      \* notification policies users choose
    MaxClock,    \* bound: the last moment of the clock
    MaxArming    \* bound: how often next_run_at may be set before users stop

ASSUME PolicyAssumption == Policy \subseteq {"none", "failure", "completion"} /\ Policy # {}
ASSUME RulesAssumption == Rules \subseteq SUBSET Nat /\ {MaxClock, MaxArming} \subseteq Nat
ASSUME OccasionAssumption ==
    NoOccasion \notin Occasion /\ Occasion \intersect {"idle", "selected", "creating"} = {}

VARIABLES
    clock,       \* the time of the database rows
    automation,  \* the rows of scheduled_automations; arming counts writes of next_run_at
    ticker,      \* the locals of each tick
    occasion,    \* the created tasks, with the arming and the time they were created for
    notices      \* how many notifications each task has

autoVars == <<clock, automation, ticker, occasion, notices>>

AutomationRow == [status: {"absent", "active", "paused", "deleted"}, rule: SUBSET Nat,
                  next: Nat, arming: Nat, policy: Policy, last: Occasion \union {NoOccasion}]
Due == [auto: Automation, rule: SUBSET Nat]
Claim == [auto: Automation, arming: Nat, at: Nat]
IdleTicker == [pc |-> "idle", now |-> 0, due |-> {}, todo |-> {}]

AutoInit ==
    /\ clock = 0
    /\ automation = [a \in Automation |-> [status |-> "absent", rule |-> {}, next |-> 0,
                        arming |-> 0, policy |-> CHOOSE po \in Policy : TRUE, last |-> NoOccasion]]
    /\ ticker = [p \in Ticker |-> IdleTicker]
    /\ occasion = [o \in Occasion |-> [status |-> "none", auto |-> {}, arming |-> 0, at |-> 0]]
    /\ notices = [o \in Occasion |-> 0]

(* The next occurrence of rule r after moment t; none means ValueError. An
   interval is a rule that occurs at every moment. *)
Later(r, t) == {x \in r : x > t}
Following(r, t) == CHOOSE x \in Later(r, t) : \A y \in Later(r, t) : x <= y

Exists(a) == automation[a].status \in {"active", "paused"}
IsDue(a, now) == automation[a].status = "active" /\ automation[a].next <= now

Pass == clock < MaxClock /\ clock' = clock + 1
        /\ UNCHANGED <<automation, ticker, occasion, notices>>

(* POST: a rule without a future occurrence is refused with 422. *)
CreateAutomation(a, r, po) ==
    /\ automation[a].status = "absent" /\ Later(r, clock) # {}
    /\ automation' = [automation EXCEPT ![a] = [status |-> "active", rule |-> r,
           next |-> Following(r, clock), arming |-> 1, policy |-> po, last |-> NoOccasion]]
    /\ UNCHANGED <<clock, ticker, occasion, notices>>

(* PATCH that names the interval, rule or time zone, and perhaps the rest:
   next_run_at is computed again, and an error rolls everything back. A PATCH
   is one step: two of one row at the same moment are left out. *)
Reschedule(a, r, s, po) ==
    /\ Exists(a) /\ Later(r, clock) # {} /\ automation[a].arming < MaxArming
    /\ automation' = [automation EXCEPT ![a].rule = r, ![a].next = Following(r, clock),
           ![a].arming = @ + 1, ![a].status = s, ![a].policy = po]
    /\ UNCHANGED <<clock, ticker, occasion, notices>>

(* PATCH of anything else leaves next_run_at alone. *)
UpdateAutomation(a, s, po) ==
    /\ Exists(a) /\ automation[a].arming < MaxArming
    /\ automation' = [automation EXCEPT ![a].status = s, ![a].policy = po]
    /\ UNCHANGED <<clock, ticker, occasion, notices>>

DeleteAutomation(a) ==
    /\ Exists(a)
    /\ automation' = [automation EXCEPT ![a].status = "deleted"]
    /\ UNCHANGED <<clock, ticker, occasion, notices>>

(* Run now: arms the row for this instant, which no other request shares,
   commits, and calls tick; the tick selects in its own transaction. *)
RunNow(a) ==
    /\ Exists(a) /\ automation[a].arming < MaxArming
    /\ clock < MaxClock /\ clock' = clock + 1
    /\ automation' = [automation EXCEPT ![a].status = "active", ![a].next = clock + 1,
                                        ![a].arming = @ + 1]
    /\ UNCHANGED <<ticker, occasion, notices>>

(* tick reads the clock and selects the due rows. *)
SelectDue(p) ==
    /\ ticker[p].pc = "idle"
    /\ \E a \in Automation : IsDue(a, clock)
    /\ ticker' = [ticker EXCEPT ![p] = [IdleTicker EXCEPT !.pc = "selected", !.now = clock,
           !.due = {[auto |-> a, rule |-> automation[a].rule] :
                        a \in {b \in Automation : IsDue(b, clock)}}]]
    /\ UNCHANGED <<clock, automation, occasion, notices>>

(* The filter of the UPDATE, evaluated on the rows as they are by then. *)
\* Mutant: a row that is active is claimed, due or not.
StillActive(p) == {d \in ticker[p].due : automation[d.auto].status = "active"}
Claimable(p) == {d \in ticker[p].due : IsDue(d.auto, ticker[p].now)}

(* One transaction moves every row it still finds due to the occurrence after
   now, computed from the rule as it was read; an exhausted rule pauses. *)
Moved(row, d, now) ==
    LET more == Later(d.rule, now) # {}
    IN  [row EXCEPT !.status = IF more THEN "active" ELSE "paused", !.arming = @ + 1,
                    !.next = IF more THEN Following(d.rule, now) ELSE now]
ClaimDue(p) ==
    /\ ticker[p].pc = "selected"
    /\ automation' = [a \in Automation |->
           IF \E d \in Claimable(p) : d.auto = a
           THEN Moved(automation[a], CHOOSE d \in Claimable(p) : d.auto = a, ticker[p].now)
           ELSE automation[a]]
    /\ ticker' = [ticker EXCEPT ![p] = [IdleTicker EXCEPT !.pc = "creating",
           !.todo = {[auto |-> d.auto, arming |-> automation[d.auto].arming,
                      at |-> automation[d.auto].next] : d \in Claimable(p)}]]
    /\ UNCHANGED <<clock, occasion, notices>>

(* One snapshot: the prompt is stored and the task row created, queued. *)
CreateTask(p, c, o) ==
    /\ ticker[p].pc = "creating" /\ c \in ticker[p].todo /\ occasion[o].status = "none"
    /\ occasion' = [occasion EXCEPT ![o] = [status |-> "queued", auto |-> c.auto,
                                            arming |-> c.arming, at |-> c.at]]
    /\ ticker' = [ticker EXCEPT ![p].pc = o, ![p].todo = @ \ {c}]
    /\ UNCHANGED <<clock, automation, notices>>

(* The conversation is gone or anything raises: the occurrence is skipped. *)
SkipClaim(p, c) ==
    /\ ticker[p].pc = "creating" /\ c \in ticker[p].todo
    /\ ticker' = [ticker EXCEPT ![p].todo = @ \ {c}]
    /\ UNCHANGED <<clock, automation, occasion, notices>>

(* A transaction of its own stores last_task_id, if the row still exists
   and nothing raises; then the task id is pushed (workers poll the row anyway). *)
LinkTask(p, o) ==
    /\ ticker[p].pc = o
    /\ automation' \in {automation, IF Exists(occasion[o].auto)
           THEN [automation EXCEPT ![occasion[o].auto].last = o] ELSE automation}
    /\ ticker' = [ticker EXCEPT ![p].pc = "creating"]
    /\ UNCHANGED <<clock, occasion, notices>>

TickEnds(p) ==
    /\ ticker[p].pc = "creating" /\ ticker[p].todo = {}
    /\ ticker' = [ticker EXCEPT ![p] = IdleTicker]
    /\ UNCHANGED <<clock, automation, occasion, notices>>

(* finish of a task, also of a resumed one: the row whose last_task_id it is
   decides, by its policy, and an existing notification suppresses another. *)
Wants(po, outcome) == po = "completion" \/ (po = "failure" /\ outcome # "completed")
Notifies(o, outcome) ==
    /\ \E a \in Automation : /\ Exists(a) /\ automation[a].last = o
                             /\ Wants(automation[a].policy, outcome)
    /\ notices[o] = 0
Notified(o, outcome) == notices[o] + (IF Notifies(o, outcome) THEN 1 ELSE 0)
FinishOccasion(o, outcome) ==
    /\ occasion[o].status = "queued"
    /\ occasion' = [occasion EXCEPT ![o].status = outcome]
    /\ notices' = [notices EXCEPT ![o] = Notified(o, outcome)]
    /\ UNCHANGED <<clock, automation, ticker>>
ResumeOccasion(o) ==
    /\ occasion[o].status = "failed"
    /\ occasion' = [occasion EXCEPT ![o].status = "queued"]
    /\ UNCHANGED <<clock, automation, ticker, notices>>

(* The process ends: its ticks are forgotten wherever they are. *)
SchedulerCrash ==
    /\ \E p \in Ticker : ticker[p] # IdleTicker
    /\ ticker' = [p \in Ticker |-> IdleTicker]
    /\ UNCHANGED <<clock, automation, occasion, notices>>

UserEdits(a) ==
    \/ \E r \in Rules, po \in Policy : CreateAutomation(a, r, po)
    \/ \E s \in {"active", "paused"}, po \in Policy :
           UpdateAutomation(a, s, po) \/ \E r \in Rules : Reschedule(a, r, s, po)
    \/ DeleteAutomation(a) \/ RunNow(a)
TickStep(p) ==
    \/ SelectDue(p) \/ ClaimDue(p) \/ TickEnds(p)
    \/ \E c \in ticker[p].todo : SkipClaim(p, c) \/ \E o \in Occasion : CreateTask(p, c, o)
    \/ \E o \in Occasion : LinkTask(p, o)
AutoNext ==
    \/ Pass \/ SchedulerCrash
    \/ \E a \in Automation : UserEdits(a)
    \/ \E p \in Ticker : TickStep(p)
    \/ \E o \in Occasion : ResumeOccasion(o)
                           \/ \E s \in {"completed", "failed"} : FinishOccasion(o, s)
AutoSpec == AutoInit /\ [][AutoNext]_autoVars
----------------------------------------------------------------------------
AutoTypeOK ==
    /\ clock \in Nat
    /\ automation \in [Automation -> AutomationRow]
    /\ ticker \in [Ticker -> [pc: {"idle", "selected", "creating"} \union Occasion,
                              now: Nat, due: SUBSET Due, todo: SUBSET Claim]]
    /\ occasion \in [Occasion -> [status: {"none", "queued", "completed", "failed"},
                                  auto: Automation \union {{}}, arming: Nat, at: Nat]]
    /\ notices \in [Occasion -> Nat]

(* Every arming of a row is run by at most one task, and none before its time,
   however the loop, the run-now requests, edits and crashes interleave: of two
   ticks that selected a row only one claims it (scheduler.py, tick). *)
OneTaskPerArming ==
    \A o, u \in Occasion :
        /\ occasion[o].status # "none" /\ occasion[u].status # "none"
        /\ occasion[o].auto = occasion[u].auto /\ occasion[o].arming = occasion[u].arming
        => o = u
NotBeforeItsTime == \A o \in Occasion : occasion[o].at <= clock

(* An armed future time is an occurrence of the rule the row has now, although
   a tick computes it from a rule it read earlier (scheduler.py:63-68). *)
NextFollowsRule ==
    \A a \in Automation :
        automation[a].status = "active" /\ automation[a].next > clock
        => automation[a].next \in automation[a].rule

(* A task leaves at most one notification, also when it is resumed and
   finishes again (task_runtime.py, _create_automation_notification). *)
OneNoticePerTask == \A o \in Occasion : notices[o] <= 1

ScheduleKept == OneTaskPerArming /\ NotBeforeItsTime /\ NextFollowsRule /\ OneNoticePerTask
=============================================================================
