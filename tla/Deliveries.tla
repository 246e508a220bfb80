----------------------------- MODULE Deliveries -----------------------------
(* The outbox of notifications: GitHub webhooks that store an event and its  *)
(* notification, the endpoints users edit, the delivery rows, and the        *)
(* dispatchers that send them, with retries, lost answers and crashes.       *)
EXTENDS Naturals, FiniteSets

CONSTANTS
    Event,        \* GitHub delivery ids; each makes one notification
    Endpoint,     \* identifiers of notification_endpoints rows
    Dispatcher,   \* run loops of NotificationDispatcher, one per process
    Handler,      \* concurrent webhook requests
    NoRow,        \* a dispatcher that works on no row
    MaxAttempts,  \* notification_max_attempts
    MaxCrashes    \* bound: how often processes end

ASSUME DeliveriesAssumption == MaxAttempts \in Nat \ {0} /\ MaxCrashes \in Nat
ASSUME NoRowAssumption == NoRow \notin Event \X Endpoint

VARIABLES
    subscribed,   \* whether an enabled subscription matches the repository
    endpoint,     \* the rows of notification_endpoints
    hook,         \* per webhook request: the event it found new, its endpoints
    noticed,      \* how many notifications each stored event has made
    stored,       \* the delivery ids in github_webhook_events
    delivery,     \* the rows of notification_deliveries; old: in sending for 5 minutes
    dispatcher,   \* the locals of each loop: the listed ids and the row it works on
    accepted,     \* the deliveries some receiver has accepted
    slow,         \* whether a send may last longer than the recovery time
    dispatcherCrashes

deliveryVars == <<subscribed, endpoint, hook, noticed, stored, delivery, dispatcher,
                  accepted, slow, dispatcherCrashes>>
webhookVars == <<subscribed, hook, noticed, stored>>

Row == Event \X Endpoint
NoDelivery == [status |-> "absent", attempts |-> 0, old |-> FALSE]
IdleLoop == [pc |-> "idle", ids |-> {}, row |-> NoRow]
IdleHook == [event |-> {}, notify |-> FALSE, endpoints |-> {}]

DeliveryInit ==
    /\ subscribed = TRUE /\ stored = {} /\ accepted = {} /\ dispatcherCrashes = 0
    /\ endpoint = [e \in Endpoint |-> "none"]
    /\ hook = [h \in Handler |-> IdleHook]
    /\ noticed = [k \in Event |-> 0]
    /\ delivery = [r \in Row |-> NoDelivery]
    /\ dispatcher = [p \in Dispatcher |-> IdleLoop]
    /\ slow \in BOOLEAN

CreateEndpoint(e) ==
    /\ endpoint[e] = "none" /\ endpoint' = [endpoint EXCEPT ![e] = "enabled"]
    /\ UNCHANGED <<webhookVars, delivery, dispatcher, accepted, slow, dispatcherCrashes>>
UpdateEndpoint(e, s) ==
    /\ endpoint[e] \in {"enabled", "disabled"} /\ endpoint' = [endpoint EXCEPT ![e] = s]
    /\ UNCHANGED <<webhookVars, delivery, dispatcher, accepted, slow, dispatcherCrashes>>
(* The deliveries of the endpoint go with it, whatever their status. *)
DeleteEndpoint(e) ==
    /\ endpoint[e] \in {"enabled", "disabled"}
    /\ endpoint' = [endpoint EXCEPT ![e] = "deleted"]
    /\ delivery' = [r \in Row |-> IF r[2] = e THEN NoDelivery ELSE delivery[r]]
    /\ UNCHANGED <<webhookVars, dispatcher, accepted, slow, dispatcherCrashes>>

(* Subscribing again enables the row; deleting it ends the subscription. *)
Subscribe(on) ==
    /\ subscribed # on /\ subscribed' = on
    /\ UNCHANGED <<endpoint, hook, noticed, stored, delivery, dispatcher, accepted, slow,
                   dispatcherCrashes>>

(* A webhook looks for its delivery id; a stored one is answered as duplicate.
   The subscriptions and enabled endpoints are read in the same session. *)
WebhookRead(h, k) ==
    /\ hook[h] = IdleHook /\ k \notin stored
    /\ hook' = [hook EXCEPT ![h] = [event |-> k, notify |-> subscribed,
           endpoints |-> {e \in Endpoint : subscribed /\ endpoint[e] = "enabled"}]]
    /\ UNCHANGED <<subscribed, noticed, stored, endpoint, delivery, dispatcher, accepted,
                   slow, dispatcherCrashes>>

(* The commit: a unique key keeps one event per delivery id, and with it one
   notification and one delivery per endpoint. Where the
   database enforces foreign keys, an endpoint deleted meanwhile is taken for a
   duplicate as well; elsewhere the delivery is stored without its endpoint. *)
Unseen(k) == k \notin stored
WebhookCommit(h, enforced) ==
    /\ hook[h] # IdleHook
    /\ hook' = [hook EXCEPT ![h] = IdleHook]
    /\ LET k == hook[h].event
           kept == Unseen(k) /\ (enforced => \A e \in hook[h].endpoints :
                                                 endpoint[e] # "deleted")
           made == IF kept THEN {k} \X hook[h].endpoints ELSE {}
       IN  /\ stored' = IF kept THEN stored \union {k} ELSE stored
           /\ noticed' = [noticed EXCEPT ![k] = IF kept /\ hook[h].notify THEN @ + 1 ELSE @]
           /\ delivery' = [r \in Row |->
                  IF r \in made THEN [NoDelivery EXCEPT !.status = "queued"] ELSE delivery[r]]
    /\ UNCHANGED <<subscribed, endpoint, dispatcher, accepted, slow, dispatcherCrashes>>

Waiting(r) == delivery[r].status \in {"queued", "retry"}
\* Mutant: a row that is being sent is never taken back.
NeverOverdue(r) == FALSE
Overdue(r) == delivery[r].status = "sending" /\ delivery[r].old

(* tick: the rows that have been sending for five minutes go back to retry,
   then the waiting rows are listed. Their backoff only delays the tick. *)
BeginTick(p) ==
    /\ dispatcher[p].pc = "idle" /\ \E r \in Row : Overdue(r) \/ Waiting(r)
    /\ delivery' = [r \in Row |->
           IF Overdue(r) THEN [delivery[r] EXCEPT !.status = "retry"] ELSE delivery[r]]
    /\ dispatcher' = [dispatcher EXCEPT ![p] = [IdleLoop EXCEPT !.pc = "ticking",
                           !.ids = {r \in Row : Waiting(r) \/ Overdue(r)}]]
    /\ UNCHANGED <<webhookVars, endpoint, accepted, slow, dispatcherCrashes>>

(* The claim is a filtered UPDATE; a row another loop took is passed over. *)
\* Mutant: the claim trusts the list.
Listed(r) == delivery[r].status # "absent"
Free(r) == Waiting(r)
ClaimDelivery(p, r) ==
    /\ dispatcher[p].pc = "ticking" /\ r \in dispatcher[p].ids
    /\ dispatcher' = [dispatcher EXCEPT ![p].ids = @ \ {r},
           ![p].pc = IF Free(r) THEN "claimed" ELSE @,
           ![p].row = IF Free(r) THEN r ELSE NoRow]
    /\ delivery' = IF Free(r)
           THEN [delivery EXCEPT ![r] = [status |-> "sending", old |-> FALSE,
                                         attempts |-> delivery[r].attempts + 1]]
           ELSE delivery
    /\ UNCHANGED <<webhookVars, endpoint, accepted, slow, dispatcherCrashes>>
TickDone(p) ==
    /\ dispatcher[p].pc = "ticking" /\ dispatcher[p].ids = {}
    /\ dispatcher' = [dispatcher EXCEPT ![p] = IdleLoop]
    /\ UNCHANGED <<webhookVars, endpoint, delivery, accepted, slow, dispatcherCrashes>>

(* After the commit of the claim the row is read again. If it was deleted with
   its endpoint, None has no endpoint_id: the loop dies. A disabled endpoint
   fails the delivery. *)
LoadDelivery(p) ==
    LET r == dispatcher[p].row
        gone == delivery[r].status = "absent"
        on == endpoint[r[2]] = "enabled"
    IN  /\ dispatcher[p].pc = "claimed"
        /\ dispatcher' = [dispatcher EXCEPT ![p] =
               IF gone THEN [IdleLoop EXCEPT !.pc = "dead"]
               ELSE IF on THEN [@ EXCEPT !.pc = "sending"]
               ELSE [@ EXCEPT !.pc = "ticking", !.row = NoRow]]
        /\ delivery' = IF gone \/ on THEN delivery
                       ELSE [delivery EXCEPT ![r].status = "failed"]
        /\ UNCHANGED <<webhookVars, endpoint, accepted, slow, dispatcherCrashes>>

(* The request: the receiver may accept it and the answer still be lost. *)
Send(p, reached, ok) ==
    /\ dispatcher[p].pc = "sending" /\ (ok => reached)
    /\ accepted' = IF reached THEN accepted \union {dispatcher[p].row} ELSE accepted
    /\ dispatcher' = [dispatcher EXCEPT ![p].pc = IF ok THEN "sent" ELSE "error"]
    /\ UNCHANGED <<webhookVars, endpoint, delivery, slow, dispatcherCrashes>>

(* The outcome is stored by id, if the row still exists, whatever its status. *)
AfterError(r) == IF delivery[r].attempts >= MaxAttempts THEN "failed" ELSE "retry"
Settle(p) ==
    LET r == dispatcher[p].row
    IN  /\ dispatcher[p].pc \in {"sent", "error"}
        /\ delivery' = IF delivery[r].status = "absent" THEN delivery
               ELSE [delivery EXCEPT ![r].status =
                         IF dispatcher[p].pc = "sent" THEN "delivered" ELSE AfterError(r)]
        /\ dispatcher' = [dispatcher EXCEPT ![p].pc = "ticking", ![p].row = NoRow]
        /\ UNCHANGED <<webhookVars, endpoint, accepted, slow, dispatcherCrashes>>

(* Five minutes pass: less than any send takes, unless sends may be slow. *)
FiveMinutes ==
    /\ \E r \in Row : delivery[r].status = "sending" /\ ~delivery[r].old
    /\ slow \/ \A p \in Dispatcher : dispatcher[p].row = NoRow
    /\ delivery' = [r \in Row |-> [delivery[r] EXCEPT !.old =
                                       @ \/ delivery[r].status = "sending"]]
    /\ UNCHANGED <<webhookVars, endpoint, dispatcher, accepted, slow, dispatcherCrashes>>

(* A process ends and starts again: its loop is idle. *)
DispatcherRestart(p) ==
    /\ dispatcher[p] # IdleLoop /\ dispatcherCrashes < MaxCrashes
    /\ dispatcherCrashes' = dispatcherCrashes + 1
    /\ dispatcher' = [dispatcher EXCEPT ![p] = IdleLoop]
    /\ UNCHANGED <<webhookVars, endpoint, delivery, accepted, slow>>

LoopStep(p) ==
    \/ BeginTick(p) \/ TickDone(p) \/ LoadDelivery(p) \/ Settle(p)
    \/ \E r \in Row : ClaimDelivery(p, r)
    \/ \E reached, ok \in BOOLEAN : Send(p, reached, ok)
EndpointStep(e) ==
    \/ CreateEndpoint(e) \/ DeleteEndpoint(e)
    \/ \E s \in {"enabled", "disabled"} : UpdateEndpoint(e, s)
DeliveryNext ==
    \/ \E p \in Dispatcher : LoopStep(p) \/ DispatcherRestart(p)
    \/ \E e \in Endpoint : EndpointStep(e)
    \/ \E h \in Handler : \/ \E enforced \in BOOLEAN : WebhookCommit(h, enforced)
                         \/ \E k \in Event : WebhookRead(h, k)
    \/ \E on \in BOOLEAN : Subscribe(on)
    \/ FiveMinutes
DeliveryFairness == WF_deliveryVars(FiveMinutes)
                    /\ \A p \in Dispatcher : WF_deliveryVars(LoopStep(p))
DeliverySpec == DeliveryInit /\ [][DeliveryNext]_deliveryVars /\ DeliveryFairness
----------------------------------------------------------------------------
DeliveryTypeOK ==
    /\ subscribed \in BOOLEAN /\ slow \in BOOLEAN /\ dispatcherCrashes \in 0..MaxCrashes
    /\ endpoint \in [Endpoint -> {"none", "enabled", "disabled", "deleted"}]
    /\ hook \in [Handler -> [event: Event \union {{}}, notify: BOOLEAN, endpoints: SUBSET Endpoint]]
    /\ stored \subseteq Event /\ accepted \subseteq Row /\ noticed \in [Event -> Nat]
    /\ delivery \in [Row -> [status: {"absent", "queued", "retry", "sending", "delivered",
                                      "failed"}, attempts: Nat, old: BOOLEAN]]
    /\ dispatcher \in [Dispatcher ->
           [pc: {"idle", "ticking", "claimed", "sending", "sent", "error", "dead"},
            ids: SUBSET Row, row: Row \union {NoRow}]]

(* What the outbox promises: an event makes one notification although two
   requests found it new; a delivery shown as delivered reached its receiver;
   and while sends are faster than the recovery no two loops send the same row,
   nor is a delivered row sent again (notifications.py, platform.py webhook). *)
OneNoticePerEvent == \A k \in Event : noticed[k] <= 1
DeliveredWasAccepted == \A r \in Row : delivery[r].status = "delivered" => r \in accepted
OneSender ==
    ~slow => \A p \in Dispatcher : dispatcher[p].row # NoRow =>
        /\ \A q \in Dispatcher \ {p} : dispatcher[q].row # dispatcher[p].row
        /\ delivery[dispatcher[p].row].status \in {"sending", "absent"}
OutboxSafe == OneNoticePerEvent /\ DeliveredWasAccepted /\ OneSender

(* Every delivery is delivered, failed or deleted with its endpoint in the end,
   slow sends, restarts and lost answers included, while some loop is alive:
   a loop dies when an endpoint is deleted between its claim and its read
   (notifications.py:92-104), and nothing starts it again. *)
DeliverySettles ==
    \A r \in Row : delivery[r].status \in {"queued", "retry", "sending"}
        ~> \/ delivery[r].status \in {"delivered", "failed", "absent"}
           \/ \A p \in Dispatcher : dispatcher[p].pc = "dead"
=============================================================================
