-------------------------- MODULE DeliveriesProofs --------------------------
(* The outbox of Deliveries is safe for any number of events, endpoints,     *)
(* dispatchers and webhook requests.                                         *)
EXTENDS Deliveries, TLAPS

(* An event has a notification and deliveries only once it is stored. *)
StoredInv ==
    /\ \A h \in Handler : hook[h] # IdleHook => hook[h].event \in Event
    /\ \A k \in Event \ stored : noticed[k] = 0
    /\ \A r \in Row : delivery[r].status # "absent" => r[1] \in stored

(* A loop holds a row from its claim to its outcome; the row's event is stored,
   so no webhook can make the delivery a second time after it was deleted; and
   a request that succeeded was accepted. *)
HoldsRow == {"claimed", "sending", "sent", "error"}
LoopInv == \A p \in Dispatcher :
    /\ dispatcher[p].pc \in HoldsRow => dispatcher[p].row \in Row
    /\ dispatcher[p].pc \notin HoldsRow => dispatcher[p].row = NoRow
    /\ \A r \in Row : dispatcher[p].row = r => r[1] \in stored
    /\ dispatcher[p].pc = "sent" => dispatcher[p].row \in accepted

(* While sends are fast, a row that is taken back is held by no loop. *)
AgeInv == ~slow => \A r \in Row : Overdue(r) => \A p \in Dispatcher : dispatcher[p].row # r

DeliveryParts == OutboxSafe /\ StoredInv /\ LoopInv /\ AgeInv
DeliveryInv == DeliveryTypeOK /\ DeliveryParts

(* The outbox is empty and every loop idle. *)
LEMMA DeliveryInitHolds == DeliveryInit => DeliveryInv
<1> SUFFICES ASSUME DeliveryInit PROVE DeliveryInv
  OBVIOUS
<1> USE DeliveriesAssumption, NoRowAssumption
        DEF DeliveryInit, IdleLoop, IdleHook, NoDelivery
<1>1. DeliveryTypeOK
  BY DEF DeliveryTypeOK
<1>2. OutboxSafe
  BY DEF OutboxSafe, OneNoticePerEvent, DeliveredWasAccepted, OneSender
<1>3. StoredInv /\ LoopInv /\ AgeInv
  BY DEF StoredInv, LoopInv, AgeInv, Overdue, HoldsRow, Row
<1> QED BY <1>1, <1>2, <1>3 DEF DeliveryInv, DeliveryParts

(* The parts speak of few variables: a step that leaves those alone keeps them. *)
LEMMA FrameKeeps ==
    ASSUME DeliveryParts, UNCHANGED <<noticed, stored, delivery, dispatcher, accepted, slow>>,
           \A h \in Handler : hook'[h] # IdleHook => hook'[h].event \in Event
    PROVE  DeliveryParts'
BY DEF DeliveryParts, OutboxSafe, OneNoticePerEvent, DeliveredWasAccepted, OneSender, StoredInv,
       LoopInv, AgeInv, Overdue

(* Rows that are deleted, given back while nobody holds them, or grow old while
   nobody holds any, do not disturb the loops. *)
LEMMA RowsKeep ==
    ASSUME DeliveryParts, UNCHANGED <<webhookVars, accepted, slow>>,
           \A r \in Row :
               \/ delivery'[r] = delivery[r]
               \/ delivery'[r].status = "absent"
               \/ delivery'[r].status = "retry" /\ Overdue(r)
               \/ /\ delivery'[r].status = "sending" /\ delivery[r].status = "sending"
                  /\ slow \/ \A p \in Dispatcher : dispatcher[p].row = NoRow,
           \A p \in Dispatcher :
               \/ dispatcher'[p] = dispatcher[p]
               \/ dispatcher'[p].pc \notin HoldsRow /\ dispatcher'[p].row = NoRow
    PROVE  DeliveryParts'
<1> USE NoRowAssumption DEF Row, HoldsRow
<1>1. /\ \A p \in Dispatcher : dispatcher'[p].row \in {dispatcher[p].row, NoRow}
      /\ UNCHANGED <<subscribed, hook, noticed, stored>>
  BY DEF webhookVars
<1>2. OneNoticePerEvent' /\ DeliveredWasAccepted' /\ StoredInv'
  <2>1. \A r \in Row : delivery'[r].status # "absent" => delivery[r].status # "absent"
    BY DEF Overdue
  <2>2. \A r \in Row : delivery'[r].status = "delivered" => delivery[r].status = "delivered"
    OBVIOUS
  <2> QED BY <1>1, <2>1, <2>2 DEF DeliveryParts, OutboxSafe, OneNoticePerEvent, DeliveredWasAccepted,
                                   StoredInv
<1>3. LoopInv'
  BY <1>1 DEF DeliveryParts, LoopInv
<1>4. OneSender' /\ AgeInv'
  <2> SUFFICES ASSUME ~slow PROVE OneSender' /\ AgeInv'
    BY DEF OneSender, AgeInv
  <2>1. \A p \in Dispatcher : dispatcher'[p].row # NoRow =>
            dispatcher'[p].row = dispatcher[p].row /\ dispatcher[p].row \in Row
    BY <1>1 DEF DeliveryParts, LoopInv
  <2>2. ASSUME NEW p \in Dispatcher, dispatcher'[p].row # NoRow
        PROVE  /\ \A q \in Dispatcher \ {p} : dispatcher'[q].row # dispatcher'[p].row
               /\ delivery'[dispatcher'[p].row].status \in {"sending", "absent"}
               /\ \A r \in Row : r = dispatcher'[p].row => ~Overdue(r)'
    <3>1. PICK r \in Row : r # NoRow /\ dispatcher[p].row = r /\ dispatcher'[p].row = r
      BY <2>1, <2>2
    <3>2. ~Overdue(r) /\ delivery[r].status \in {"sending", "absent"}
      BY <3>1 DEF DeliveryParts, OutboxSafe, OneSender, AgeInv
    <3>3. \A q \in Dispatcher \ {p} : dispatcher[q].row # r
      BY <3>1 DEF DeliveryParts, OutboxSafe, OneSender
    <3>4. delivery'[r] = delivery[r] \/ delivery'[r].status = "absent"
      BY <3>1, <3>2
    <3>5. ~Overdue(r)' /\ delivery'[r].status \in {"sending", "absent"}
      <4>1. CASE delivery'[r] = delivery[r]
        BY <3>2, <4>1, Zenon DEF Overdue
      <4>2. CASE delivery'[r].status = "absent"
        BY <4>2 DEF Overdue
      <4> QED BY <3>4, <4>1, <4>2
    <3>6. \A q \in Dispatcher \ {p} : dispatcher'[q].row # r
      BY <1>1, <3>1, <3>3
    <3> QED BY <3>1, <3>5, <3>6 DEF Overdue
  <2>3. OneSender'
    BY <2>2 DEF OneSender
  <2>4. AgeInv'
    BY <2>1, <2>2 DEF AgeInv
  <2> QED BY <2>3, <2>4
<1> QED BY <1>2, <1>3, <1>4 DEF DeliveryParts, OutboxSafe

(* A claim takes a waiting row, which no loop holds while sends are fast. *)
LEMMA ClaimKeeps == ASSUME DeliveryInv, NEW p \in Dispatcher, NEW r \in Row, ClaimDelivery(p, r)
                    PROVE  DeliveryParts'
<1> USE NoRowAssumption DEF HoldsRow
<1>1. DeliveryParts /\ dispatcher[p].pc = "ticking" /\ dispatcher[p].row = NoRow /\ r # NoRow
      /\ UNCHANGED <<webhookVars, accepted, slow>>
  BY DEF DeliveryInv, DeliveryParts, LoopInv, ClaimDelivery, Row
<1>2. CASE ~Free(r)
  <2>1. delivery' = delivery /\ \A q \in Dispatcher :
            \/ dispatcher'[q] = dispatcher[q]
            \/ dispatcher'[q].pc \notin HoldsRow /\ dispatcher'[q].row = NoRow
    BY <1>1, <1>2 DEF ClaimDelivery, DeliveryInv, DeliveryTypeOK
  <2> QED BY <1>1, <2>1, RowsKeep
<1>3. CASE Free(r)
  <2>1. delivery[r].status \in {"queued", "retry"}
    BY <1>3 DEF Free, Waiting
  <2>2. /\ delivery'[r].status = "sending" /\ delivery'[r].old = FALSE
        /\ \A s \in Row \ {r} : delivery'[s] = delivery[s]
    BY <1>3 DEF ClaimDelivery, DeliveryInv, DeliveryTypeOK
  <2>3. /\ dispatcher'[p].pc = "claimed" /\ dispatcher'[p].row = r
        /\ \A q \in Dispatcher \ {p} : dispatcher'[q] = dispatcher[q]
    BY <1>3 DEF ClaimDelivery, DeliveryInv, DeliveryTypeOK
  <2>4. ~slow => \A q \in Dispatcher : dispatcher[q].row # r
    BY <1>1, <2>1 DEF DeliveryParts, OutboxSafe, OneSender
  <2>5. r[1] \in stored
    BY <1>1, <2>1 DEF DeliveryParts, StoredInv
  <2>6. UNCHANGED <<hook, noticed, stored, accepted, slow>>
    BY <1>1 DEF webhookVars
  <2>7. OneNoticePerEvent' /\ DeliveredWasAccepted' /\ StoredInv'
    BY <1>1, <2>1, <2>2, <2>5, <2>6 DEF DeliveryParts, OutboxSafe, OneNoticePerEvent,
       DeliveredWasAccepted, StoredInv
  <2>8. LoopInv'
    BY <1>1, <2>3, <2>5, <2>6 DEF DeliveryParts, LoopInv
  <2>9. OneSender' /\ AgeInv'
    <3> SUFFICES ASSUME ~slow PROVE OneSender' /\ AgeInv'
      BY <2>6 DEF OneSender, AgeInv
    <3>1. \A q \in Dispatcher \ {p} : dispatcher'[q].row # r
      BY <2>3, <2>4
    <3>2. OneSender'
      BY <1>1, <2>2, <2>3, <3>1 DEF DeliveryParts, LoopInv, OutboxSafe, OneSender
    <3>3. \A s \in Row : Overdue(s)' => s # r /\ Overdue(s)
      <4>1. ~Overdue(r)'
        BY <2>2 DEF Overdue
      <4>2. \A s \in Row \ {r} : Overdue(s)' => Overdue(s)
        BY <2>2, Zenon DEF Overdue
      <4> QED BY <4>1, <4>2
    <3>4. AgeInv'
      BY <1>1, <2>3, <3>3 DEF DeliveryParts, AgeInv
    <3> QED BY <3>2, <3>4
  <2> QED BY <2>7, <2>8, <2>9 DEF DeliveryParts, OutboxSafe
<1> QED BY <1>2, <1>3

(* A loop that goes on with its row; what a receiver accepted stays accepted. *)
LEMMA HoldKeeps ==
    ASSUME DeliveryInv, NEW p \in Dispatcher, dispatcher[p].pc \in HoldsRow,
           dispatcher'[p].pc \in HoldsRow, dispatcher'[p].row = dispatcher[p].row,
           dispatcher'[p].pc = "sent" => dispatcher[p].row \in accepted',
           \A q \in Dispatcher \ {p} : dispatcher'[q] = dispatcher[q],
           accepted \subseteq accepted',
           UNCHANGED <<hook, noticed, stored, delivery, slow>>
    PROVE  DeliveryParts'
<1> USE NoRowAssumption DEF HoldsRow
<1>1. DeliveryParts /\ dispatcher[p].row \in Row
  BY DEF DeliveryInv, DeliveryParts, LoopInv
<1>2. OneNoticePerEvent' /\ DeliveredWasAccepted' /\ StoredInv'
  BY <1>1 DEF DeliveryParts, OutboxSafe, OneNoticePerEvent, DeliveredWasAccepted, StoredInv
<1>3. LoopInv'
  BY <1>1 DEF DeliveryParts, LoopInv
<1>4. OneSender' /\ AgeInv'
  <2>1. \A q \in Dispatcher : dispatcher'[q].row = dispatcher[q].row
    OBVIOUS
  <2> QED BY <1>1, <2>1 DEF DeliveryParts, OutboxSafe, OneSender, AgeInv, Overdue
<1> QED BY <1>2, <1>3, <1>4 DEF DeliveryParts, OutboxSafe

(* A loop that gives its row up, after storing an outcome or for good. *)
LEMMA ReleaseKeeps ==
    ASSUME DeliveryInv, NEW p \in Dispatcher, dispatcher[p].pc \in HoldsRow,
           dispatcher'[p].pc \notin HoldsRow, dispatcher'[p].row = NoRow,
           \A q \in Dispatcher \ {p} : dispatcher'[q] = dispatcher[q],
           \A s \in Row \ {dispatcher[p].row} : delivery'[s] = delivery[s],
           \/ delivery'[dispatcher[p].row] = delivery[dispatcher[p].row]
           \/ /\ delivery[dispatcher[p].row].status # "absent"
              /\ delivery'[dispatcher[p].row].status \in {"failed", "retry"}
           \/ /\ delivery[dispatcher[p].row].status # "absent"
              /\ delivery'[dispatcher[p].row].status = "delivered"
              /\ dispatcher[p].pc = "sent",
           UNCHANGED <<webhookVars, accepted, slow>>
    PROVE  DeliveryParts'
<1> USE NoRowAssumption DEF HoldsRow
<1> DEFINE r == dispatcher[p].row
<1>1. DeliveryParts /\ r \in Row /\ r # NoRow /\ UNCHANGED <<hook, noticed, stored>>
      /\ (dispatcher[p].pc = "sent" => r \in accepted)
  BY DEF DeliveryInv, DeliveryParts, LoopInv, webhookVars, Row
<1>2. OneNoticePerEvent' /\ DeliveredWasAccepted' /\ StoredInv'
  BY <1>1 DEF DeliveryParts, OutboxSafe, OneNoticePerEvent, DeliveredWasAccepted, StoredInv
<1>3. LoopInv'
  BY <1>1 DEF DeliveryParts, LoopInv, Row
<1>4. OneSender' /\ AgeInv'
  <2> SUFFICES ASSUME ~slow PROVE OneSender' /\ AgeInv'
    BY DEF OneSender, AgeInv
  <2>1. \A q \in Dispatcher : dispatcher'[q].row # NoRow =>
            q # p /\ dispatcher'[q] = dispatcher[q] /\ dispatcher[q].row # r
            /\ dispatcher[q].row \in Row
    BY <1>1 DEF DeliveryParts, OutboxSafe, OneSender, LoopInv
  <2>2. OneSender'
    BY <1>1, <2>1 DEF DeliveryParts, OutboxSafe, OneSender
  <2>3. \A s \in Row \ {r} : Overdue(s)' => Overdue(s)
    BY Zenon DEF Overdue
  <2>4. \A q \in Dispatcher : dispatcher'[q].row # r
    BY <1>1, <2>1
  <2>5. AgeInv'
    BY <1>1, <2>1, <2>3, <2>4 DEF DeliveryParts, AgeInv, Row
  <2> QED BY <2>2, <2>5
<1> QED BY <1>2, <1>3, <1>4 DEF DeliveryParts, OutboxSafe

(* The commit of a webhook stores an event no loop can hold a row of yet. *)
Queued(k, r) == r[1] = k /\ delivery'[r].status = "queued"
Stores(k) ==
    /\ k \notin stored /\ stored' = stored \union {k}
    /\ \A j \in Event : noticed'[j] = noticed[j] \/ (j = k /\ noticed'[j] = noticed[j] + 1)
    /\ \A r \in Row : delivery'[r] = delivery[r] \/ Queued(k, r)
LEMMA WebhookKeeps == ASSUME DeliveryInv, NEW h \in Handler, NEW enforced \in BOOLEAN,
                             WebhookCommit(h, enforced)
                      PROVE  DeliveryParts'
<1> DEFINE k == hook[h].event
<1>1. DeliveryParts /\ k \in Event /\ UNCHANGED <<dispatcher, accepted, slow>>
      /\ \A g \in Handler : hook'[g] # IdleHook => hook'[g].event \in Event
  BY DEF DeliveryInv, DeliveryTypeOK, DeliveryParts, StoredInv, WebhookCommit
<1>2. UNCHANGED <<noticed, stored, delivery>> \/ Stores(k)
  <2> DEFINE kept == Unseen(k) /\ (enforced => \A e \in hook[h].endpoints :
                                                  endpoint[e] # "deleted")
  <2>1. CASE ~kept
    <3>1. stored' = stored /\ noticed' = [noticed EXCEPT ![k] = @]
          /\ delivery' = [r \in Row |-> delivery[r]]
      BY <2>1 DEF WebhookCommit
    <3>2. noticed' = noticed /\ delivery' = delivery
      BY <3>1 DEF DeliveryInv, DeliveryTypeOK
    <3> QED BY <3>1, <3>2
  <2>2. CASE kept
    <3>1. k \notin stored /\ stored' = stored \union {k}
      BY <2>2 DEF WebhookCommit, Unseen
    <3>2. noticed' = [noticed EXCEPT ![k] = IF hook[h].notify THEN noticed[k] + 1
                                            ELSE noticed[k]]
      BY <2>2 DEF WebhookCommit
    <3>3. \A j \in Event : noticed'[j] = noticed[j] \/ (j = k /\ noticed'[j] = noticed[j] + 1)
      <4>1. noticed \in [Event -> Nat]
        BY DEF DeliveryInv, DeliveryTypeOK
      <4>2. \E n \in {noticed[k], noticed[k] + 1} : noticed' = [noticed EXCEPT ![k] = n]
        BY <3>2
      <4> HIDE DEF k
      <4> QED BY <4>1, <4>2
    <3>4. delivery' = [r \in Row |->
              IF r \in {k} \X hook[h].endpoints THEN [NoDelivery EXCEPT !.status = "queued"]
              ELSE delivery[r]]
      BY <2>2 DEF WebhookCommit
    <3>5. \A r \in Row : delivery'[r] = delivery[r] \/ Queued(k, r)
      <4> TAKE r \in Row
      <4>1. CASE r \in {k} \X hook[h].endpoints
        <5>1. r[1] = k
          BY <4>1
        <5>2. delivery'[r] = [NoDelivery EXCEPT !.status = "queued"]
          BY <3>4, <4>1, Zenon
        <5> QED BY <5>1, <5>2 DEF NoDelivery, Queued
      <4>2. CASE r \notin {k} \X hook[h].endpoints
        BY <3>4, <4>2
      <4> QED BY <4>1, <4>2
    <3> QED BY <3>1, <3>3, <3>5 DEF Stores
  <2> QED BY <2>1, <2>2
<1>3. CASE UNCHANGED <<noticed, stored, delivery>>
  BY <1>1, <1>3, FrameKeeps
<1>4. CASE Stores(k)
  <2>1. \A p \in Dispatcher : \A r \in Row : dispatcher[p].row = r => r[1] # k
    BY <1>1, <1>4 DEF DeliveryParts, LoopInv, Stores
  <2>2. OneNoticePerEvent'
    <3>1. noticed[k] = 0 /\ \A j \in Event : noticed[j] \in Nat
      BY <1>1, <1>4 DEF Stores, DeliveryParts, StoredInv, DeliveryInv, DeliveryTypeOK
    <3> QED BY <1>1, <1>4, <3>1 DEF Stores, DeliveryParts, OutboxSafe, OneNoticePerEvent
  <2>3. DeliveredWasAccepted' /\ StoredInv' /\ LoopInv'
    BY <1>1, <1>4 DEF Stores, Queued, DeliveryParts, OutboxSafe, DeliveredWasAccepted, StoredInv, LoopInv
  <2>4. OneSender'
    <3>1. \A p \in Dispatcher : dispatcher[p].row # NoRow =>
              dispatcher[p].row \in Row /\ delivery'[dispatcher[p].row] = delivery[dispatcher[p].row]
      BY <1>1, <1>4, <2>1 DEF Stores, Queued, DeliveryParts, LoopInv
    <3> QED BY <1>1, <3>1 DEF DeliveryParts, OutboxSafe, OneSender
  <2>5. AgeInv'
    <3>1. \A r \in Row : Overdue(r)' => Overdue(r)
      <4> TAKE r \in Row
      <4>1. CASE delivery'[r] = delivery[r]
        BY <4>1, Zenon DEF Overdue
      <4>2. CASE delivery'[r].status = "queued"
        BY <4>2 DEF Overdue
      <4> QED BY <1>4, <4>1, <4>2 DEF Stores, Queued
    <3> QED BY <1>1, <3>1 DEF DeliveryParts, AgeInv
  <2> QED BY <2>2, <2>3, <2>4, <2>5 DEF DeliveryParts, OutboxSafe
<1> QED BY <1>2, <1>3, <1>4

(* Every step of a loop keeps the parts. *)
LEMMA LoopKeeps == ASSUME DeliveryInv, NEW p \in Dispatcher, LoopStep(p) \/ DispatcherRestart(p)
                   PROVE  DeliveryParts'
<1> USE DEF HoldsRow
<1>1. DeliveryParts /\ DeliveryTypeOK
  BY DEF DeliveryInv
<1>2. CASE BeginTick(p) \/ TickDone(p) \/ DispatcherRestart(p)
  <2>1. \A r \in Row : delivery'[r] = delivery[r]
                       \/ (delivery'[r].status = "retry" /\ Overdue(r))
    <3>1. CASE BeginTick(p)
      <4> TAKE r \in Row
      <4>1. delivery'[r] = IF Overdue(r) THEN [delivery[r] EXCEPT !.status = "retry"]
                           ELSE delivery[r]
        BY <3>1, Zenon DEF BeginTick
      <4>2. delivery[r] \in [status: {"absent", "queued", "retry", "sending", "delivered",
                                      "failed"}, attempts: Nat, old: BOOLEAN]
        BY <1>1 DEF DeliveryTypeOK
      <4>3. CASE Overdue(r)
        <5>1. delivery'[r] = [delivery[r] EXCEPT !.status = "retry"]
          BY <4>1, <4>3, Zenon
        <5>2. delivery'[r].status = "retry"
          BY <4>2, <5>1
        <5> QED BY <4>3, <5>2
      <4>4. CASE ~Overdue(r)
        <5>1. delivery'[r] = delivery[r]
          BY <4>1, <4>4
        <5> QED BY <5>1, Zenon
      <4> QED BY <4>3, <4>4
    <3>2. CASE TickDone(p) \/ DispatcherRestart(p)
      <4>1. delivery' = delivery
        BY <3>2 DEF TickDone, DispatcherRestart
      <4> QED BY <4>1, Zenon
    <3> QED BY <1>2, <3>1, <3>2
  <2>2. \A q \in Dispatcher :
            \/ dispatcher'[q] = dispatcher[q]
            \/ dispatcher'[q].pc \notin HoldsRow /\ dispatcher'[q].row = NoRow
    <3>1. PICK ids \in SUBSET Row : dispatcher' \in
              {[dispatcher EXCEPT ![p] = IdleLoop],
               [dispatcher EXCEPT ![p] = [IdleLoop EXCEPT !.pc = "ticking", !.ids = ids]]}
      <4>1. CASE BeginTick(p)
        BY <4>1 DEF BeginTick
      <4>2. CASE TickDone(p) \/ DispatcherRestart(p)
        BY <4>2 DEF TickDone, DispatcherRestart
      <4> QED BY <1>2, <4>1, <4>2
    <3>2. ASSUME NEW q \in Dispatcher, q # p PROVE dispatcher'[q] = dispatcher[q]
      BY <1>1, <3>1, <3>2 DEF DeliveryTypeOK
    <3>3. dispatcher'[p].pc \notin HoldsRow /\ dispatcher'[p].row = NoRow
      <4>1. /\ IdleLoop.pc = "idle" /\ IdleLoop.row = NoRow
            /\ [IdleLoop EXCEPT !.pc = "ticking", !.ids = ids].pc = "ticking"
            /\ [IdleLoop EXCEPT !.pc = "ticking", !.ids = ids].row = NoRow
        BY DEF IdleLoop
      <4>2. dispatcher'[p] \in {IdleLoop, [IdleLoop EXCEPT !.pc = "ticking", !.ids = ids]}
        BY <1>1, <3>1 DEF DeliveryTypeOK
      <4> QED BY <4>1, <4>2
    <3> QED BY <3>2, <3>3
  <2>3. UNCHANGED <<webhookVars, accepted, slow>>
    BY <1>2 DEF BeginTick, TickDone, DispatcherRestart
  <2> QED BY <1>1, <2>1, <2>2, <2>3, RowsKeep
<1>3. ASSUME NEW r \in Row, ClaimDelivery(p, r) PROVE DeliveryParts'
  BY <1>3, ClaimKeeps
<1>4. ASSUME NEW reached \in BOOLEAN, NEW ok \in BOOLEAN, Send(p, reached, ok) PROVE DeliveryParts'
  <2>1. /\ dispatcher[p].pc = "sending" /\ dispatcher'[p].pc \in {"sent", "error"}
        /\ dispatcher'[p].row = dispatcher[p].row
        /\ \A q \in Dispatcher \ {p} : dispatcher'[q] = dispatcher[q]
    BY <1>1, <1>4 DEF Send, DeliveryTypeOK
  <2>2. accepted \subseteq accepted'
        /\ (dispatcher'[p].pc = "sent" => dispatcher[p].row \in accepted')
    <3>1. CASE reached
      BY <1>4, <3>1 DEF Send
    <3>2. CASE ~reached
      BY <1>1, <1>4, <3>2 DEF Send, DeliveryTypeOK
    <3> QED BY <3>1, <3>2
  <2>3. UNCHANGED <<hook, noticed, stored, delivery, slow>>
    BY <1>4 DEF Send, webhookVars
  <2> QED BY <2>1, <2>2, <2>3, HoldKeeps
<1>5. CASE LoadDelivery(p)
  <2> DEFINE row == dispatcher[p].row
  <2>1. /\ dispatcher[p].pc = "claimed" /\ UNCHANGED <<webhookVars, endpoint, accepted, slow>>
        /\ \A q \in Dispatcher \ {p} : dispatcher'[q] = dispatcher[q]
    BY <1>1, <1>5 DEF LoadDelivery, DeliveryTypeOK
  <2>2. CASE delivery[row].status = "absent"
    <3>1. dispatcher'[p].pc = "dead" /\ dispatcher'[p].row = NoRow /\ delivery' = delivery
      BY <1>1, <1>5, <2>2 DEF LoadDelivery, DeliveryTypeOK, IdleLoop
    <3> QED BY <2>1, <3>1, ReleaseKeeps
  <2>3. CASE delivery[row].status # "absent" /\ endpoint[row[2]] = "enabled"
    <3>1. dispatcher'[p].pc = "sending" /\ dispatcher'[p].row = row /\ delivery' = delivery
      BY <1>1, <1>5, <2>3 DEF LoadDelivery, DeliveryTypeOK
    <3>2. UNCHANGED <<hook, noticed, stored, delivery, slow>> /\ accepted' = accepted
      BY <2>1, <3>1 DEF webhookVars
    <3> QED BY <2>1, <3>1, <3>2, HoldKeeps
  <2>4. CASE delivery[row].status # "absent" /\ endpoint[row[2]] # "enabled"
    <3>1. row \in Row
      BY <1>1, <2>1 DEF DeliveryParts, LoopInv
    <3>2. /\ dispatcher'[p].pc = "ticking" /\ dispatcher'[p].row = NoRow
          /\ delivery' = [delivery EXCEPT ![row].status = "failed"]
      BY <1>1, <1>5, <2>4 DEF LoadDelivery, DeliveryTypeOK
    <3>3. delivery'[row].status = "failed" /\ \A s \in Row \ {row} : delivery'[s] = delivery[s]
      BY <1>1, <3>1, <3>2 DEF DeliveryTypeOK
    <3> QED BY <2>1, <2>4, <3>2, <3>3, ReleaseKeeps
  <2> QED BY <2>2, <2>3, <2>4
<1>6. CASE Settle(p)
  <2> DEFINE row == dispatcher[p].row
  <2>1. /\ dispatcher[p].pc \in {"sent", "error"} /\ UNCHANGED <<webhookVars, accepted, slow>>
        /\ \A q \in Dispatcher \ {p} : dispatcher'[q] = dispatcher[q]
        /\ dispatcher'[p].pc = "ticking" /\ dispatcher'[p].row = NoRow
    BY <1>1, <1>6 DEF Settle, DeliveryTypeOK
  <2>2. row \in Row
    BY <1>1, <2>1 DEF DeliveryParts, LoopInv
  <2>3. CASE delivery[row].status = "absent"
    <3>1. delivery' = delivery
      BY <1>6, <2>3 DEF Settle
    <3> QED BY <2>1, <3>1, ReleaseKeeps
  <2>4. CASE delivery[row].status # "absent"
    <3>1. delivery' = [delivery EXCEPT ![row].status =
                           IF dispatcher[p].pc = "sent" THEN "delivered" ELSE AfterError(row)]
      BY <1>6, <2>4 DEF Settle
    <3>2. /\ \A s \in Row \ {row} : delivery'[s] = delivery[s]
          /\ \/ delivery'[row].status \in {"failed", "retry"}
             \/ delivery'[row].status = "delivered" /\ dispatcher[p].pc = "sent"
      BY <1>1, <2>2, <3>1 DEF DeliveryTypeOK, AfterError
    <3> QED BY <2>1, <2>4, <3>2, ReleaseKeeps
  <2> QED BY <2>3, <2>4
<1> QED BY <1>2, <1>3, <1>4, <1>5, <1>6 DEF LoopStep

(* Editing endpoints and subscriptions, reading for a webhook, and time. *)
LEMMA OthersKeep ==
    ASSUME DeliveryInv,
           \/ \E e \in Endpoint : EndpointStep(e)
           \/ \E on \in BOOLEAN : Subscribe(on)
           \/ \E h \in Handler, k \in Event : WebhookRead(h, k)
           \/ FiveMinutes
    PROVE  DeliveryParts'
<1>1. DeliveryParts /\ DeliveryTypeOK
  BY DEF DeliveryInv
<1>2. ASSUME NEW e \in Endpoint, DeleteEndpoint(e) PROVE DeliveryParts'
  <2>1. \A r \in Row : delivery'[r] = delivery[r] \/ delivery'[r].status = "absent"
    BY <1>1, <1>2 DEF DeleteEndpoint, DeliveryTypeOK, NoDelivery
  <2> QED BY <1>1, <1>2, <2>1, RowsKeep DEF DeleteEndpoint
<1>3. ASSUME NEW e \in Endpoint, CreateEndpoint(e) \/ \E u \in {"enabled", "disabled"} :
                                                          UpdateEndpoint(e, u)
      PROVE  DeliveryParts'
  <2>1. UNCHANGED <<webhookVars, delivery, dispatcher, accepted, slow>>
    BY <1>3 DEF CreateEndpoint, UpdateEndpoint
  <2>2. \A h \in Handler : hook'[h] # IdleHook => hook'[h].event \in Event
    BY <1>1, <2>1 DEF webhookVars, DeliveryParts, StoredInv
  <2> QED BY <1>1, <2>1, <2>2, FrameKeeps DEF webhookVars
<1>4. ASSUME NEW on \in BOOLEAN, Subscribe(on) PROVE DeliveryParts'
  <2>1. UNCHANGED <<hook, noticed, stored, delivery, dispatcher, accepted, slow>>
    BY <1>4 DEF Subscribe
  <2> QED BY <1>1, <2>1, FrameKeeps DEF DeliveryParts, StoredInv
<1>5. ASSUME NEW h \in Handler, NEW k \in Event, WebhookRead(h, k) PROVE DeliveryParts'
  <2>1. /\ hook'[h].event = k /\ \A g \in Handler \ {h} : hook'[g] = hook[g]
        /\ UNCHANGED <<noticed, stored, delivery, dispatcher, accepted, slow>>
    BY <1>1, <1>5 DEF WebhookRead, DeliveryTypeOK
  <2> QED BY <1>1, <2>1, FrameKeeps DEF DeliveryParts, StoredInv
<1>6. CASE FiveMinutes
  <2>1. UNCHANGED <<webhookVars, dispatcher, accepted, slow>>
        /\ (slow \/ \A p \in Dispatcher : dispatcher[p].row = NoRow)
    BY <1>6 DEF FiveMinutes
  <2>2. ASSUME NEW r \in Row
        PROVE  delivery'[r] = delivery[r]
               \/ (delivery'[r].status = "sending" /\ delivery[r].status = "sending")
    <3>1. delivery[r] \in [status: {"absent", "queued", "retry", "sending", "delivered",
                                    "failed"}, attempts: Nat, old: BOOLEAN]
      BY <1>1 DEF DeliveryTypeOK
    <3>2. delivery'[r] = [delivery[r] EXCEPT !.old =
                              delivery[r].old \/ delivery[r].status = "sending"]
      BY <1>6 DEF FiveMinutes
    <3>3. CASE delivery[r].status = "sending"
      BY <3>1, <3>2, <3>3
    <3>4. CASE delivery[r].status # "sending"
      <4>1. (delivery[r].old \/ delivery[r].status = "sending") = delivery[r].old
        <5>1. delivery[r].old \in BOOLEAN
          BY <3>1
        <5> QED BY <3>4, <5>1, Zenon
      <4>2. delivery'[r] = [delivery[r] EXCEPT !.old = delivery[r].old]
        BY <3>2, <4>1, Zenon
      <4> QED BY <3>1, <4>2
    <3> QED BY <3>3, <3>4
  <2> QED BY <1>1, <2>1, <2>2, RowsKeep
<1> QED BY <1>2, <1>3, <1>4, <1>5, <1>6 DEF EndpointStep

(* The types of the rows and locals. *)
DeliveryRow == [status: {"absent", "queued", "retry", "sending", "delivered", "failed"},
                attempts: Nat, old: BOOLEAN]
HookPlace == [event: Event \union {{}}, notify: BOOLEAN, endpoints: SUBSET Endpoint]
LoopPlace == [pc: {"idle", "ticking", "claimed", "sending", "sent", "error", "dead"},
              ids: SUBSET Row, row: Row \union {NoRow}]

(* What a webhook or a user does keeps the types. *)
LEMMA RequestTypes ==
    ASSUME DeliveryInv,
           \/ \E e \in Endpoint : EndpointStep(e)
           \/ \E on \in BOOLEAN : Subscribe(on)
           \/ \E h \in Handler, k \in Event : WebhookRead(h, k)
           \/ \E h \in Handler, enforced \in BOOLEAN : WebhookCommit(h, enforced)
           \/ FiveMinutes
    PROVE  DeliveryTypeOK'
<1>1. DeliveryTypeOK /\ DeliveryParts
  BY DEF DeliveryInv
<1>2. NoDelivery \in DeliveryRow /\ [NoDelivery EXCEPT !.status = "queued"] \in DeliveryRow
      /\ IdleHook \in HookPlace
  BY DEF NoDelivery, DeliveryRow, IdleHook, HookPlace
<1>3. delivery \in [Row -> DeliveryRow] /\ hook \in [Handler -> HookPlace]
  BY <1>1 DEF DeliveryTypeOK, DeliveryRow, HookPlace
<1>4. ASSUME NEW e \in Endpoint, EndpointStep(e) PROVE DeliveryTypeOK'
  <2>1. endpoint' \in [Endpoint -> {"none", "enabled", "disabled", "deleted"}]
    BY <1>1, <1>4 DEF EndpointStep, CreateEndpoint, UpdateEndpoint, DeleteEndpoint, DeliveryTypeOK
  <2>2. delivery' \in [Row -> DeliveryRow]
    BY <1>2, <1>3, <1>4 DEF EndpointStep, CreateEndpoint, UpdateEndpoint, DeleteEndpoint
  <2>3. UNCHANGED <<webhookVars, dispatcher, accepted, slow, dispatcherCrashes>>
    BY <1>4 DEF EndpointStep, CreateEndpoint, UpdateEndpoint, DeleteEndpoint
  <2> QED BY <1>1, <2>1, <2>2, <2>3 DEF webhookVars, DeliveryTypeOK, DeliveryRow
<1>5. ASSUME NEW on \in BOOLEAN, Subscribe(on) PROVE DeliveryTypeOK'
  BY <1>1, <1>5 DEF Subscribe, DeliveryTypeOK
<1>6. ASSUME NEW h \in Handler, NEW k \in Event, WebhookRead(h, k) PROVE DeliveryTypeOK'
  <2> DEFINE on == {e \in Endpoint : subscribed /\ endpoint[e] = "enabled"}
  <2>1. [event |-> k, notify |-> subscribed, endpoints |-> on] \in HookPlace
    BY <1>1 DEF HookPlace, DeliveryTypeOK
  <2>2. hook' = [hook EXCEPT ![h] = [event |-> k, notify |-> subscribed, endpoints |-> on]]
    BY <1>6 DEF WebhookRead
  <2> HIDE DEF on
  <2>3. hook' \in [Handler -> HookPlace]
    BY <1>3, <2>1, <2>2
  <2> QED BY <1>1, <1>6, <2>3 DEF WebhookRead, DeliveryTypeOK, HookPlace
<1>7. ASSUME NEW h \in Handler, NEW enforced \in BOOLEAN, WebhookCommit(h, enforced)
      PROVE  DeliveryTypeOK'
  <2> DEFINE k == hook[h].event
  <2>1. k \in Event
    BY <1>1, <1>7 DEF DeliveryParts, StoredInv, WebhookCommit
  <2>2. \E made \in SUBSET (Event \X Endpoint) :
            delivery' = [r \in Row |-> IF r \in made THEN [NoDelivery EXCEPT !.status = "queued"]
                                       ELSE delivery[r]]
    <3> DEFINE kept == Unseen(k) /\ (enforced => \A e \in hook[h].endpoints :
                                                    endpoint[e] # "deleted")
               made == IF kept THEN {k} \X hook[h].endpoints ELSE {}
    <3>1. made \in SUBSET (Event \X Endpoint)
      BY <1>1, <2>1 DEF DeliveryTypeOK
    <3>2. delivery' = [r \in Row |-> IF r \in made THEN [NoDelivery EXCEPT !.status = "queued"]
                                     ELSE delivery[r]]
      BY <1>7 DEF WebhookCommit
    <3> QED BY <3>1, <3>2
  <2>3. delivery' \in [Row -> DeliveryRow]
    BY <1>2, <1>3, <2>2
  <2>4. stored' \in {stored, stored \union {k}} /\ hook' = [hook EXCEPT ![h] = IdleHook]
        /\ UNCHANGED <<subscribed, endpoint, dispatcher, accepted, slow, dispatcherCrashes>>
    BY <1>7 DEF WebhookCommit
  <2>5. \E n \in {noticed[k], noticed[k] + 1} : noticed' = [noticed EXCEPT ![k] = n]
    BY <1>7 DEF WebhookCommit
  <2> HIDE DEF k
  <2>6. noticed' \in [Event -> Nat]
    BY <1>1, <2>1, <2>5 DEF DeliveryTypeOK
  <2>7. hook' \in [Handler -> HookPlace] /\ stored' \subseteq Event
    BY <1>1, <1>2, <1>3, <2>1, <2>4 DEF DeliveryTypeOK
  <2> QED BY <1>1, <2>3, <2>4, <2>6, <2>7 DEF DeliveryTypeOK, DeliveryRow, HookPlace
<1>8. CASE FiveMinutes
  <2>1. delivery' \in [Row -> DeliveryRow]
    <3>1. \A r \in Row : [delivery[r] EXCEPT !.old = @ \/ delivery[r].status = "sending"]
                         \in DeliveryRow
      BY <1>3 DEF DeliveryRow
    <3> QED BY <1>8, <3>1 DEF FiveMinutes
  <2>2. UNCHANGED <<webhookVars, endpoint, dispatcher, accepted, slow, dispatcherCrashes>>
    BY <1>8 DEF FiveMinutes
  <2> QED BY <1>1, <2>1, <2>2 DEF webhookVars, DeliveryTypeOK, DeliveryRow
<1> QED BY <1>4, <1>5, <1>6, <1>7, <1>8

(* A loop moves to a place, or one row gets a new status. *)
LEMMA OnePlace ==
    ASSUME dispatcher \in [Dispatcher -> LoopPlace], NEW p \in Dispatcher, NEW place \in LoopPlace,
           dispatcher' = [dispatcher EXCEPT ![p] = place]
    PROVE  dispatcher' \in [Dispatcher -> LoopPlace]
OBVIOUS
LEMMA OneRow ==
    ASSUME delivery \in [Row -> DeliveryRow], NEW r \in Row, NEW row \in DeliveryRow,
           delivery' = [delivery EXCEPT ![r] = row]
    PROVE  delivery' \in [Row -> DeliveryRow]
OBVIOUS

(* The records a loop writes are of their types. *)
LEMMA Places ==
    ASSUME NEW at \in LoopPlace
    PROVE  /\ \A pc \in {"sending", "sent", "error"} : [at EXCEPT !.pc = pc] \in LoopPlace
           /\ [at EXCEPT !.pc = "ticking", !.row = NoRow] \in LoopPlace
           /\ IdleLoop \in LoopPlace
           /\ [IdleLoop EXCEPT !.pc = "dead"] \in LoopPlace
<1>1. \A pc \in {"sending", "sent", "error"} : [at EXCEPT !.pc = pc] \in LoopPlace
  BY DEF LoopPlace
<1>2. [at EXCEPT !.pc = "ticking", !.row = NoRow] \in LoopPlace
  BY DEF LoopPlace
<1>3. IdleLoop \in LoopPlace /\ [IdleLoop EXCEPT !.pc = "dead"] \in LoopPlace
  BY DEF IdleLoop, LoopPlace
<1> QED BY <1>1, <1>2, <1>3
LEMMA Rows ==
    ASSUME NEW row \in DeliveryRow, NEW s \in {"retry", "delivered", "failed"}
    PROVE  [row EXCEPT !.status = s] \in DeliveryRow
BY DEF DeliveryRow

(* What a loop does keeps the types. *)
LEMMA LoopTypes == ASSUME DeliveryInv, NEW p \in Dispatcher, LoopStep(p) \/ DispatcherRestart(p)
                   PROVE  DeliveryTypeOK'
<1> DEFINE Typed == /\ delivery' \in [Row -> DeliveryRow]
                    /\ dispatcher' \in [Dispatcher -> LoopPlace]
                    /\ accepted' \subseteq Row
                    /\ UNCHANGED <<webhookVars, endpoint, slow>>
                    /\ dispatcherCrashes' \in 0..MaxCrashes
<1>1. DeliveryTypeOK /\ DeliveryParts
  BY DEF DeliveryInv
<1>2. delivery \in [Row -> DeliveryRow] /\ dispatcher \in [Dispatcher -> LoopPlace]
  BY <1>1 DEF DeliveryTypeOK, DeliveryRow, LoopPlace
<1>3. accepted \subseteq Row /\ dispatcherCrashes \in 0..MaxCrashes
  BY <1>1 DEF DeliveryTypeOK
<1>4. dispatcher[p] \in LoopPlace
  BY <1>2
<1>5. ASSUME BeginTick(p) PROVE Typed
  <2> DEFINE ids == {r \in Row : Waiting(r) \/ Overdue(r)}
  <2>1. [IdleLoop EXCEPT !.pc = "ticking", !.ids = ids] \in LoopPlace
    BY DEF IdleLoop, LoopPlace
  <2>2. dispatcher' = [dispatcher EXCEPT ![p] = [IdleLoop EXCEPT !.pc = "ticking", !.ids = ids]]
    BY <1>5 DEF BeginTick
  <2> HIDE DEF ids
  <2>3. dispatcher' \in [Dispatcher -> LoopPlace]
    BY <1>2, <2>1, <2>2, OnePlace
  <2>4. \A r \in Row : [delivery[r] EXCEPT !.status = "retry"] \in DeliveryRow
    BY <1>2, Rows
  <2>5. delivery' \in [Row -> DeliveryRow]
    BY <1>2, <1>5, <2>4 DEF BeginTick
  <2>6. UNCHANGED <<webhookVars, endpoint, slow, accepted, dispatcherCrashes>>
    BY <1>5 DEF BeginTick
  <2> QED BY <1>3, <2>3, <2>5, <2>6
<1>6. ASSUME TickDone(p) PROVE Typed
  <2>1. UNCHANGED <<webhookVars, endpoint, slow, delivery, accepted, dispatcherCrashes>>
        /\ dispatcher' = [dispatcher EXCEPT ![p] = IdleLoop]
    BY <1>6 DEF TickDone
  <2>2. dispatcher' \in [Dispatcher -> LoopPlace]
    BY <1>2, <1>4, <2>1, Places, OnePlace
  <2> QED BY <1>2, <1>3, <2>1, <2>2
<1>7. ASSUME DispatcherRestart(p) PROVE Typed
  <2>1. UNCHANGED <<webhookVars, endpoint, slow, delivery, accepted>>
        /\ dispatcher' = [dispatcher EXCEPT ![p] = IdleLoop]
    BY <1>7 DEF DispatcherRestart
  <2>2. dispatcher' \in [Dispatcher -> LoopPlace]
    BY <1>2, <1>4, <2>1, Places, OnePlace
  <2>3. dispatcherCrashes' \in 0..MaxCrashes
    BY <1>3, <1>7, DeliveriesAssumption DEF DispatcherRestart
  <2> QED BY <1>2, <1>3, <2>1, <2>2, <2>3
<1>8. ASSUME NEW r \in Row, ClaimDelivery(p, r) PROVE Typed
  <2>1. UNCHANGED <<webhookVars, endpoint, slow, accepted, dispatcherCrashes>>
    BY <1>8 DEF ClaimDelivery
  <2>2. delivery' \in [Row -> DeliveryRow]
    <3> DEFINE sent == [status |-> "sending", old |-> FALSE, attempts |-> delivery[r].attempts + 1]
    <3>1. delivery[r].attempts + 1 \in Nat
      BY <1>2 DEF DeliveryRow
    <3>2. sent \in DeliveryRow
      BY <3>1 DEF DeliveryRow
    <3>3. CASE Free(r)
      <4>1. delivery' = [delivery EXCEPT ![r] = sent]
        BY <1>8, <3>3, Zenon DEF ClaimDelivery
      <4> HIDE DEF sent
      <4> QED BY <1>2, <3>2, <4>1, OneRow
    <3>4. CASE ~Free(r)
      BY <1>2, <1>8, <3>4 DEF ClaimDelivery
    <3> QED BY <3>3, <3>4
  <2>3. dispatcher' \in [Dispatcher -> LoopPlace]
    <3>1. \A at \in LoopPlace : \A pc \in {"ticking", "claimed"}, row \in {r, NoRow} :
              [at EXCEPT !.ids = @ \ {r}, !.pc = pc, !.row = row] \in LoopPlace
      BY DEF LoopPlace
    <3>2. \E pc \in {"ticking", "claimed"}, row \in {r, NoRow} :
              dispatcher' = [dispatcher EXCEPT ![p].ids = @ \ {r}, ![p].pc = pc, ![p].row = row]
      <4>1. CASE Free(r)
        BY <1>8, <4>1 DEF ClaimDelivery
      <4>2. CASE ~Free(r)
        BY <1>8, <4>2 DEF ClaimDelivery
      <4> QED BY <4>1, <4>2
    <3>3. PICK pc \in {"ticking", "claimed"}, row \in {r, NoRow} :
              dispatcher' = [dispatcher EXCEPT ![p].ids = @ \ {r}, ![p].pc = pc, ![p].row = row]
      BY <3>2
    <3> DEFINE place == [dispatcher[p] EXCEPT !.ids = @ \ {r}, !.pc = pc, !.row = row]
    <3>4. place \in LoopPlace
      BY <1>4, <3>1
    <3>5. dispatcher' = [dispatcher EXCEPT ![p] = place]
      BY <1>2, <3>3
    <3> HIDE DEF place
    <3> QED BY <1>2, <3>4, <3>5, OnePlace
  <2> QED BY <1>3, <2>1, <2>2, <2>3
<1>9. ASSUME LoadDelivery(p) PROVE Typed
  <2> DEFINE r == dispatcher[p].row
  <2>1. r \in Row
    BY <1>1, <1>9 DEF LoadDelivery, DeliveryParts, LoopInv, HoldsRow
  <2>2. UNCHANGED <<webhookVars, endpoint, slow, accepted, dispatcherCrashes>>
    BY <1>9 DEF LoadDelivery
  <2>3. /\ \/ delivery' = delivery
           \/ delivery' = [delivery EXCEPT ![r] = [delivery[r] EXCEPT !.status = "failed"]]
        /\ \E place \in {[IdleLoop EXCEPT !.pc = "dead"], [dispatcher[p] EXCEPT !.pc = "sending"],
                         [dispatcher[p] EXCEPT !.pc = "ticking", !.row = NoRow]} :
               dispatcher' = [dispatcher EXCEPT ![p] = place]
    BY <1>9 DEF LoadDelivery
  <2> HIDE DEF r
  <2>4. [delivery[r] EXCEPT !.status = "failed"] \in DeliveryRow
    BY <1>2, <2>1, Rows
  <2>5. delivery' \in [Row -> DeliveryRow]
    BY <1>2, <2>1, <2>3, <2>4, OneRow
  <2>6. PICK place \in LoopPlace : dispatcher' = [dispatcher EXCEPT ![p] = place]
    BY <1>4, <2>3, Places, Zenon
  <2>7. dispatcher' \in [Dispatcher -> LoopPlace]
    BY <1>2, <2>6, OnePlace
  <2> QED BY <1>3, <2>2, <2>5, <2>7
<1>10. ASSUME NEW reached \in BOOLEAN, NEW ok \in BOOLEAN, Send(p, reached, ok) PROVE Typed
  <2>1. dispatcher[p].row \in Row
    BY <1>1, <1>10 DEF Send, DeliveryParts, LoopInv, HoldsRow
  <2>2. UNCHANGED <<webhookVars, endpoint, slow, delivery, dispatcherCrashes>>
    BY <1>10 DEF Send
  <2>3. accepted' = accepted \/ accepted' = accepted \union {dispatcher[p].row}
    BY <1>10 DEF Send
  <2>4. \E pc \in {"sent", "error"} :
            dispatcher' = [dispatcher EXCEPT ![p] = [dispatcher[p] EXCEPT !.pc = pc]]
    <3>1. CASE ok
      BY <1>10, <3>1 DEF Send
    <3>2. CASE ~ok
      BY <1>10, <3>2 DEF Send
    <3> QED BY <3>1, <3>2
  <2>5. PICK place \in LoopPlace : dispatcher' = [dispatcher EXCEPT ![p] = place]
    BY <1>4, <2>4, Places, Zenon
  <2>6. dispatcher' \in [Dispatcher -> LoopPlace]
    BY <1>2, <2>5, OnePlace
  <2>7. accepted' \subseteq Row
    BY <1>3, <2>1, <2>3
  <2> QED BY <1>2, <1>3, <2>2, <2>6, <2>7
<1>11. ASSUME Settle(p) PROVE Typed
  <2> DEFINE r == dispatcher[p].row
  <2>1. r \in Row
    BY <1>1, <1>11 DEF Settle, DeliveryParts, LoopInv, HoldsRow
  <2>2. UNCHANGED <<webhookVars, endpoint, slow, accepted, dispatcherCrashes>>
    BY <1>11 DEF Settle
  <2>3. dispatcher' = [dispatcher EXCEPT ![p] = [dispatcher[p] EXCEPT !.pc = "ticking", !.row = NoRow]]
    BY <1>11 DEF Settle
  <2>4. \/ delivery' = delivery
        \/ \E s \in {"retry", "delivered", "failed"} :
               delivery' = [delivery EXCEPT ![r] = [delivery[r] EXCEPT !.status = s]]
    <3>1. AfterError(r) \in {"retry", "failed"}
      BY DEF AfterError
    <3>2. CASE delivery[r].status = "absent"
      BY <1>11, <3>2 DEF Settle
    <3>3. CASE delivery[r].status # "absent" /\ dispatcher[p].pc = "sent"
      BY <1>11, <3>3 DEF Settle
    <3>4. CASE delivery[r].status # "absent" /\ dispatcher[p].pc # "sent"
      <4>1. delivery' = [delivery EXCEPT ![r] = [delivery[r] EXCEPT !.status = AfterError(r)]]
        BY <1>11, <3>4 DEF Settle
      <4> QED BY <3>1, <4>1
    <3> QED BY <3>2, <3>3, <3>4
  <2> HIDE DEF r
  <2>5. delivery' \in [Row -> DeliveryRow]
    <3>1. CASE delivery' = delivery
      BY <1>2, <3>1
    <3>2. ASSUME NEW s \in {"retry", "delivered", "failed"},
                 delivery' = [delivery EXCEPT ![r] = [delivery[r] EXCEPT !.status = s]]
          PROVE  delivery' \in [Row -> DeliveryRow]
      <4>1. [delivery[r] EXCEPT !.status = s] \in DeliveryRow
        BY <1>2, <2>1, Rows
      <4> QED BY <1>2, <2>1, <3>2, <4>1, OneRow
    <3> QED BY <2>4, <3>1, <3>2
  <2>6. [dispatcher[p] EXCEPT !.pc = "ticking", !.row = NoRow] \in LoopPlace
    BY <1>4, Places
  <2>7. dispatcher' \in [Dispatcher -> LoopPlace]
    BY <1>2, <2>3, <2>6, OnePlace
  <2> QED BY <1>3, <2>2, <2>5, <2>7
<1>12. Typed
  BY <1>5, <1>6, <1>7, <1>8, <1>9, <1>10, <1>11 DEF LoopStep
<1> QED BY <1>1, <1>12 DEF webhookVars, DeliveryTypeOK, DeliveryRow, LoopPlace

(* Every step keeps the invariant. *)
LEMMA DeliveryStepHolds == DeliveryInv /\ [DeliveryNext]_deliveryVars => DeliveryInv'
<1> SUFFICES ASSUME DeliveryInv, [DeliveryNext]_deliveryVars PROVE DeliveryInv'
  OBVIOUS
<1>1. ASSUME NEW p \in Dispatcher, LoopStep(p) \/ DispatcherRestart(p) PROVE DeliveryInv'
  BY <1>1, LoopKeeps, LoopTypes DEF DeliveryInv
<1>2. ASSUME NEW h \in Handler, NEW enforced \in BOOLEAN, WebhookCommit(h, enforced)
      PROVE  DeliveryInv'
  BY <1>2, WebhookKeeps, RequestTypes DEF DeliveryInv
<1>3. CASE \/ \E e \in Endpoint : EndpointStep(e)
           \/ \E on \in BOOLEAN : Subscribe(on)
           \/ \E h \in Handler, k \in Event : WebhookRead(h, k)
           \/ FiveMinutes
  BY <1>3, OthersKeep, RequestTypes DEF DeliveryInv
<1>4. CASE UNCHANGED deliveryVars
  <2>1. UNCHANGED <<noticed, stored, delivery, dispatcher, accepted, slow, hook, subscribed,
                    endpoint, dispatcherCrashes>>
    BY <1>4 DEF deliveryVars
  <2>2. DeliveryParts'
    BY <2>1, FrameKeeps DEF DeliveryInv, DeliveryParts, StoredInv
  <2>3. DeliveryTypeOK'
    BY <2>1 DEF DeliveryInv, DeliveryTypeOK
  <2> QED BY <2>2, <2>3 DEF DeliveryInv
<1> QED BY <1>1, <1>2, <1>3, <1>4 DEF DeliveryNext

(* The invariant holds in every reachable state. *)
THEOREM DeliveryInvariance == DeliverySpec => []DeliveryInv
BY DeliveryInitHolds, DeliveryStepHolds, PTL DEF DeliverySpec

(* One notification per event, no delivery shown as delivered that no receiver
   accepted, and one sender per row while sends are fast (notifications.py:66-147,
   platform.py:456-502). *)
THEOREM OutboxIsSafe == DeliverySpec => []OutboxSafe
<1>1. DeliveryInv => OutboxSafe
  BY DEF DeliveryInv, DeliveryParts
<1> QED BY DeliveryInvariance, <1>1, PTL
=============================================================================
