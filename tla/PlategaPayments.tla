--------------------------- MODULE PlategaPayments ---------------------------
(***************************************************************************)
(* How payments through Platega reach the orders of OrderLifecycle: the    *)
(* webhook with its event table (web.py), the status queries of the order  *)
(* page and of the bot, the manual confirmation, and the administrator's   *)
(* answer to a payment that met a closed order.                            *)
(*                                                                         *)
(* Every one of these handlers reads the order, decides on what it read,   *)
(* and later writes back the whole meta_json it read; this module keeps    *)
(* the row a handler has read (task[w].status, task[w].meta) apart from    *)
(* the row as it is now.                                                   *)
(***************************************************************************)
EXTENDS OrderLifecycle

CONSTANTS
  Bot,     \* the thread of Worker that handles Telegram updates, one by one
  MaxTasks \* bound: requests and clicks in a behaviour

ASSUME BotAssumption == Bot \in Worker

VARIABLES
  gateway,   \* external: what happened to the order's transaction at Platega
  event,     \* webhook_events.status, by order and event type; "none" no row
  recent,    \* webhook_events.updated_at of a pending event is less than 30 s old
  task,      \* what each thread is doing
  confirmed, \* orders whose meta_json has platega_confirmed_at
  resolved,  \* orders whose meta_json has platega_collision_resolution
  tasks,     \* number of tasks started, for the bound
  \* history
  alerted,   \* <<order, status the handler read>>: alerts that reached an administrator
  answered,  \* webhook events that Platega got a 200 for
  byHand     \* how often an administrator decided to give the order a period

paymentVars == <<gateway, event, recent, task, confirmed, resolved, tasks,
                 alerted, answered, byHand>>
allVars == <<vars, paymentVars>>

EventType == {"CONFIRMED", "CANCELED", "REFUNDED"}
Event == Order \X EventType

(* The part of meta_json that some handler reads. *)
Meta == [collided : BOOLEAN, confirmed : BOOLEAN, resolved : BOOLEAN]
MetaOf(o) == [collided |-> o \in collided, confirmed |-> o \in confirmed,
              resolved |-> o \in resolved]

TaskKind == {"none", "webhook", "poll", "check", "manual", "activate", "extend", "refund"}
TaskPC == {"idle", "reserve", "verify", "decide", "notify", "note", "cancel", "touch",
           "query", "call", "running", "renew", "resolve", "finish", "reject"}
Task == [kind : TaskKind, pc : TaskPC, order : Order \cup {NoOrder},
         type : EventType, status : Status, served : BOOLEAN, meta : Meta]

Doing(w, kind, pc) == task[w].kind = kind /\ task[w].pc = pc
Proceed(w, pc) == task' = [task EXCEPT ![w].pc = pc]
EventOf(w) == <<task[w].order, task[w].type>>

NoMeta == [collided |-> FALSE, confirmed |-> FALSE, resolved |-> FALSE]
NoTask ==
  [kind |-> "none", pc |-> "idle", order |-> NoOrder, type |-> "CONFIRMED",
   status |-> "waiting_payment", served |-> FALSE, meta |-> NoMeta]
(* A task that has just read the order. *)
Reading(o, kind, pc, type) ==
  [kind |-> kind, pc |-> pc, order |-> o, type |-> type, status |-> status[o],
   served |-> status[o] = "delivered" /\ profile[o] = "linked", meta |-> MetaOf(o)]
(* Past its last decision a task keeps nothing of the row it has read. *)
Conclude(w, pc) ==
  task' = [task EXCEPT ![w].pc = pc, ![w].status = "waiting_payment",
                       ![w].served = FALSE, ![w].meta = NoMeta]
EndTask(w) == task' = [task EXCEPT ![w] = NoTask]

(* update_order_meta: the whole meta_json, and updated_at. *)
SetMembership(S, o, in) == IF in THEN S \cup {o} ELSE S \ {o}
SaveMeta(o, m) ==
  /\ collided' = SetMembership(collided, o, m.collided)
  /\ confirmed' = SetMembership(confirmed, o, m.confirmed)
  /\ resolved' = SetMembership(resolved, o, m.resolved)
  /\ stale' = [stale EXCEPT ![o] = FALSE]
  /\ UNCHANGED <<status, profile, used, worker, recoverer, scan, accrued, faults,
                 history, attempts>>
KeepOrders == UNCHANGED <<vars, confirmed, resolved>>

PaymentInit ==
  /\ Init
  /\ \A o \in Order : status[o] = "waiting_payment"
  /\ gateway = [o \in Order |-> "open"]
  /\ event = [e \in Event |-> "none"]
  /\ recent = [e \in Event |-> FALSE]
  /\ task = [w \in Worker |-> NoTask]
  /\ confirmed = {} /\ resolved = {} /\ alerted = {} /\ answered = {}
  /\ tasks = 0
  /\ byHand = [o \in Order |-> 0]

---------------------------------------------------------------------------
(* Platega and the clock *)

(* The customer pays, gives up, or gets the money back at Platega. *)
GatewayMoves(o) ==
  /\ \E to \in IF gateway[o] = "open" THEN {"CONFIRMED", "CANCELED"}
               ELSE IF gateway[o] = "CONFIRMED" THEN {"REFUNDED"} ELSE {} :
       gateway' = [gateway EXCEPT ![o] = to]
  /\ UNCHANGED <<vars, event, recent, task, confirmed, resolved, tasks, alerted,
                 answered, byHand>>

(* The statuses Platega may be sending callbacks for, in any order. *)
Sent(o) == {gateway[o]} \cup (IF gateway[o] = "REFUNDED" THEN {"CONFIRMED"} ELSE {})

(* 30 s pass without a write to the event; a handler may well take that long. *)
EventAges(e) ==
  /\ event[e] = "pending" /\ recent[e]
  /\ recent' = [recent EXCEPT ![e] = FALSE]
  /\ UNCHANGED <<vars, gateway, event, task, confirmed, resolved, tasks, alerted,
                 answered, byHand>>

---------------------------------------------------------------------------
(* Tasks start by reading the order *)

MayStart(w) == task[w].pc = "idle" /\ At(w, "idle") /\ tasks < MaxTasks
Start(w, t) ==
  /\ MayStart(w)
  /\ task' = [task EXCEPT ![w] = t]
  /\ tasks' = tasks + 1
  /\ byHand' = [o \in Order |->
       IF o = t.order /\ t.kind \in {"manual", "activate", "extend"}
       THEN byHand[o] + 1 ELSE byHand[o]]
  /\ KeepOrders
  /\ UNCHANGED <<gateway, event, recent, alerted, answered>>

(* handle_platega_callback. Platega repeats and reorders its callbacks. *)
Callback(w, o, type) ==
  /\ w # Bot
  /\ type \in Sent(o)
  /\ Start(w, Reading(o, "webhook", "reserve", type))

(* order_status_json: the order page asks Platega about a waiting order. *)
PollPage(w, o) ==
  /\ w # Bot
  /\ status[o] = "waiting_payment"
  /\ Start(w, Reading(o, "poll", "touch", "CONFIRMED"))

(* public:check_payment in the chat. *)
CheckPayment(o) ==
  /\ status[o] # "delivered"
  /\ Start(Bot, Reading(o, "check", "query", "CONFIRMED"))

(* admin:confirm: the payment has arrived in another way. *)
ConfirmManually(o) ==
  /\ status[o] \notin {"delivered", "cancelled"}
  /\ Start(Bot, Reading(o, "manual", "call", "CONFIRMED"))

(* The buttons of an alert: admin:platega_act for a cancelled order,
   admin:platega_ext for a delivered one, admin:platega_ack_refund for both. *)
Clickable(o, seen) == <<o, seen>> \in alerted /\ o \notin resolved
ActivateCollision(o) ==
  /\ Clickable(o, "cancelled")
  /\ Start(Bot, Reading(o, "activate", "call", "CONFIRMED"))
ExtendCollision(o) ==
  /\ Clickable(o, "delivered")
  /\ Start(Bot, Reading(o, "extend", "renew", "CONFIRMED"))
AcknowledgeRefund(o) ==
  /\ \E seen \in {"cancelled", "delivered"} : Clickable(o, seen)
  /\ Start(Bot, Reading(o, "refund", "resolve", "CONFIRMED"))

---------------------------------------------------------------------------
(* The webhook *)

(* record_webhook_event. A duplicate is answered with 200. *)
ReserveEvent(w) ==
  LET e == EventOf(w)
      duplicate == event[e] = "processed" \/ (event[e] = "pending" /\ recent[e]) IN
  /\ Doing(w, "webhook", "reserve")
  /\ \/ /\ duplicate
        /\ EndTask(w)
        /\ answered' = answered \cup {e}
        /\ UNCHANGED <<event, recent>>
     \/ /\ ~duplicate
        /\ event' = [event EXCEPT ![e] = "pending"]
        /\ recent' = [recent EXCEPT ![e] = TRUE]
        /\ Proceed(w, "verify")
        /\ UNCHANGED answered
  /\ KeepOrders
  /\ UNCHANGED <<gateway, tasks, alerted, byHand>>

(* The query of Platega: a CONFIRMED that Platega does not confirm (any more)
   is refused, and so is every event when Platega cannot be reached. *)
VerifyEvent(w) ==
  /\ Doing(w, "webhook", "verify")
  /\ \/ /\ task[w].type = "CONFIRMED" => gateway[task[w].order] = "CONFIRMED"
        /\ Proceed(w, "decide")
     \/ /\ \/ task[w].type = "CONFIRMED" /\ gateway[task[w].order] # "CONFIRMED"
           \/ "panel" \in faults
        /\ Conclude(w, "reject")
  /\ KeepOrders
  /\ UNCHANGED <<gateway, event, recent, tasks, alerted, answered, byHand>>

(* What the row that was read decides. *)
SeenClosed(w) == task[w].status \in {"delivered", "cancelled"}
Settled(w) ==
  task[w].meta.resolved \/ (task[w].status = "delivered" /\ task[w].meta.confirmed)

(* A refund of an order read as delivered. revoke_profile_access is called with
   profiles.id where it expects profiles.public_id, and changes nothing. *)
RefundDelivered(w) ==
  LET o == task[w].order IN
  /\ Doing(w, "webhook", "decide")
  /\ task[w].type = "REFUNDED" /\ task[w].status = "delivered"
  /\ IF CanMove(o, "cancelled", Status)
     THEN MoveTo(o, "cancelled") /\ Conclude(w, "finish")
     ELSE KeepOrder /\ Conclude(w, "reject")
  /\ UNCHANGED <<profile, used, worker, recoverer, scan, accrued, faults, history,
                 attempts, collided, confirmed, resolved, gateway, event, recent,
                 tasks, alerted, answered, byHand>>

(* A definition whose name ends in _Something is a faulty variant of the one
   that follows it: no action uses it, and with it in place a property fails. *)
RecordCollision_NoAlert(w) ==
  /\ Doing(w, "webhook", "decide")
  /\ task[w].type = "CONFIRMED" /\ SeenClosed(w) /\ ~Settled(w)
  /\ SaveMeta(task[w].order,
              [task[w].meta EXCEPT !.collided = task[w].status = "cancelled"])
  /\ Conclude(w, "finish")
  /\ UNCHANGED <<gateway, event, recent, tasks, alerted, answered, byHand>>

(* A payment for an order read as closed is recorded ... *)
RecordCollision(w) ==
  /\ Doing(w, "webhook", "decide")
  /\ task[w].type = "CONFIRMED" /\ SeenClosed(w) /\ ~Settled(w)
  /\ SaveMeta(task[w].order,
              [task[w].meta EXCEPT !.collided = task[w].status = "cancelled"])
  /\ Proceed(w, "notify")
  /\ UNCHANGED <<gateway, event, recent, tasks, alerted, answered, byHand>>

(* ... the administrators are told, the order is read again ... A message that
   Telegram does not take is only logged. *)
NotifyCollision(w) ==
  LET o == task[w].order IN
  /\ Doing(w, "webhook", "notify")
  /\ \/ /\ alerted' = alerted \cup {<<o, task[w].status>>}
        /\ task' = [task EXCEPT ![w].pc = "note", ![w].meta = MetaOf(o)]
     \/ /\ "telegram" \in faults
        /\ UNCHANGED alerted
        /\ Conclude(w, "finish")
  /\ KeepOrders
  /\ UNCHANGED <<gateway, event, recent, tasks, answered, byHand>>

(* ... and the messages sent are noted in it. *)
NoteCollision(w) ==
  /\ Doing(w, "webhook", "note")
  /\ SaveMeta(task[w].order, task[w].meta)
  /\ Conclude(w, "finish")
  /\ UNCHANGED <<gateway, event, recent, tasks, alerted, answered, byHand>>

(* Nothing to do: an order read as closed, or a refund of one that is not. *)
IgnoreEvent(w) ==
  /\ Doing(w, "webhook", "decide")
  /\ \/ task[w].type = "CONFIRMED" /\ SeenClosed(w) /\ Settled(w)
     \/ task[w].type = "CANCELED" /\ SeenClosed(w)
     \/ task[w].type = "REFUNDED" /\ task[w].status # "delivered"
  /\ Conclude(w, "finish")
  /\ KeepOrders
  /\ UNCHANGED <<gateway, event, recent, tasks, alerted, answered, byHand>>

(* The store fails while the handler works: finish_webhook_event(ok=False). *)
FailEvent(w) ==
  /\ "panel" \in faults
  /\ task[w].kind = "webhook" /\ task[w].pc \in {"decide", "notify", "note"}
  /\ Conclude(w, "reject")
  /\ KeepOrders
  /\ UNCHANGED <<gateway, event, recent, tasks, alerted, answered, byHand>>

(* A payment for an open order: platega_confirmed_at, then complete_order. *)
ConfirmEvent(w) ==
  /\ Doing(w, "webhook", "decide")
  /\ task[w].type = "CONFIRMED" /\ ~SeenClosed(w)
  /\ SaveMeta(task[w].order, [task[w].meta EXCEPT !.confirmed = TRUE])
  /\ Proceed(w, "call")
  /\ UNCHANGED <<gateway, event, recent, tasks, alerted, answered, byHand>>

(* A cancelled payment of an open order: platega_status, then the order. *)
CancelEvent(w) ==
  /\ Doing(w, "webhook", "decide")
  /\ task[w].type = "CANCELED" /\ ~SeenClosed(w)
  /\ SaveMeta(task[w].order, task[w].meta)
  /\ Conclude(w, "cancel")
  /\ UNCHANGED <<gateway, event, recent, tasks, alerted, answered, byHand>>

CancelUnpaid(w) ==
  LET o == task[w].order IN
  /\ Doing(w, "webhook", "cancel")
  /\ IF CanMove(o, "cancelled", Status \ {"delivered"})
     THEN MoveTo(o, "cancelled") ELSE KeepOrder
  /\ Conclude(w, "finish")
  /\ UNCHANGED <<profile, used, worker, recoverer, scan, accrued, faults, history,
                 attempts, collided, confirmed, resolved, gateway, event, recent,
                 tasks, alerted, answered, byHand>>

(* finish_webhook_event and the reply, whatever the event's status is now. *)
FinishEvent(w) ==
  LET e == EventOf(w) IN
  /\ task[w].kind = "webhook"
  /\ \/ /\ task[w].pc = "finish"
        /\ event' = [event EXCEPT ![e] = "processed"]
        /\ answered' = answered \cup {e}
     \/ /\ task[w].pc = "reject"
        /\ event' = [event EXCEPT ![e] = "failed"]
        /\ UNCHANGED answered
  /\ recent' = [recent EXCEPT ![e] = FALSE]
  /\ EndTask(w)
  /\ KeepOrders
  /\ UNCHANGED <<gateway, tasks, alerted, byHand>>

---------------------------------------------------------------------------
(* The other ways to a confirmation *)

(* platega_last_polled_at. *)
TouchOrder(w) ==
  /\ Doing(w, "poll", "touch")
  /\ SaveMeta(task[w].order, task[w].meta)
  /\ Proceed(w, "query")
  /\ UNCHANGED <<gateway, event, recent, tasks, alerted, answered, byHand>>

(* The status query: a confirmed payment is written to the order. *)
QueryGateway(w) ==
  LET o == task[w].order IN
  /\ task[w].pc = "query"
  /\ \/ /\ gateway[o] = "CONFIRMED"
        /\ SaveMeta(o, [task[w].meta EXCEPT !.confirmed = TRUE])
        /\ Proceed(w, "call")
     \/ /\ gateway[o] # "CONFIRMED" \/ "panel" \in faults
        /\ KeepOrders
        /\ EndTask(w)
  /\ UNCHANGED <<gateway, event, recent, tasks, alerted, answered, byHand>>

(* complete_order, with the row the task has read. *)
CallFromTask(w) ==
  LET t == task[w] IN
  /\ t.pc = "call"
  /\ BeginComplete(w, t.order, t.served, t.status = "cancelled" \/ t.meta.collided)
  /\ Conclude(w, "running")
  /\ UNCHANGED <<gateway, event, recent, confirmed, resolved, tasks, alerted,
                 answered, byHand>>

ReturnToTask_AlwaysOk(w) ==
  /\ Doing(w, "webhook", "running")
  /\ Return(w)
  /\ Conclude(w, "finish")
  /\ UNCHANGED <<gateway, event, recent, confirmed, resolved, tasks, alerted,
                 answered, byHand>>

(* complete_order returns or raises; platega_act reads the order again. *)
ReturnToTask(w) ==
  LET ok == At(w, "ok") IN
  /\ task[w].pc = "running"
  /\ Return(w)
  /\ \/ /\ task[w].kind = "webhook"
        /\ Conclude(w, IF ok THEN "finish" ELSE "reject")
     \/ /\ task[w].kind = "activate" /\ ok
        /\ task' = [task EXCEPT ![w].pc = "resolve", ![w].meta = MetaOf(task[w].order)]
     \/ /\ task[w].kind \notin {"webhook", "activate"} \/ (task[w].kind = "activate" /\ ~ok)
        /\ EndTask(w)
  /\ UNCHANGED <<gateway, event, recent, confirmed, resolved, tasks, alerted,
                 answered, byHand>>

(* platega_ext: renew_profile of the order's profile. *)
RenewForCollision(w) ==
  LET o == task[w].order IN
  /\ Doing(w, "extend", "renew")
  /\ \/ /\ profile[o] = "linked"
        /\ Grant(o)
        /\ Proceed(w, "resolve")
     \/ /\ profile[o] # "linked" \/ "panel" \in faults
        /\ EndTask(w)
        /\ UNCHANGED grants
  /\ UNCHANGED <<status, stale, profile, used, worker, recoverer, scan, accrued,
                 faults, deliveries, redeemed, attempts, collided, confirmed,
                 resolved, gateway, event, recent, tasks, alerted, answered, byHand>>

(* The resolution is written last, with a payment time if there is none; a
   refund has none. *)
ResolveCollision(w) ==
  /\ task[w].pc = "resolve"
  /\ \/ SaveMeta(task[w].order,
                 [task[w].meta EXCEPT !.resolved = TRUE,
                                      !.confirmed = @ \/ task[w].kind # "refund"])
     \/ "panel" \in faults /\ KeepOrders
  /\ EndTask(w)
  /\ UNCHANGED <<gateway, event, recent, tasks, alerted, answered, byHand>>

CrashTask(w) ==
  /\ "crash" \in faults
  /\ task[w].pc # "idle"
  /\ worker' = [worker EXCEPT ![w] = IdleWorker]
  /\ EndTask(w)
  /\ KeepOrder
  /\ UNCHANGED <<profile, used, recoverer, scan, accrued, faults, history, attempts,
                 collided, confirmed, resolved, gateway, event, recent, tasks,
                 alerted, answered, byHand>>

---------------------------------------------------------------------------
PaymentNext ==
  \/ \E o \in Order : \/ GatewayMoves(o) \/ CheckPayment(o) \/ ConfirmManually(o)
                      \/ ActivateCollision(o) \/ ExtendCollision(o) \/ AcknowledgeRefund(o)
  \/ \E e \in Event : EventAges(e)
  \/ \E w \in Worker :
       \/ \E o \in Order : PollPage(w, o) \/ \E type \in EventType : Callback(w, o, type)
       \/ ReserveEvent(w) \/ VerifyEvent(w) \/ RefundDelivered(w)
       \/ RecordCollision(w) \/ NotifyCollision(w) \/ NoteCollision(w)
       \/ IgnoreEvent(w) \/ FailEvent(w) \/ ConfirmEvent(w) \/ CancelEvent(w) \/ CancelUnpaid(w)
       \/ FinishEvent(w) \/ TouchOrder(w) \/ QueryGateway(w) \/ CallFromTask(w)
       \/ ReturnToTask(w) \/ RenewForCollision(w) \/ ResolveCollision(w)
       \/ CrashTask(w)
       \/ (CompleteOrder(w) \/ ProvisioningError(w)) /\ UNCHANGED paymentVars
  \/ \E r \in Recoverer :
       /\ \/ \E o \in Order : RecoverClaim(r, o)
          \/ RecoverLookup(r) \/ RecoverSettle(r)
       /\ UNCHANGED paymentVars
  \/ \E o \in Order : (GrowStale(o) \/ CancelOrder(o)) /\ UNCHANGED paymentVars

PaymentSpec == PaymentInit /\ [][PaymentNext]_allVars

---------------------------------------------------------------------------
(* Properties *)

PaymentTypeOK ==
  /\ TypeOK
  /\ gateway \in [Order -> EventType \cup {"open"}]
  /\ event \in [Event -> {"none", "pending", "processed", "failed"}]
  /\ recent \in [Event -> BOOLEAN]
  /\ task \in [Worker -> Task]
  /\ \A w \in Worker : task[w].pc # "idle" => task[w].order \in Order
  /\ confirmed \subseteq Order /\ resolved \subseteq Order
  /\ alerted \subseteq Order \X {"cancelled", "delivered"}
  /\ answered \subseteq Event
  /\ tasks \in Nat
  /\ byHand \in [Order -> Nat]

Alerted(o) == \E seen \in {"cancelled", "delivered"} : <<o, seen>> \in alerted

(* A payment whose webhook event is closed as processed has reached the
   customer or, Telegram permitting, an administrator, whatever row the
   handler decided on and whatever failed or died on the way: no money is
   taken in silence. *)
PaidIsHandled ==
  "telegram" \notin faults =>
    \A o \in Order : event[<<o, "CONFIRMED">>] = "processed" =>
      deliveries[o] >= 1 \/ Alerted(o)

(* Platega stops repeating a callback that was answered with 200, also when
   the answer only said "duplicate" because another thread was still at work
   on the event: as long as nothing fails, that thread or the call it lost
   against does handle the payment. An order with a promo code is not claimed:
   when the code has run out, the thread at work fails after the duplicate was
   answered. *)
AnsweredIsHandled ==
  faults = {} =>
    \A o \in Order \ PromoOrder :
      <<o, "CONFIRMED">> \in answered /\ gateway[o] = "CONFIRMED" =>
        \/ deliveries[o] >= 1
        \/ Alerted(o)
        \/ Attending(o) # {}
        \/ \E w \in Worker : task[w].kind = "webhook" /\ task[w].order = o
                             /\ task[w].type = "CONFIRMED"

(* One payment that is not refunded buys one period, however often and at the
   same time Platega, the order page and the customer report it, as long as
   neither threads nor the panel fail; a further period takes an
   administrator. *)
OnePeriodPerPayment ==
  faults \subseteq {"telegram"} =>
    \A o \in Order : gateway[o] # "REFUNDED" => grants[o] <= 1 + byHand[o]
=============================================================================
