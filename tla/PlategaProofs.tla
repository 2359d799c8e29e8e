--------------------------- MODULE PlategaProofs ---------------------------
(***************************************************************************)
(* Theorems about PlategaPayments: no payment is taken in silence, none    *)
(* buys a second period, and a callback that Platega need not repeat is    *)
(* handled, for any number of orders, threads, callbacks and requests.     *)
(***************************************************************************)
EXTENDS PlategaPayments, OrderSettlementProofs

---------------------------------------------------------------------------
(* What the payments do to the orders. To the steps of OrderLifecycle they
   add four: a write of meta_json ... *)
WritesMeta(o) == \E m \in Meta : SaveMeta(o, m)
(* ... a call of complete_order with a row that was read earlier ... *)
Calls(w) ==
  /\ task[w].pc = "call" /\ task[w].order \in Order /\ task[w].served \in BOOLEAN
  /\ \E cancelled \in BOOLEAN : BeginComplete(w, task[w].order, task[w].served, cancelled)
(* ... a period that an administrator gives by hand ... *)
GivesPeriod(o) ==
  /\ profile[o] = "linked" /\ Grant(o)
  /\ UNCHANGED <<status, stale, profile, used, worker, recoverer, scan, accrued,
                 faults, deliveries, redeemed, attempts, collided>>

(* ... and a thread may die before it has called complete_order. *)
Dies(w) ==
  /\ "crash" \in faults
  /\ worker' = [worker EXCEPT ![w] = IdleWorker]
  /\ KeepOrder
  /\ UNCHANGED <<profile, used, recoverer, scan, accrued, faults, history, attempts, collided>>

(* A task that is not idle has an order, and has read proper values of it. *)
TaskOK ==
  /\ task \in [Worker -> Task]
  /\ \A w \in Worker : task[w].pc # "idle" => task[w].order \in Order

(* One task changes. *)
LEMMA OneTask ==
  ASSUME TaskOK, NEW w \in Worker, NEW t \in Task, t.pc = "idle" \/ t.order \in Order,
         task' = [task EXCEPT ![w] = t]
  PROVE  TaskOK'
BY DEF TaskOK

(* A task that goes on, concludes, ends or starts stays one. *)
LEMMA TaskGoesOn ==
  ASSUME TaskOK, NEW w \in Worker, task[w].pc # "idle",
         \/ EndTask(w)
         \/ \E pc \in TaskPC : Proceed(w, pc) \/ Conclude(w, pc)
         \/ \E pc \in TaskPC, m \in Meta : task' = [task EXCEPT ![w].pc = pc, ![w].meta = m]
  PROVE  TaskOK'
<1>0. task[w] \in Task /\ task[w].order \in Order /\ task \in [Worker -> Task]
  BY DEF TaskOK
<1>1. CASE EndTask(w)
  <2>1. NoTask \in Task /\ NoTask.pc = "idle"
    BY DEF NoTask, NoMeta, Meta, TaskKind, TaskPC, EventType, Status, Task
  <2> QED BY <1>1, <2>1, OneTask DEF EndTask
<1>2. ASSUME NEW pc \in TaskPC, Proceed(w, pc) PROVE TaskOK'
  <2>1. [task[w] EXCEPT !.pc = pc] \in Task /\ [task[w] EXCEPT !.pc = pc].order \in Order
    BY <1>0 DEF Task
  <2>2. task' = [task EXCEPT ![w] = [task[w] EXCEPT !.pc = pc]]
    BY <1>0, <1>2 DEF Proceed
  <2> QED BY <2>1, <2>2, OneTask
<1>3. ASSUME NEW pc \in TaskPC, Conclude(w, pc) PROVE TaskOK'
  <2> DEFINE t == [task[w] EXCEPT !.pc = pc, !.status = "waiting_payment",
                                  !.served = FALSE, !.meta = NoMeta]
  <2>1. t \in Task /\ t.order \in Order
    BY <1>0 DEF Task, NoMeta, Meta, Status
  <2>2. task' = [task EXCEPT ![w] = t]
    BY <1>0, <1>3 DEF Conclude
  <2> QED BY <2>1, <2>2, OneTask
<1>4. ASSUME NEW pc \in TaskPC, NEW m \in Meta,
             task' = [task EXCEPT ![w].pc = pc, ![w].meta = m]
      PROVE  TaskOK'
  <2>1. /\ [task[w] EXCEPT !.pc = pc, !.meta = m] \in Task
        /\ [task[w] EXCEPT !.pc = pc, !.meta = m].order \in Order
    BY <1>0 DEF Task
  <2>2. task' = [task EXCEPT ![w] = [task[w] EXCEPT !.pc = pc, !.meta = m]]
    BY <1>0, <1>4
  <2> QED BY <2>1, <2>2, OneTask
<1> QED BY <1>1, <1>2, <1>3, <1>4

(* The row that a task reads. *)
LEMMA ReadingTask ==
  ASSUME TypeOK, NEW o \in Order, NEW kind \in TaskKind, NEW pc \in TaskPC, NEW type \in EventType
  PROVE  Reading(o, kind, pc, type) \in Task
BY DEF TypeOK, Reading, Task, MetaOf, Meta

(* What one thread's task does to the orders and the payments. *)
TaskStep(w) ==
  \/ ReserveEvent(w) \/ VerifyEvent(w) \/ RefundDelivered(w)
  \/ RecordCollision(w) \/ NotifyCollision(w) \/ NoteCollision(w)
  \/ IgnoreEvent(w) \/ FailEvent(w) \/ ConfirmEvent(w) \/ CancelEvent(w) \/ CancelUnpaid(w)
  \/ FinishEvent(w) \/ TouchOrder(w) \/ QueryGateway(w) \/ CallFromTask(w)
  \/ ReturnToTask(w) \/ RenewForCollision(w) \/ ResolveCollision(w)
  \/ CrashTask(w)

(* A task begins. *)
Starts(w) ==
  \E o \in Order :
    \/ PollPage(w, o)
    \/ \E type \in EventType : Callback(w, o, type)
    \/ /\ w = Bot
       /\ \/ CheckPayment(o) \/ ConfirmManually(o)
          \/ ActivateCollision(o) \/ ExtendCollision(o) \/ AcknowledgeRefund(o)

(* The steps of OrderLifecycle that go on as they are. *)
OrderStep ==
  /\ \/ \E w \in Worker : CompleteOrder(w) \/ ProvisioningError(w)
     \/ \E r \in Recoverer : \/ \E o \in Order : RecoverClaim(r, o)
                             \/ RecoverLookup(r) \/ RecoverSettle(r)
     \/ \E o \in Order : GrowStale(o) \/ CancelOrder(o)
  /\ UNCHANGED paymentVars

(* Every step is one of these, or Platega's, or the clock's. *)
LEMMA PaymentSteps ==
  ASSUME [PaymentNext]_allVars
  PROVE  \/ \E o \in Order : GatewayMoves(o)
         \/ \E e \in Event : EventAges(e)
         \/ \E w \in Worker : Starts(w) \/ TaskStep(w)
         \/ OrderStep
         \/ UNCHANGED allVars
BY BotAssumption DEF PaymentNext, Starts, TaskStep, OrderStep

(* A write of meta_json writes proper values. *)
LEMMA MetaIsRead ==
  ASSUME TaskOK, NEW w \in Worker
  PROVE  /\ task[w].meta \in Meta
         /\ [task[w].meta EXCEPT !.collided = task[w].status = "cancelled"] \in Meta
         /\ [task[w].meta EXCEPT !.confirmed = TRUE] \in Meta
         /\ [task[w].meta EXCEPT !.resolved = TRUE,
                                 !.confirmed = @ \/ task[w].kind # "refund"] \in Meta
<1>1. task[w].meta \in Meta
  BY DEF TaskOK, Task
<1>2. [task[w].meta EXCEPT !.collided = task[w].status = "cancelled"] \in Meta
  BY <1>1 DEF Meta
<1>3. [task[w].meta EXCEPT !.confirmed = TRUE] \in Meta
  BY <1>1 DEF Meta
<1>4. [task[w].meta EXCEPT !.resolved = TRUE,
                           !.confirmed = @ \/ task[w].kind # "refund"] \in Meta
  BY <1>1 DEF Meta
<1> QED BY <1>1, <1>2, <1>3, <1>4

(* What a task does to the orders. *)
LEMMA TaskView ==
  ASSUME TypeOK, TaskOK, NEW w \in Worker, TaskStep(w)
  PROVE  \/ UNCHANGED vars
         \/ Return(w) \/ Dies(w) \/ Calls(w)
         \/ \E o \in Order : CancelOrder(o) \/ RefundOrder(o) \/ WritesMeta(o) \/ GivesPeriod(o)
<1>0. task[w].pc # "idle"
  BY DEF TaskStep, Doing, ReserveEvent, VerifyEvent, RefundDelivered, RecordCollision,
     NotifyCollision, NoteCollision, IgnoreEvent, FailEvent, ConfirmEvent, CancelEvent,
     CancelUnpaid, FinishEvent, TouchOrder, QueryGateway, CallFromTask, ReturnToTask,
     RenewForCollision, ResolveCollision, CrashTask
<1>1. task[w].order \in Order /\ task[w] \in Task
  BY <1>0 DEF TaskOK
<1>2. CASE ReserveEvent(w) \/ VerifyEvent(w) \/ NotifyCollision(w) \/ IgnoreEvent(w)
           \/ FailEvent(w) \/ FinishEvent(w)
  BY <1>2 DEF ReserveEvent, VerifyEvent, NotifyCollision, IgnoreEvent, FailEvent, FinishEvent,
     KeepOrders
<1>3. CASE RecordCollision(w) \/ NoteCollision(w) \/ ConfirmEvent(w) \/ CancelEvent(w)
           \/ TouchOrder(w) \/ QueryGateway(w) \/ ResolveCollision(w)
  <2>1. UNCHANGED vars \/ WritesMeta(task[w].order)
    BY <1>3, MetaIsRead DEF WritesMeta, RecordCollision, NoteCollision, ConfirmEvent, CancelEvent,
       TouchOrder, QueryGateway, ResolveCollision, KeepOrders
  <2> QED BY <1>1, <2>1
<1>4. CASE RefundDelivered(w) \/ CancelUnpaid(w)
  <2> DEFINE o == task[w].order
  <2>1. CASE MoveTo(o, "cancelled") /\ CanMove(o, "cancelled", Status)
    <3>1. CancelOrder(o) \/ RefundOrder(o)
      BY <1>1, <1>4, <2>1 DEF RefundDelivered, CancelUnpaid, CancelOrder, RefundOrder, CanMove, TypeOK
    <3> QED BY <1>1, <3>1
  <2>2. CASE KeepOrder
    BY <1>4, <2>2 DEF RefundDelivered, CancelUnpaid, KeepOrder, vars, history
  <2> QED BY <1>4, <2>1, <2>2 DEF RefundDelivered, CancelUnpaid, CanMove
<1>5. CASE CallFromTask(w)
  <2>1. task[w].served \in BOOLEAN /\ task[w].meta.collided \in BOOLEAN
    BY <1>1 DEF Task, Meta
  <2>2. (task[w].status = "cancelled" \/ task[w].meta.collided) \in BOOLEAN
    BY <2>1
  <2> QED BY <1>1, <1>5, <2>1, <2>2 DEF CallFromTask, Calls
<1>6. CASE ReturnToTask(w)
  BY <1>6 DEF ReturnToTask
<1>7. CASE RenewForCollision(w)
  <2>1. UNCHANGED vars \/ GivesPeriod(task[w].order)
    BY <1>7 DEF RenewForCollision, GivesPeriod, vars, history
  <2> QED BY <1>1, <2>1
<1>8. CASE CrashTask(w)
  BY <1>8 DEF CrashTask, Dies
<1> QED BY <1>2, <1>3, <1>4, <1>5, <1>6, <1>7, <1>8 DEF TaskStep

(* Every step is, for the orders, one of OrderLifecycle or one of the four. *)
LEMMA OrderView ==
  ASSUME TypeOK, TaskOK, [PaymentNext]_allVars
  PROVE  \/ [Next]_vars
         \/ \E w \in Worker : Dies(w) \/ Calls(w)
         \/ \E o \in Order : WritesMeta(o) \/ GivesPeriod(o)
<1>1. CASE \E o \in Order : GatewayMoves(o)
  BY <1>1 DEF GatewayMoves
<1>2. CASE \E e \in Event : EventAges(e)
  BY <1>2 DEF EventAges
<1>3. ASSUME NEW w \in Worker, Starts(w) PROVE UNCHANGED vars
  BY <1>3 DEF Starts, PollPage, Callback, CheckPayment, ConfirmManually, ActivateCollision,
     ExtendCollision, AcknowledgeRefund, Start, KeepOrders
<1>4. ASSUME NEW w \in Worker, TaskStep(w)
      PROVE  \/ [Next]_vars \/ Dies(w) \/ Calls(w)
             \/ \E o \in Order : WritesMeta(o) \/ GivesPeriod(o)
  <2>1. ASSUME Return(w) \/ \E o \in Order : CancelOrder(o) \/ RefundOrder(o) PROVE Next
    BY <2>1 DEF Next
  <2> QED BY <1>4, <2>1, TaskView
<1>5. CASE OrderStep
  BY <1>5 DEF OrderStep, Next
<1>6. CASE UNCHANGED allVars
  BY <1>6 DEF allVars
<1> QED BY <1>1, <1>2, <1>3, <1>4, <1>5, <1>6, PaymentSteps

(* The four keep the orders in their types. *)
LEMMA OrderTypes ==
  ASSUME TypeOK, TaskOK, [PaymentNext]_allVars PROVE TypeOK'
<1>1. ASSUME NEW w \in Worker, Dies(w) PROVE TypeOK'
  BY <1>1 DEF Dies, TypeOK, KeepOrder, IdleWorker, WorkerState, WorkerPC, history
<1>2. ASSUME NEW w \in Worker, Calls(w) PROVE TypeOK'
  <2>1. PICK o \in Order, served \in BOOLEAN, cancelled \in BOOLEAN :
             BeginComplete(w, o, served, cancelled)
    BY <1>2 DEF Calls
  <2>2. worker' \in [Worker -> WorkerState] /\ attempts' \in Nat
    BY <2>1 DEF BeginComplete, TypeOK, WorkerState, WorkerPC
  <2>3. \A v \in Worker : worker'[v].pc # "idle" => worker'[v].order \in Order
    BY <2>1 DEF BeginComplete, TypeOK, WorkerState, WorkerPC
  <2> QED BY <2>1, <2>2, <2>3 DEF BeginComplete, TypeOK, KeepOrder, history
<1>3. ASSUME NEW o \in Order, WritesMeta(o) PROVE TypeOK'
  <2>1. PICK m \in Meta : SaveMeta(o, m)
    BY <1>3 DEF WritesMeta
  <2>2. collided' \subseteq Order /\ stale' \in [Order -> BOOLEAN]
    BY <2>1 DEF SaveMeta, SetMembership, TypeOK
  <2> QED BY <2>1, <2>2 DEF SaveMeta, TypeOK, history
<1>4. ASSUME NEW o \in Order, GivesPeriod(o) PROVE TypeOK'
  BY <1>4 DEF GivesPeriod, Grant, TypeOK
<1> QED BY <1>1, <1>2, <1>3, <1>4, OrderView, TypeStep

(* A task that does something has an order, and goes on, concludes or ends. *)
LEMMA TaskContinues ==
  ASSUME TaskOK, NEW w \in Worker, TaskStep(w)
  PROVE  /\ task[w].pc # "idle" /\ task[w].order \in Order /\ task[w] \in Task
         /\ \/ EndTask(w)
            \/ \E pc \in TaskPC : Proceed(w, pc) \/ Conclude(w, pc)
            \/ \E pc \in TaskPC, m \in Meta : task' = [task EXCEPT ![w].pc = pc, ![w].meta = m]
<1>1. task[w].pc # "idle"
  BY DEF TaskStep, Doing, ReserveEvent, VerifyEvent, RefundDelivered, RecordCollision,
     NotifyCollision, NoteCollision, IgnoreEvent, FailEvent, ConfirmEvent, CancelEvent,
     CancelUnpaid, FinishEvent, TouchOrder, QueryGateway, CallFromTask, ReturnToTask,
     RenewForCollision, ResolveCollision, CrashTask
<1>2. \A o \in Order : MetaOf(o) \in Meta
  BY DEF MetaOf, Meta
<1>3. task[w].order \in Order /\ task[w] \in Task
  BY <1>1 DEF TaskOK
<1>4. \/ EndTask(w)
      \/ \E pc \in TaskPC : Proceed(w, pc) \/ Conclude(w, pc)
      \/ \E pc \in TaskPC, m \in Meta : task' = [task EXCEPT ![w].pc = pc, ![w].meta = m]
  BY <1>2, <1>3 DEF TaskPC, TaskStep, Doing, ReserveEvent, VerifyEvent, RefundDelivered,
     RecordCollision, NotifyCollision, NoteCollision, IgnoreEvent, FailEvent, ConfirmEvent,
     CancelEvent, CancelUnpaid, FinishEvent, TouchOrder, QueryGateway, CallFromTask,
     ReturnToTask, RenewForCollision, ResolveCollision, CrashTask
<1> QED BY <1>1, <1>3, <1>4

(* Tasks stay tasks. *)
LEMMA TaskTypes ==
  ASSUME TypeOK, TaskOK, [PaymentNext]_allVars PROVE TaskOK'
<1>1. CASE UNCHANGED task
  BY <1>1 DEF TaskOK
<1>2. ASSUME NEW w \in Worker, Starts(w) PROVE TaskOK'
  <2>1. PICK o \in Order, kind \in TaskKind, pc \in TaskPC, type \in EventType :
             Start(w, Reading(o, kind, pc, type))
    BY <1>2 DEF Starts, PollPage, Callback, CheckPayment, ConfirmManually, ActivateCollision,
       ExtendCollision, AcknowledgeRefund, TaskKind, TaskPC, EventType
  <2>2. Reading(o, kind, pc, type) \in Task /\ Reading(o, kind, pc, type).order = o
    BY ReadingTask DEF Reading
  <2> QED BY <2>1, <2>2, OneTask DEF Start
<1>3. ASSUME NEW w \in Worker, TaskStep(w) PROVE TaskOK'
  BY <1>3, TaskContinues, TaskGoesOn
<1>4. CASE \/ \E o \in Order : GatewayMoves(o)
           \/ \E e \in Event : EventAges(e)
           \/ OrderStep \/ UNCHANGED allVars
  BY <1>1, <1>4 DEF GatewayMoves, EventAges, OrderStep, allVars, paymentVars
<1> QED BY <1>2, <1>3, <1>4, PaymentSteps

(* Only an order read as closed is notified of. *)
Notifying == \A w \in Worker : task[w].pc = "notify" => SeenClosed(w)
PaymentTypes == PaymentTypeOK /\ Notifying

(* The steps of a task, by what they change besides the task. *)
MetaSteps(w) ==
  \/ RecordCollision(w) \/ NoteCollision(w) \/ ConfirmEvent(w) \/ CancelEvent(w)
  \/ TouchOrder(w) \/ QueryGateway(w) \/ ResolveCollision(w)
EventSteps(w) == ReserveEvent(w) \/ FinishEvent(w)
OtherSteps(w) ==
  \/ VerifyEvent(w) \/ RefundDelivered(w) \/ IgnoreEvent(w) \/ FailEvent(w) \/ CancelUnpaid(w)
  \/ CallFromTask(w) \/ ReturnToTask(w) \/ RenewForCollision(w) \/ CrashTask(w)

(* The variables of the payments keep their types. *)
LEMMA LedgerTypes ==
  ASSUME PaymentTypes, [PaymentNext]_allVars
  PROVE  /\ gateway' \in [Order -> EventType \cup {"open"}]
         /\ event' \in [Event -> {"none", "pending", "processed", "failed"}]
         /\ recent' \in [Event -> BOOLEAN]
         /\ confirmed' \subseteq Order /\ resolved' \subseteq Order
         /\ alerted' \subseteq Order \X {"cancelled", "delivered"}
         /\ answered' \subseteq Event
         /\ tasks' \in Nat
         /\ byHand' \in [Order -> Nat]
<1> DEFINE Typed ==
      /\ gateway' \in [Order -> EventType \cup {"open"}]
      /\ event' \in [Event -> {"none", "pending", "processed", "failed"}]
      /\ recent' \in [Event -> BOOLEAN]
      /\ confirmed' \subseteq Order /\ resolved' \subseteq Order
      /\ alerted' \subseteq Order \X {"cancelled", "delivered"}
      /\ answered' \subseteq Event
      /\ tasks' \in Nat
      /\ byHand' \in [Order -> Nat]
<1>0. PaymentTypeOK
  BY DEF PaymentTypes
<1>1. ASSUME NEW o \in Order, GatewayMoves(o) PROVE Typed
  BY <1>0, <1>1 DEF GatewayMoves, EventType, PaymentTypeOK
<1>2. ASSUME NEW e \in Event, EventAges(e) PROVE Typed
  BY <1>0, <1>2 DEF EventAges, PaymentTypeOK
<1>3. ASSUME NEW w \in Worker, Starts(w) PROVE Typed
  <2>1. PICK t : Start(w, t)
    BY <1>3 DEF Starts, PollPage, Callback, CheckPayment, ConfirmManually, ActivateCollision,
       ExtendCollision, AcknowledgeRefund
  <2> QED BY <1>0, <2>1 DEF Start, KeepOrders, PaymentTypeOK
<1>4. ASSUME NEW w \in Worker, EventSteps(w) PROVE Typed
  <2>1. EventOf(w) \in Event
    BY <1>0, <1>4 DEF EventSteps, ReserveEvent, FinishEvent, Doing, EventOf, Event, Task, PaymentTypeOK
  <2> QED BY <1>0, <1>4, <2>1 DEF EventSteps, ReserveEvent, FinishEvent, KeepOrders, PaymentTypeOK
<1>5. ASSUME NEW w \in Worker, MetaSteps(w) PROVE Typed
  <2>1. UNCHANGED <<event, recent, answered, alerted, gateway, tasks, byHand>>
    BY <1>5 DEF MetaSteps, RecordCollision, NoteCollision, ConfirmEvent, CancelEvent, TouchOrder,
       QueryGateway, ResolveCollision
  <2>2. task[w].order \in Order
    BY <1>0, <1>5 DEF MetaSteps, RecordCollision, NoteCollision, ConfirmEvent, CancelEvent, TouchOrder,
       QueryGateway, ResolveCollision, Doing, PaymentTypeOK
  <2>3. KeepOrders \/ \E m : SaveMeta(task[w].order, m)
    BY <1>5 DEF MetaSteps, RecordCollision, NoteCollision, ConfirmEvent, CancelEvent, TouchOrder,
       QueryGateway, ResolveCollision
  <2>4. confirmed' \subseteq Order /\ resolved' \subseteq Order
    BY <1>0, <2>2, <2>3 DEF SaveMeta, SetMembership, KeepOrders, PaymentTypeOK
  <2> QED BY <1>0, <2>1, <2>4 DEF PaymentTypeOK
<1>6. ASSUME NEW w \in Worker, NotifyCollision(w) PROVE Typed
  <2>1. task[w].order \in Order /\ task[w].status \in {"cancelled", "delivered"}
    BY <1>0, <1>6 DEF NotifyCollision, Doing, PaymentTypes, Notifying, SeenClosed, PaymentTypeOK
  <2> QED BY <1>0, <1>6, <2>1 DEF NotifyCollision, KeepOrders, PaymentTypeOK
<1>7. ASSUME NEW w \in Worker, OtherSteps(w) PROVE Typed
  BY <1>0, <1>7 DEF OtherSteps, VerifyEvent, RefundDelivered, IgnoreEvent, FailEvent, CancelUnpaid,
     CallFromTask, ReturnToTask, RenewForCollision, CrashTask, KeepOrders, PaymentTypeOK
<1>8. CASE OrderStep \/ UNCHANGED allVars
  BY <1>0, <1>8 DEF OrderStep, allVars, paymentVars, PaymentTypeOK
<1>9. \A w \in Worker : TaskStep(w) => EventSteps(w) \/ MetaSteps(w) \/ NotifyCollision(w) \/ OtherSteps(w)
  BY DEF TaskStep, EventSteps, MetaSteps, OtherSteps
<1> QED BY <1>1, <1>2, <1>3, <1>4, <1>5, <1>6, <1>7, <1>8, <1>9, PaymentSteps

(* Only RecordCollision goes on to notify. *)
LEMMA NotifyingStep ==
  ASSUME PaymentTypes, [PaymentNext]_allVars PROVE Notifying'
<1> SUFFICES ASSUME NEW w \in Worker, task'[w].pc = "notify"
             PROVE  task'[w].status \in {"delivered", "cancelled"}
  BY DEF Notifying, SeenClosed
<1>0. task \in [Worker -> Task] /\ (task[w].pc = "notify" => SeenClosed(w))
  BY DEF PaymentTypes, PaymentTypeOK, Notifying
<1>1. CASE task'[w] = task[w]
  BY <1>0, <1>1 DEF SeenClosed
<1>2. CASE RecordCollision(w)
  BY <1>0, <1>2 DEF RecordCollision, SeenClosed, Proceed, Task
<1>3. task'[w] = task[w] \/ RecordCollision(w)
  <2>1. ASSUME NEW v \in Worker, Starts(v) PROVE task'[w] = task[w]
    BY <1>0, <2>1 DEF Starts, PollPage, Callback, CheckPayment, ConfirmManually, ActivateCollision,
       ExtendCollision, AcknowledgeRefund, Start, Reading
  <2>2. ASSUME NEW v \in Worker, TaskStep(v), v # w PROVE task'[w] = task[w]
    BY <1>0, <2>2 DEF TaskStep, ReserveEvent, VerifyEvent, RefundDelivered, RecordCollision,
       NotifyCollision, NoteCollision, IgnoreEvent, FailEvent, ConfirmEvent, CancelEvent,
       CancelUnpaid, FinishEvent, TouchOrder, QueryGateway, CallFromTask, ReturnToTask,
       RenewForCollision, ResolveCollision, CrashTask, Proceed, Conclude, EndTask
  <2>3. CASE TaskStep(w)
    BY <1>0, <2>3 DEF TaskStep, ReserveEvent, VerifyEvent, RefundDelivered, Task,
       NotifyCollision, NoteCollision, IgnoreEvent, FailEvent, ConfirmEvent, CancelEvent,
       CancelUnpaid, FinishEvent, TouchOrder, QueryGateway, CallFromTask, ReturnToTask,
       RenewForCollision, ResolveCollision, CrashTask, Proceed, Conclude, EndTask, NoTask
  <2>4. CASE \/ \E o \in Order : GatewayMoves(o)
             \/ \E e \in Event : EventAges(e)
             \/ OrderStep \/ UNCHANGED allVars
    BY <2>4 DEF GatewayMoves, EventAges, OrderStep, allVars, paymentVars
  <2> QED BY <2>1, <2>2, <2>3, <2>4, PaymentSteps
<1> QED BY <1>1, <1>2, <1>3

(* Payments keep their types. *)
LEMMA PaymentTypesAlways == PaymentSpec => []PaymentTypes
<1>1. PaymentInit => PaymentTypes
  <2> SUFFICES ASSUME PaymentInit PROVE PaymentTypes
    OBVIOUS
  <2>1. TypeOK
    BY OrderAssumption, BoundAssumption DEF PaymentInit, Init, TypeOK, Status, ProfileStage,
       WorkerState, WorkerPC, IdleWorker, RecovererState, RecovererPC, IdleRecoverer
  <2>2. NoTask \in Task /\ NoTask.pc = "idle"
    BY DEF NoTask, NoMeta, Meta, TaskKind, TaskPC, EventType, Status, Task
  <2> QED BY <2>1, <2>2 DEF PaymentInit, PaymentTypes, PaymentTypeOK, Notifying
<1>2. PaymentTypes /\ [PaymentNext]_allVars => PaymentTypes'
  <2> SUFFICES ASSUME PaymentTypes, [PaymentNext]_allVars PROVE PaymentTypes'
    OBVIOUS
  <2>1. TypeOK /\ TaskOK
    BY DEF PaymentTypes, PaymentTypeOK, TaskOK
  <2>2. TypeOK' /\ TaskOK'
    BY <2>1, OrderTypes, TaskTypes
  <2>3. PaymentTypeOK'
    BY <2>2, LedgerTypes DEF PaymentTypeOK, TaskOK
  <2> QED BY <2>3, NotifyingStep DEF PaymentTypes
<1> QED BY <1>1, <1>2, PTL DEF PaymentSpec

(* The orders, the webhook events and the tasks keep their types whatever
   Platega, the customers, the administrators and the threads do. *)
THEOREM PaymentTypeCorrect == PaymentSpec => []PaymentTypeOK
<1>1. PaymentTypes => PaymentTypeOK
  BY DEF PaymentTypes
<1> QED BY <1>1, PaymentTypesAlways, PTL
---------------------------------------------------------------------------
(* No payment is taken in silence. A step leaves the tasks of all threads but
   one as they were. *)
LEMMA OtherTasks ==
  ASSUME TaskOK, NEW w \in Worker, Starts(w) \/ TaskStep(w), NEW v \in Worker \ {w}
  PROVE  task'[v] = task[v]
<1>1. CASE Starts(w)
  BY <1>1 DEF TaskOK, Starts, PollPage, Callback, CheckPayment, ConfirmManually, ActivateCollision,
     ExtendCollision, AcknowledgeRefund, Start
<1>2. CASE TaskStep(w)
  BY <1>2 DEF TaskOK, TaskStep, ReserveEvent, VerifyEvent, RefundDelivered, RecordCollision,
     NotifyCollision, NoteCollision, IgnoreEvent, FailEvent, ConfirmEvent, CancelEvent,
     CancelUnpaid, FinishEvent, TouchOrder, QueryGateway, CallFromTask, ReturnToTask,
     RenewForCollision, ResolveCollision, CrashTask, Proceed, Conclude, EndTask
<1> QED BY <1>1, <1>2

(* What a task is after a step of its own. *)
LEMMA OwnTask ==
  ASSUME TaskOK, NEW w \in Worker
  PROVE  /\ \A pc \in TaskPC : Proceed(w, pc) => task'[w] = [task[w] EXCEPT !.pc = pc]
         /\ \A pc \in TaskPC :
              Conclude(w, pc) =>
                task'[w] = [task[w] EXCEPT !.pc = pc, !.status = "waiting_payment",
                                           !.served = FALSE, !.meta = NoMeta]
         /\ EndTask(w) => task'[w] = NoTask
BY DEF TaskOK, Proceed, Conclude, EndTask

(* A delivery and an alert are never taken back, and the environment of a
   behaviour is chosen once. *)
Delivered(o) == deliveries[o] >= 1

(* Each step keeps deliveries and alerts. *)
LEMMA StaysReached ==
  ASSUME PaymentTypes, [PaymentNext]_allVars
  PROVE  /\ faults' = faults
         /\ \A o \in Order : /\ Delivered(o) => Delivered(o)'
                             /\ Alerted(o) => Alerted(o)'
<1>1. TypeOK /\ TaskOK
  BY DEF PaymentTypes, PaymentTypeOK, TaskOK
<1>2. ASSUME [Next]_vars
      PROVE  faults' = faults /\ \A o \in Order : Delivered(o) => Delivered(o)'
  <2>1. ASSUME NEW o \in Order, Delivered(o) PROVE Delivered(o)'
    <3>1. deliveries' = deliveries \/ \E p \in Order : Deliver(p)
      BY <1>1, <1>2 DEF Next, vars, history, CallComplete, BeginComplete, CompleteOrder, ClaimOrder,
         PollWinner, ConsumePromo, ExtendRenewal, ReuseLinked, AddClient, SaveProfile, LinkProfile,
         DeliverOrder, AuditDelivery, AccrueReferral, RestorePromo, MarkFailed, ProvisioningError,
         Return, Crash, RecoverClaim, RecoverLookup, RecoverSettle, RecoverAdopt, RecoverRelease,
         RecoverAbort, GrowStale, CancelOrder, RefundOrder, LatePayment, ChatSelect, ChatCancel,
         TypeOK, At
    <3>2. deliveries[o] \in Nat
      BY <1>1 DEF TypeOK
    <3> QED BY <1>1, <2>1, <3>1, <3>2 DEF Delivered, Deliver, TypeOK
  <2> QED BY <1>2, <2>1, SameFaults
<1>3. ASSUME \/ \E w \in Worker : Dies(w) \/ Calls(w)
             \/ \E o \in Order : WritesMeta(o) \/ GivesPeriod(o)
      PROVE  faults' = faults /\ \A o \in Order : Delivered(o) => Delivered(o)'
  BY <1>3 DEF Dies, Calls, WritesMeta, GivesPeriod, BeginComplete, SaveMeta, history, Delivered
<1>4. alerted \subseteq alerted'
  <2>1. ASSUME NEW w \in Worker, Starts(w) PROVE alerted' = alerted
    BY <2>1 DEF Starts, PollPage, Callback, CheckPayment, ConfirmManually, ActivateCollision,
       ExtendCollision, AcknowledgeRefund, Start
  <2>2. ASSUME NEW w \in Worker, TaskStep(w) PROVE alerted \subseteq alerted'
    BY <2>2 DEF TaskStep, ReserveEvent, VerifyEvent, RefundDelivered, RecordCollision,
       NotifyCollision, NoteCollision, IgnoreEvent, FailEvent, ConfirmEvent, CancelEvent,
       CancelUnpaid, FinishEvent, TouchOrder, QueryGateway, CallFromTask, ReturnToTask,
       RenewForCollision, ResolveCollision, CrashTask
  <2>3. CASE \/ \E o \in Order : GatewayMoves(o)
             \/ \E e \in Event : EventAges(e)
             \/ OrderStep \/ UNCHANGED allVars
    BY <2>3 DEF GatewayMoves, EventAges, OrderStep, allVars, paymentVars
  <2> QED BY <2>1, <2>2, <2>3, PaymentSteps
<1>5. \A o \in Order : Alerted(o) => Alerted(o)'
  BY <1>4 DEF Alerted
<1> QED BY <1>1, <1>2, <1>3, <1>5, OrderView

(* What is delivered, and what a thread knows of a delivery. *)
WorkHandled ==
  /\ \A o \in Order : status[o] = "delivered" => Delivered(o)
  /\ \A w \in Worker : worker[w].pc \in {"audit", "referral", "ok"} => Delivered(worker[w].order)
(* What each control point of a task knows: the row it has read, the alert
   that an administrator answered, the delivery it reports. *)
TaskHandled(w) ==
  task[w].pc # "idle" =>
    LET t == task[w] IN
    /\ t.status = "delivered" \/ t.served => Delivered(t.order)
    /\ t.meta.resolved \/ t.kind \in {"activate", "extend", "refund"} => Alerted(t.order)
    /\ t.pc \in {"note", "resolve"} => Alerted(t.order)
    /\ t.pc = "running" => worker[w].order = t.order
    /\ t.pc = "cancel" => t.type = "CANCELED"
    /\ /\ t.kind = "webhook" /\ t.pc = "finish" /\ t.type = "CONFIRMED"
       /\ "telegram" \notin faults
       => Delivered(t.order) \/ Alerted(t.order)
Handled_Inv ==
  /\ WorkHandled
  /\ \A w \in Worker : TaskHandled(w)
  /\ \A o \in resolved : Alerted(o)
  /\ PaidIsHandled

(* A thread that reports a delivery has seen or made one. *)
LEMMA WorkStep ==
  ASSUME PaymentTypes, Handled_Inv, [PaymentNext]_allVars PROVE WorkHandled'
<1>0. TypeOK /\ TaskOK /\ WorkHandled
  BY DEF PaymentTypes, PaymentTypeOK, TaskOK, Handled_Inv
<1>1. ASSUME NEW o \in Order, status'[o] = "delivered" PROVE Delivered(o)'
  <2>1. CASE status[o] = "delivered"
    BY <1>0, <2>1, StaysReached DEF WorkHandled
  <2>2. CASE status[o] # "delivered"
    <3>1. [Next]_vars
      <4>1. status' # status
        BY <1>1, <2>2
      <4> QED BY <1>0, <4>1, OrderView DEF Dies, KeepOrder, Calls, BeginComplete, WritesMeta, SaveMeta,
         GivesPeriod
    <3>2. Deliver(o)
      BY <1>0, <1>1, <2>2, <3>1, BecomesDelivered
    <3> QED BY <1>0, <3>2 DEF Delivered, Deliver, TypeOK
  <2> QED BY <2>1, <2>2
<1>2. ASSUME NEW w \in Worker, worker'[w].pc \in {"audit", "referral", "ok"}
      PROVE  Delivered(worker[w].order)'
  <2>1. CASE worker'[w] = worker[w]
    <3>1. worker[w].order \in Order /\ Delivered(worker[w].order)
      BY <1>0, <1>2, <2>1 DEF WorkHandled, TypeOK
    <3> QED BY <2>1, <3>1, StaysReached
  <2>2. CASE [Next]_vars /\ Moves(w)
    <3>1. CASE DeliverOrder(w)
      <4>1. Deliver(worker[w].order) /\ worker'[w].order = worker[w].order /\ worker[w].order \in Order
        BY <1>0, <1>2, <3>1 DEF DeliverOrder, Goto, TypeOK, WorkerState, At
      <4> QED BY <1>0, <4>1 DEF Deliver, Delivered, TypeOK
    <3>2. CASE AuditDelivery(w) \/ AccrueReferral(w) \/ PollWinner(w)
      <4>1. worker'[w].order = worker[w].order /\ worker[w].order \in Order
        BY <1>0, <3>2 DEF AuditDelivery, AccrueReferral, PollWinner, Goto, TypeOK, WorkerState, At
      <4>2. Delivered(worker[w].order)
        BY <1>0, <1>2, <3>2, <4>1 DEF AuditDelivery, AccrueReferral, PollWinner, Goto, TypeOK,
           WorkerState, At, WorkHandled
      <4> QED BY <4>1, <4>2, StaysReached
    <3>3. CASE \E o \in Order : CallComplete(w, o)
      <4>1. PICK o \in Order : CallComplete(w, o)
        BY <3>3
      <4>2. worker'[w].order = o /\ status[o] = "delivered"
        BY <1>0, <1>2, <4>1 DEF CallComplete, BeginComplete, TypeOK
      <4> QED BY <1>0, <4>2, StaysReached DEF WorkHandled
    <3>4. DeliverOrder(w) \/ AuditDelivery(w) \/ AccrueReferral(w) \/ PollWinner(w)
          \/ \E o \in Order : CallComplete(w, o)
      BY <1>0, <1>2, <2>2 DEF Moves, At, TypeOK, WorkerState, Goto, CompleteOrder, ClaimOrder,
         ConsumePromo, ExtendRenewal, ReuseLinked, AddClient, SaveProfile, LinkProfile,
         RestorePromo, MarkFailed, ProvisioningError, Return, Crash, IdleWorker
    <3> QED BY <3>1, <3>2, <3>3, <3>4
  <2>3. CASE Calls(w)
    <3>1. worker'[w].order = task[w].order /\ task[w].order \in Order /\ task[w].served
      BY <1>0, <1>2, <2>3 DEF Calls, BeginComplete, TypeOK
    <3>2. Delivered(task[w].order)
      BY <2>3, <3>1 DEF Calls, Handled_Inv, TaskHandled
    <3> QED BY <3>1, <3>2, StaysReached
  <2>4. worker'[w] = worker[w] \/ ([Next]_vars /\ Moves(w)) \/ Calls(w)
    <3>1. CASE [Next]_vars
      BY <1>0, <3>1, OneMoves
    <3>2. ASSUME NEW v \in Worker, Dies(v) \/ Calls(v)
          PROVE  worker'[w] = worker[w] \/ Calls(w)
      BY <1>0, <1>2, <3>2 DEF Dies, Calls, BeginComplete, TypeOK, IdleWorker
    <3>3. ASSUME NEW o \in Order, WritesMeta(o) \/ GivesPeriod(o) PROVE worker' = worker
      BY <3>3 DEF WritesMeta, SaveMeta, GivesPeriod
    <3> QED BY <1>0, <3>1, <3>2, <3>3, OrderView
  <2> QED BY <2>1, <2>2, <2>3, <2>4
<1> QED BY <1>1, <1>2 DEF WorkHandled

(* Where a thread's own task does not go on, the thread stays on its order. *)
LEMMA StaysOnOrder ==
  ASSUME PaymentTypes, [PaymentNext]_allVars, NEW w \in Worker, ~Starts(w), ~TaskStep(w)
  PROVE  task'[w] = task[w] /\ worker'[w].order = worker[w].order
<1>0. TypeOK /\ TaskOK
  BY DEF PaymentTypes, PaymentTypeOK, TaskOK
<1>1. ASSUME NEW v \in Worker, Starts(v) PROVE worker' = worker
  BY <1>1 DEF Starts, PollPage, Callback, CheckPayment, ConfirmManually, ActivateCollision,
     ExtendCollision, AcknowledgeRefund, Start, KeepOrders, vars
<1>2. ASSUME NEW v \in Worker, TaskStep(v), v # w PROVE worker'[w] = worker[w]
  BY <1>0, <1>2, TaskView DEF TypeOK, vars, Return, Dies, Calls, BeginComplete, CancelOrder, RefundOrder,
     WritesMeta, SaveMeta, GivesPeriod
<1>3. CASE OrderStep
  <2>1. task' = task
    BY <1>3 DEF OrderStep, paymentVars
  <2>2. ASSUME NEW v \in Worker, CompleteOrder(v) \/ ProvisioningError(v)
        PROVE  worker'[w].order = worker[w].order
    BY <1>0, <2>2 DEF TypeOK, WorkerState, Goto, CompleteOrder, ClaimOrder, PollWinner,
       ConsumePromo, ExtendRenewal, ReuseLinked, AddClient, SaveProfile, LinkProfile, DeliverOrder,
       AuditDelivery, AccrueReferral, RestorePromo, MarkFailed, ProvisioningError
  <2>3. ASSUME \/ \E r \in Recoverer : \/ \E o \in Order : RecoverClaim(r, o)
                                       \/ RecoverLookup(r) \/ RecoverSettle(r)
               \/ \E o \in Order : GrowStale(o) \/ CancelOrder(o)
        PROVE  worker' = worker
    BY <2>3 DEF RecoverClaim, RecoverLookup, RecoverSettle, RecoverAdopt, RecoverRelease, GrowStale,
       CancelOrder
  <2> QED BY <1>3, <2>1, <2>2, <2>3 DEF OrderStep
<1>4. CASE \/ \E o \in Order : GatewayMoves(o)
           \/ \E e \in Event : EventAges(e)
           \/ UNCHANGED allVars
  BY <1>4 DEF GatewayMoves, EventAges, allVars, paymentVars, vars
<1> QED BY <1>0, <1>1, <1>2, <1>3, <1>4, PaymentSteps, OtherTasks

(* A task knows what its step established, and still knows what it knew. *)
LEMMA TaskHandledStep ==
  ASSUME PaymentTypes, Handled_Inv, [PaymentNext]_allVars, NEW w \in Worker,
         NEW o, o = task[w].order
  PROVE  TaskHandled(w)'
<1>0. TypeOK /\ TaskOK /\ WorkHandled /\ TaskHandled(w) /\ \A p \in resolved : Alerted(p)
  BY DEF PaymentTypes, PaymentTypeOK, TaskOK, Handled_Inv
<1>1. CASE ~Starts(w) /\ ~TaskStep(w)
  <2>1. task'[w] = task[w] /\ worker'[w].order = worker[w].order
    BY <1>1, StaysOnOrder
  <2>2. task[w].pc # "idle" => o \in Order
    BY <1>0 DEF TaskOK
  <2> QED BY <1>0, <2>1, <2>2, StaysReached DEF TaskHandled
<1>2. CASE Starts(w)
  <2>1. PICK p \in Order, kind \in TaskKind, pc \in TaskPC, type \in EventType :
             /\ Start(w, Reading(p, kind, pc, type))
             /\ pc \notin {"note", "running", "cancel", "finish"}
             /\ kind \in {"activate", "extend", "refund"} \/ pc = "resolve" => Alerted(p)
    BY <1>2 DEF Starts, PollPage, Callback, CheckPayment, ConfirmManually, ActivateCollision,
       ExtendCollision, AcknowledgeRefund, Clickable, Alerted, TaskKind,
       TaskPC, EventType
  <2>2. task'[w] = Reading(p, kind, pc, type)
    BY <1>0, <2>1 DEF Start, TaskOK
  <2>3. p \in resolved => Alerted(p)
    BY <1>0
  <2>4. status[p] = "delivered" => Delivered(p)
    BY <1>0 DEF WorkHandled
  <2>5. /\ task'[w].order = p /\ task'[w].kind = kind /\ task'[w].pc = pc
        /\ task'[w].status = status[p]
    BY <2>2 DEF Reading
  <2>6. task'[w].served => Delivered(p)
    <3>1. task'[w].served = (status[p] = "delivered" /\ profile[p] = "linked")
      BY <2>2 DEF Reading
    <3> QED BY <2>4, <3>1
  <2>7. task'[w].meta.resolved => Alerted(p)
    <3>1. task'[w].meta.resolved = (p \in resolved)
      BY <2>2 DEF Reading, MetaOf
    <3> QED BY <2>3, <3>1
  <2>8. (Delivered(p) => Delivered(p)') /\ (Alerted(p) => Alerted(p)')
    BY StaysReached
  <2> QED BY <2>1, <2>4, <2>5, <2>6, <2>7, <2>8 DEF TaskHandled
<1> SUFFICES ASSUME TaskStep(w) PROVE TaskHandled(w)'
  BY <1>1, <1>2
<1>3. task[w].pc # "idle" /\ o \in Order /\ task[w] \in Task
  BY <1>0 DEF TaskOK, TaskStep, Doing, ReserveEvent, VerifyEvent, RefundDelivered, RecordCollision,
     NotifyCollision, NoteCollision, IgnoreEvent, FailEvent, ConfirmEvent, CancelEvent,
     CancelUnpaid, FinishEvent, TouchOrder, QueryGateway, CallFromTask, ReturnToTask,
     RenewForCollision, ResolveCollision, CrashTask
<1>4. CASE EndTask(w)
  <2>1. task'[w].pc = "idle"
    BY <1>0, <1>4 DEF EndTask, TaskOK, NoTask
  <2> QED BY <2>1 DEF TaskHandled
<1>5. ASSUME NEW pc \in TaskPC \ {"note", "resolve", "running", "cancel", "finish"}, Proceed(w, pc)
      PROVE  TaskHandled(w)'
  <2>1. task'[w] = [task[w] EXCEPT !.pc = pc]
    BY <1>0, <1>5, OwnTask
  <2> QED BY <1>0, <1>3, <1>5, <2>1, StaysReached DEF TaskHandled, Task
<1>6. ASSUME NEW pc \in TaskPC \ {"note", "resolve"}, Conclude(w, pc),
             pc = "running" => worker'[w].order = o,
             pc = "cancel" => task[w].type = "CANCELED",
             pc = "finish" /\ task[w].kind = "webhook" /\ task[w].type = "CONFIRMED"
               /\ "telegram" \notin faults
             => Delivered(o)' \/ Alerted(o)'
      PROVE  TaskHandled(w)'
  <2>1. task'[w] = [task[w] EXCEPT !.pc = pc, !.status = "waiting_payment",
                                   !.served = FALSE, !.meta = NoMeta]
    BY <1>0, <1>6, OwnTask
  <2> QED BY <1>0, <1>3, <1>6, <2>1, StaysReached DEF TaskHandled, Task, NoMeta
<1>7. ASSUME NEW pc \in {"note", "resolve"}, Alerted(o)',
             \/ Proceed(w, pc)
             \/ task' = [task EXCEPT ![w].pc = pc, ![w].meta = MetaOf(o)]
      PROVE  TaskHandled(w)'
  <2>1. \/ task'[w] = [task[w] EXCEPT !.pc = pc]
        \/ task'[w] = [task[w] EXCEPT !.pc = pc, !.meta = MetaOf(o)]
    BY <1>0, <1>7 DEF Proceed, TaskOK
  <2>2. /\ task'[w].order = o /\ task'[w].pc = pc
        /\ task'[w].status = task[w].status /\ task'[w].served = task[w].served
    BY <1>3, <2>1 DEF Task
  <2> QED BY <1>0, <1>3, <1>7, <2>2, StaysReached DEF TaskHandled
<1>8. CASE ReserveEvent(w) \/ RecordCollision(w) \/ ConfirmEvent(w) \/ TouchOrder(w)
           \/ QueryGateway(w) \/ FinishEvent(w) \/ ResolveCollision(w) \/ CrashTask(w)
  <2>1. EndTask(w) \/ \E pc \in {"verify", "notify", "call", "query"} : Proceed(w, pc)
    BY <1>8 DEF ReserveEvent, RecordCollision, ConfirmEvent, TouchOrder, QueryGateway, FinishEvent,
       ResolveCollision, CrashTask
  <2> QED BY <1>4, <1>5, <2>1 DEF TaskPC
<1>9. CASE VerifyEvent(w) \/ FailEvent(w)
  <2>1. Proceed(w, "decide") \/ Conclude(w, "reject")
    BY <1>9 DEF VerifyEvent, FailEvent
  <2> QED BY <1>5, <1>6, <2>1 DEF TaskPC
<1>10. CASE RefundDelivered(w) \/ CancelEvent(w) \/ CancelUnpaid(w)
  <2>1. /\ task[w].type # "CONFIRMED"
        /\ \/ Conclude(w, "finish") \/ Conclude(w, "reject")
           \/ Conclude(w, "cancel") /\ task[w].type = "CANCELED"
    BY <1>0, <1>10 DEF RefundDelivered, CancelEvent, CancelUnpaid, Doing, TaskHandled
  <2> QED BY <1>6, <2>1 DEF TaskPC
<1>11. CASE NotifyCollision(w)
  <2>1. CASE "telegram" \in faults /\ Conclude(w, "finish")
    BY <1>6, <2>1 DEF TaskPC
  <2>2. CASE /\ alerted' = alerted \cup {<<o, task[w].status>>}
             /\ task' = [task EXCEPT ![w].pc = "note", ![w].meta = MetaOf(o)]
    <3>1. task[w].status \in {"cancelled", "delivered"}
      BY <1>11 DEF NotifyCollision, Doing, PaymentTypes, Notifying, SeenClosed
    <3>2. Alerted(o)'
      <4>1. <<o, task[w].status>> \in alerted'
        BY <2>2
      <4>2. \E seen \in {"cancelled", "delivered"} : <<o, seen>> \in alerted'
        BY <3>1, <4>1
      <4> QED BY <4>2, <2>2 DEF Alerted
    <3> QED BY <1>7, <2>2, <3>2
  <2> QED BY <1>11, <2>1, <2>2 DEF NotifyCollision
<1>12. CASE NoteCollision(w) \/ IgnoreEvent(w)
  <2>1. /\ Conclude(w, "finish")
        /\ task[w].type = "CONFIRMED" => Delivered(o) \/ Alerted(o)
    BY <1>0, <1>12 DEF NoteCollision, IgnoreEvent, Doing, TaskHandled, Settled
  <2> QED BY <1>3, <1>6, <2>1, StaysReached DEF TaskPC
<1>13. CASE CallFromTask(w)
  <2>1. Conclude(w, "running") /\ worker'[w].order = o
    BY <1>0, <1>13 DEF CallFromTask, BeginComplete, TypeOK
  <2> QED BY <1>6, <2>1 DEF TaskPC
<1>14. CASE ReturnToTask(w)
  <2>1. At(w, "ok") => Delivered(o)
    BY <1>0, <1>14 DEF ReturnToTask, At, WorkHandled, TaskHandled
  <2>2. CASE Conclude(w, IF At(w, "ok") THEN "finish" ELSE "reject")
    BY <1>3, <1>6, <2>1, <2>2, StaysReached DEF TaskPC
  <2>3. CASE task[w].kind = "activate" /\ task' = [task EXCEPT ![w].pc = "resolve", ![w].meta = MetaOf(o)]
    <3>1. Alerted(o)'
      BY <1>0, <1>3, <2>3, StaysReached DEF TaskHandled
    <3> QED BY <1>7, <2>3, <3>1
  <2> QED BY <1>4, <1>14, <2>2, <2>3 DEF ReturnToTask
<1>15. CASE RenewForCollision(w)
  <2>1. EndTask(w) \/ Proceed(w, "resolve")
    BY <1>15 DEF RenewForCollision
  <2>2. Alerted(o)'
    BY <1>0, <1>3, <1>15, StaysReached DEF RenewForCollision, Doing, TaskHandled
  <2> QED BY <1>4, <1>7, <2>1, <2>2
<1> QED BY <1>8, <1>9, <1>10, <1>11, <1>12, <1>13, <1>14, <1>15 DEF TaskStep

(* Only a task that knows of an alert writes a resolution. *)
LEMMA ResolvedStep ==
  ASSUME PaymentTypes, Handled_Inv, [PaymentNext]_allVars, NEW o \in resolved'
  PROVE  Alerted(o)'
<1>0. TypeOK /\ TaskOK /\ resolved \subseteq Order
  BY DEF PaymentTypes, PaymentTypeOK, TaskOK
<1>1. CASE o \in resolved
  BY <1>0, <1>1, StaysReached DEF Handled_Inv
<1>2. CASE o \notin resolved
  <2>1. PICK w \in Worker : MetaSteps(w)
    <3>1. ASSUME NEW w \in Worker, EventSteps(w) \/ NotifyCollision(w) \/ OtherSteps(w) \/ Starts(w)
          PROVE  resolved' = resolved
      BY <3>1 DEF EventSteps, ReserveEvent, FinishEvent, NotifyCollision, OtherSteps, VerifyEvent,
         RefundDelivered, IgnoreEvent, FailEvent, CancelUnpaid, CallFromTask, ReturnToTask,
         RenewForCollision, CrashTask, Starts, PollPage, Callback, CheckPayment, ConfirmManually,
         ActivateCollision, ExtendCollision, AcknowledgeRefund, Start, KeepOrders
    <3>2. ASSUME \/ \E p \in Order : GatewayMoves(p)
                 \/ \E e \in Event : EventAges(e)
                 \/ OrderStep \/ UNCHANGED allVars
          PROVE  resolved' = resolved
      BY <3>2 DEF GatewayMoves, EventAges, OrderStep, allVars, paymentVars
    <3>3. \A w \in Worker :
             TaskStep(w) => EventSteps(w) \/ MetaSteps(w) \/ NotifyCollision(w) \/ OtherSteps(w)
      BY DEF TaskStep, EventSteps, MetaSteps, OtherSteps
    <3> QED BY <1>2, <3>1, <3>2, <3>3, PaymentSteps
  <2>2. task[w].pc # "idle" /\ task[w].meta \in Meta
    BY <1>0, <2>1 DEF MetaSteps, RecordCollision, NoteCollision, ConfirmEvent, CancelEvent,
       TouchOrder, QueryGateway, ResolveCollision, Doing, TaskOK, Task
  <2>3. TaskHandled(w)
    BY DEF Handled_Inv
  <2>4. o = task[w].order /\ (task[w].meta.resolved \/ task[w].pc = "resolve")
    BY <1>2, <2>1, <2>2 DEF MetaSteps, RecordCollision, NoteCollision, ConfirmEvent, CancelEvent,
       TouchOrder, QueryGateway, ResolveCollision, KeepOrders, SaveMeta, SetMembership, Meta
  <2>5. o \in Order /\ Alerted(o)
    BY <1>0, <2>2, <2>3, <2>4 DEF TaskHandled, TaskOK
  <2> QED BY <2>5, StaysReached
<1> QED BY <1>1, <1>2

(* Only the first and the last step of a handler write to an event. *)
LEMMA EventChanges ==
  ASSUME [PaymentNext]_allVars
  PROVE  (event' = event /\ answered' = answered) \/ \E w \in Worker : EventSteps(w)
<1>1. ASSUME NEW w \in Worker, NotifyCollision(w) \/ OtherSteps(w) \/ Starts(w) \/ MetaSteps(w)
      PROVE  event' = event /\ answered' = answered
  BY <1>1 DEF MetaSteps, RecordCollision, NoteCollision, ConfirmEvent, CancelEvent, TouchOrder,
     QueryGateway, ResolveCollision, NotifyCollision, OtherSteps, VerifyEvent,
     RefundDelivered, IgnoreEvent, FailEvent, CancelUnpaid, CallFromTask, ReturnToTask,
     RenewForCollision, CrashTask, Starts, PollPage, Callback, CheckPayment, ConfirmManually,
     ActivateCollision, ExtendCollision, AcknowledgeRefund, Start
<1>2. ASSUME \/ \E o \in Order : GatewayMoves(o)
             \/ \E e \in Event : EventAges(e)
             \/ OrderStep \/ UNCHANGED allVars
      PROVE  event' = event /\ answered' = answered
  BY <1>2 DEF GatewayMoves, EventAges, OrderStep, allVars, paymentVars
<1>3. \A w \in Worker :
         TaskStep(w) => EventSteps(w) \/ MetaSteps(w) \/ NotifyCollision(w) \/ OtherSteps(w)
  BY DEF TaskStep, EventSteps, MetaSteps, OtherSteps
<1> QED BY <1>1, <1>2, <1>3, PaymentSteps

(* An event is closed as processed only by a task that knows of a delivery or
   an alert. *)
LEMMA ProcessedStep ==
  ASSUME PaymentTypes, Handled_Inv, [PaymentNext]_allVars PROVE PaidIsHandled'
<1>0. TypeOK /\ TaskOK /\ event \in [Event -> {"none", "pending", "processed", "failed"}]
  BY DEF PaymentTypes, PaymentTypeOK, TaskOK
<1> SUFFICES ASSUME "telegram" \notin faults, NEW o \in Order,
                    event'[<<o, "CONFIRMED">>] = "processed"
             PROVE  Delivered(o)' \/ Alerted(o)'
  BY StaysReached DEF PaidIsHandled, Delivered, Alerted
<1> DEFINE e == <<o, "CONFIRMED">>
<1>3. e \in Event
  BY DEF Event, EventType
<1>1. CASE event[e] = "processed"
  BY <1>1, StaysReached DEF Handled_Inv, PaidIsHandled, Delivered
<1>2. CASE event[e] # "processed"
  <2>1. PICK w \in Worker : FinishEvent(w)
    <3>1. ASSUME NEW w \in Worker, ReserveEvent(w) PROVE event'[e] # "processed"
      BY <1>0, <1>3, <1>2, <3>1 DEF ReserveEvent
    <3> QED BY <1>2, <3>1, EventChanges DEF EventSteps
  <2>2. /\ task[w].order = o /\ task[w].type = "CONFIRMED"
        /\ task[w].kind = "webhook" /\ task[w].pc = "finish"
    BY <1>0, <1>3, <1>2, <2>1 DEF FinishEvent, EventOf
  <2>3. Delivered(o) \/ Alerted(o)
    BY <2>2 DEF Handled_Inv, TaskHandled
  <2> QED BY <2>3, StaysReached
<1> QED BY <1>1, <1>2

(* What the tasks know always holds. *)
LEMMA HandledAlways == PaymentSpec => []Handled_Inv
<1>1. PaymentInit => Handled_Inv
  BY DEF PaymentInit, Init, Handled_Inv, WorkHandled, TaskHandled, PaidIsHandled, NoTask, NoMeta,
     IdleWorker, Event, EventType
<1>2. PaymentTypes /\ Handled_Inv /\ [PaymentNext]_allVars => Handled_Inv'
  BY WorkStep, TaskHandledStep, ResolvedStep, ProcessedStep DEF Handled_Inv
<1> QED BY <1>1, <1>2, PaymentTypesAlways, PTL DEF PaymentSpec

(* A payment whose webhook event is closed as processed has reached the
   customer or, Telegram permitting, an administrator, for any number of
   orders, threads, callbacks and clicks, and whatever row each handler decided
   on and whatever failed or died on the way. *)
THEOREM PaymentIsHandled == PaymentSpec => []PaidIsHandled
<1>1. Handled_Inv => PaidIsHandled
  BY DEF Handled_Inv
<1> QED BY <1>1, HandledAlways, PTL

---------------------------------------------------------------------------
(* Payments leave every order its one owner, and orphan none. *)
LEMMA PaymentOwnerStep ==
  ASSUME TypeOK, TaskOK, Owner_Inv, [PaymentNext]_allVars PROVE Owner_Inv'
<1>1. CASE [Next]_vars
  BY <1>1, OwnerStep
<1>2. ASSUME \/ \E w \in Worker : Dies(w) \/ Calls(w)
             \/ \E o \in Order : WritesMeta(o) \/ GivesPeriod(o)
      PROVE  Owner_Inv'
  <2>1. /\ UNCHANGED <<recoverer, scan, status, faults>>
        /\ \A o \in Order : stale'[o] => stale[o]
    BY <1>2 DEF Dies, Calls, BeginComplete, WritesMeta, SaveMeta, GivesPeriod, KeepOrder, TypeOK
  <2>2. ASSUME NEW o \in Order PROVE HoldersOf(o)' \subseteq HoldersOf(o)
    <3>1. CASE worker' = worker
      BY <3>1 DEF HoldersOf
    <3>2. ASSUME NEW w \in Worker, Dies(w) \/ Calls(w) PROVE HoldersOf(o)' \subseteq HoldersOf(o)
      BY <3>2 DEF Dies, Calls, BeginComplete, IdleWorker, TypeOK, HoldersOf, Claimed
    <3> QED BY <1>2, <3>1, <3>2 DEF WritesMeta, SaveMeta, GivesPeriod
  <2>3. ASSUME Prompt, NEW o \in Order PROVE OneOwner(o)'
    <3>1. OneOwner(o) /\ RecoverersOf(o)' = RecoverersOf(o)
      BY <2>1, <2>3 DEF Owner_Inv, RecoverersOf
    <3> QED BY <2>1, <2>2, <3>1, NoNewOwner
  <2> QED BY <2>1, <2>3 DEF Owner_Inv, Prompt
<1> QED BY <1>1, <1>2, OrderView

(* Without crashes, claimed orders stay attended to, too. *)
LEMMA PaymentAttendedStep ==
  ASSUME TypeOK, TaskOK, Attended_Inv, [PaymentNext]_allVars PROVE Attended_Inv'
<1>1. CASE [Next]_vars
  BY <1>1, AttendedStep
<1>2. ASSUME \/ \E w \in Worker : Dies(w) \/ Calls(w)
             \/ \E o \in Order : WritesMeta(o) \/ GivesPeriod(o)
      PROVE  Attended_Inv'
  <2>1. /\ UNCHANGED <<recoverer, status, faults>>
        /\ \A o \in Order : stale'[o] => stale[o]
    BY <1>2 DEF Dies, Calls, BeginComplete, WritesMeta, SaveMeta, GivesPeriod, KeepOrder, TypeOK
  <2>2. ASSUME Unhurried, NEW o \in Order PROVE HoldersOf(o) \subseteq HoldersOf(o)'
    <3>1. CASE worker' = worker
      BY <3>1 DEF HoldersOf
    <3>2. ASSUME NEW w \in Worker, Dies(w) \/ Calls(w) PROVE HoldersOf(o) \subseteq HoldersOf(o)'
      BY <2>2, <3>2 DEF Dies, Calls, BeginComplete, At, TypeOK, HoldersOf, Claimed, Unhurried
    <3> QED BY <1>2, <3>1, <3>2 DEF WritesMeta, SaveMeta, GivesPeriod
  <2> QED BY <2>1, <2>2 DEF Attended_Inv, Unhurried
<1> QED BY <1>1, <1>2, OrderView

(* Both hold always. *)
LEMMA PaymentOwners == PaymentSpec => [](Owner_Inv /\ Attended_Inv)
<1>1. PaymentInit => Owner_Inv /\ Attended_Inv
  BY OrderAssumption
     DEF PaymentInit, Init, Owner_Inv, OneOwner, Owned, HoldersOf, RecoverersOf, IdleWorker,
         IdleRecoverer, Claimed, Attended_Inv
<1>2. PaymentTypes /\ Owner_Inv /\ Attended_Inv /\ [PaymentNext]_allVars
      => (Owner_Inv /\ Attended_Inv)'
  BY PaymentOwnerStep, PaymentAttendedStep DEF PaymentTypes, PaymentTypeOK, TaskOK
<1> QED BY <1>1, <1>2, PaymentTypesAlways, PTL DEF PaymentSpec

---------------------------------------------------------------------------
(* What Platega has reported. A payment that was confirmed stays so or is
   refunded, and a refund is not taken back. *)
LEMMA GatewayKeeps ==
  ASSUME PaymentTypes, [PaymentNext]_allVars, NEW o \in Order
  PROVE  /\ gateway[o] = "REFUNDED" => gateway'[o] = "REFUNDED"
         /\ gateway[o] \in {"CONFIRMED", "REFUNDED"} => gateway'[o] \in {"CONFIRMED", "REFUNDED"}
<1>1. gateway' = gateway \/ \E p \in Order : GatewayMoves(p)
  <2>1. ASSUME NEW w \in Worker, Starts(w) \/ TaskStep(w) PROVE gateway' = gateway
    BY <2>1 DEF Starts, PollPage, Callback, CheckPayment, ConfirmManually, ActivateCollision,
       ExtendCollision, AcknowledgeRefund, Start, TaskStep, ReserveEvent, VerifyEvent,
       RefundDelivered, RecordCollision, NotifyCollision, NoteCollision, IgnoreEvent, FailEvent,
       ConfirmEvent, CancelEvent, CancelUnpaid, FinishEvent, TouchOrder, QueryGateway,
       CallFromTask, ReturnToTask, RenewForCollision, ResolveCollision, CrashTask
  <2>2. ASSUME \/ \E e \in Event : EventAges(e)
               \/ OrderStep \/ UNCHANGED allVars
        PROVE  gateway' = gateway
    BY <2>2 DEF EventAges, OrderStep, allVars, paymentVars
  <2> QED BY <2>1, <2>2, PaymentSteps
<1> QED BY <1>1 DEF GatewayMoves, PaymentTypes, PaymentTypeOK

(* A webhook handler at work reports what it did before, or has just begun. *)
Pending(w) == task[w].pc # "idle" /\ task[w].kind = "webhook"
SameReport(w) ==
  Pending(w) /\ task'[w].type = task[w].type /\ task'[w].order = task[w].order

(* Each step leaves a report to its handler, or begins it with a callback. *)
LEMMA ReportOrigin ==
  ASSUME PaymentTypes, [PaymentNext]_allVars, NEW w \in Worker, Pending(w)'
  PROVE  \/ SameReport(w)
         \/ \E o \in Order, type \in EventType :
              Callback(w, o, type) /\ task'[w] = Reading(o, "webhook", "reserve", type)
<1>0. TypeOK /\ TaskOK
  BY DEF PaymentTypes, PaymentTypeOK, TaskOK
<1>1. CASE Starts(w)
  <2>1. PICK o \in Order, type \in EventType : Callback(w, o, type)
    BY <1>0, <1>1 DEF Starts, PollPage, CheckPayment, ConfirmManually, ActivateCollision,
       ExtendCollision, AcknowledgeRefund, Start, Reading, TaskOK, Pending
  <2>2. task'[w] = Reading(o, "webhook", "reserve", type)
    BY <1>0, <2>1 DEF Callback, Start, TaskOK
  <2> QED BY <2>1, <2>2
<1>2. CASE TaskStep(w)
  <2>1. ~EndTask(w)
    BY <1>0 DEF EndTask, TaskOK, NoTask, Pending
  <2>2. task[w] \in Task /\ task \in [Worker -> Task]
    BY <1>0 DEF TaskOK
  <2>3. ASSUME NEW pc \in TaskPC, Proceed(w, pc) \/ Conclude(w, pc)
        PROVE  /\ task'[w].kind = task[w].kind /\ task'[w].type = task[w].type
               /\ task'[w].order = task[w].order
    BY <2>2, <2>3 DEF Proceed, Conclude, Task
  <2>4. ASSUME NEW pc \in TaskPC, NEW m, task' = [task EXCEPT ![w].pc = pc, ![w].meta = m]
        PROVE  /\ task'[w].kind = task[w].kind /\ task'[w].type = task[w].type
               /\ task'[w].order = task[w].order
    BY <2>2, <2>4 DEF Task
  <2>5. /\ task'[w].kind = task[w].kind /\ task'[w].type = task[w].type
        /\ task'[w].order = task[w].order
    BY <1>0, <1>2, <2>1, <2>3, <2>4, TaskContinues
  <2> QED BY <1>0, <1>2, <2>5, TaskContinues DEF Pending, SameReport
<1>3. CASE task'[w] = task[w]
  BY <1>3 DEF Pending, SameReport
<1> QED BY <1>0, <1>1, <1>2, <1>3, StaysOnOrder

---------------------------------------------------------------------------
(* One period for a payment. The period of an order is spent by the call that
   has granted it and by the delivery. *)
Sober == faults \subseteq {"telegram"}
Granted == {"client", "link", "deliver"}
Spent(o) == status[o] = "delivered" \/ \E w \in HoldersOf(o) : worker[w].pc \in Granted
(* The tasks that will add a period that an administrator has granted. *)
Extending(o) == {w \in Worker : Doing(w, "extend", "renew") /\ task[w].order = o}
Within(o) ==
  grants[o] + Cardinality(Extending(o)) <= (IF Spent(o) THEN 1 ELSE 0) + byHand[o]

(* Only a payment that was refunded is reported as refunded. *)
RefundsKnown ==
  \A w \in Worker :
    Pending(w) /\ task[w].type = "REFUNDED" => gateway[task[w].order] = "REFUNDED"
(* A purchase has no profile before its period; a renewal extends one. *)
Unbought(o) == ~Spent(o) /\ o \notin Renewal => profile[o] = "none"
Period_Inv ==
  Sober => \A o \in Order : gateway[o] # "REFUNDED" => Within(o) /\ Unbought(o)

(* A refund is not taken back. *)
LEMMA RefundsStep ==
  ASSUME PaymentTypes, RefundsKnown, [PaymentNext]_allVars
  PROVE  RefundsKnown'
<1> SUFFICES ASSUME NEW w \in Worker, Pending(w)', task'[w].type = "REFUNDED"
             PROVE  gateway'[task'[w].order] = "REFUNDED"
  BY DEF RefundsKnown
<1>1. CASE SameReport(w)
  <2>1. gateway[task[w].order] = "REFUNDED" /\ task[w].order \in Order
    BY <1>1 DEF RefundsKnown, SameReport, Pending, PaymentTypes, PaymentTypeOK
  <2> QED BY <1>1, <2>1, GatewayKeeps DEF SameReport
<1>2. ASSUME NEW o \in Order, NEW type \in EventType, Callback(w, o, type),
             task'[w] = Reading(o, "webhook", "reserve", type)
      PROVE  gateway'[task'[w].order] = "REFUNDED"
  BY <1>2 DEF Callback, Start, Reading, Sent
<1> QED BY <1>1, <1>2, ReportOrigin

(* What a step may do to the period of an order: nothing, or grant the one
   that its payment buys. *)
Buys(o) ==
  \/ grants'[o] = grants[o] /\ (Spent(o) => Spent(o)')
  \/ grants'[o] = grants[o] + 1 /\ ~Spent(o) /\ Spent(o)'

(* An order that a step does not touch keeps its period. *)
LEMMA PeriodUntouched ==
  ASSUME NEW o \in Order, Unbought(o), status'[o] = status[o], grants'[o] = grants[o],
         profile'[o] = profile[o], HoldersOf(o)' = HoldersOf(o),
         \A w \in HoldersOf(o) : worker[w].pc \in Granted <=> worker'[w].pc \in Granted
  PROVE  Buys(o) /\ Unbought(o)'
<1>1. Spent(o)' <=> Spent(o)
  BY DEF Spent
<1> QED BY <1>1 DEF Buys, Unbought

(* The one holder of an order tells whether its period is spent. *)
LEMMA SpentByHolder ==
  ASSUME NEW o \in Order, OneOwner(o), NEW w \in HoldersOf(o)
  PROVE  status[o] = "provisioning" /\ (Spent(o) <=> worker[w].pc \in Granted)
BY DEF OneOwner, Owned, Spent

(* complete_order grants a period at most once, and no other call's. *)
LEMMA WorkerBuys ==
  ASSUME TypeOK, Owner_Inv, Owner_Inv', Sober, faults' = faults, NEW w \in Worker, CompleteOrder(w),
         NEW o \in Order, Unbought(o)
  PROVE  Buys(o) /\ Unbought(o)'
<1> USE DEF At, WorkerPC, KeepOrder
<1>0. OneOwner(o) /\ OneOwner(o)' /\ worker[w].pc # "idle"
  BY DEF Owner_Inv, Prompt, Sober, CompleteOrder, ClaimOrder, PollWinner, ConsumePromo,
     ExtendRenewal, ReuseLinked, AddClient, SaveProfile, LinkProfile, DeliverOrder,
     AuditDelivery, AccrueReferral, RestorePromo, MarkFailed
<1>1. worker[w].order \in Order
  BY <1>0 DEF TypeOK
<1>2. PICK pc \in WorkerPC : Goto(w, pc)
  BY DEF CompleteOrder, ClaimOrder, PollWinner, ConsumePromo, ExtendRenewal, ReuseLinked,
     AddClient, SaveProfile, LinkProfile, DeliverOrder, AuditDelivery, AccrueReferral,
     RestorePromo, MarkFailed
<1>3. /\ worker'[w].pc = pc /\ worker'[w].order = worker[w].order
      /\ \A v \in Worker \ {w} : worker'[v] = worker[v]
  BY <1>2 DEF Goto, TypeOK, WorkerState
<1>4. CASE o # worker[w].order
  <2>1. HoldersOf(o)' = HoldersOf(o) /\ w \notin HoldersOf(o)
    BY <1>3, <1>4 DEF HoldersOf
  <2>2. status'[o] = status[o] /\ grants'[o] = grants[o] /\ profile'[o] = profile[o]
    BY <1>1, <1>4 DEF CompleteOrder, ClaimOrder, PollWinner, ConsumePromo, ExtendRenewal, ReuseLinked,
       AddClient, SaveProfile, LinkProfile, DeliverOrder, AuditDelivery, AccrueReferral,
       RestorePromo, MarkFailed, MoveTo, Deliver, Grant, TypeOK, history
  <2>3. \A v \in HoldersOf(o) : worker'[v] = worker[v]
    BY <1>3, <2>1 DEF HoldersOf
  <2> QED BY <2>1, <2>2, <2>3, PeriodUntouched
<1> SUFFICES ASSUME o = worker[w].order PROVE Buys(o) /\ Unbought(o)'
  BY <1>4
<1>5. /\ worker[w].pc \in Claimed => w \in HoldersOf(o)
      /\ pc \in Claimed => w \in HoldersOf(o)'
  BY <1>3 DEF HoldersOf
<1>6. /\ worker[w].pc \in Claimed => status[o] = "provisioning" /\ (Spent(o) <=> worker[w].pc \in Granted)
      /\ pc \in Claimed => (Spent(o)' <=> pc \in Granted)
  <2>1. ASSUME worker[w].pc \in Claimed
        PROVE  status[o] = "provisioning" /\ (Spent(o) <=> worker[w].pc \in Granted)
    BY <1>0, <1>5, <2>1, SpentByHolder
  <2>2. ASSUME pc \in Claimed PROVE Spent(o)' <=> pc \in Granted
    BY <1>0, <1>3, <1>5, <2>2 DEF OneOwner, Owned, Spent
  <2> QED BY <2>1, <2>2
<1>7. CASE ClaimOrder(w)
  <2>1. CASE CanMove(o, "provisioning", ClaimableFrom)
    <3>1. Goto(w, "promo") /\ status[o] \notin {"provisioning", "delivered"}
      BY <1>7, <2>1 DEF ClaimOrder, CanMove, ClaimableFrom
    <3>2. pc = "promo"
      BY <1>3, <3>1 DEF Goto, TypeOK, WorkerState
    <3>3. ~Spent(o)
      BY <1>0, <3>1 DEF OneOwner, Owned, Spent
    <3>4. ~Spent(o)'
      BY <1>6, <3>2 DEF Claimed, Granted
    <3> QED BY <1>7, <3>3, <3>4 DEF ClaimOrder, Buys, Unbought, history
  <2>2. CASE ~CanMove(o, "provisioning", ClaimableFrom)
    <3>1. Goto(w, "poll") /\ KeepOrder
      BY <1>7, <2>2 DEF ClaimOrder
    <3>2. pc = "poll"
      BY <1>3, <3>1 DEF Goto, TypeOK, WorkerState
    <3>3. HoldersOf(o)' = HoldersOf(o) /\ w \notin HoldersOf(o)
      BY <1>3, <1>7, <3>2 DEF HoldersOf, Claimed, ClaimOrder
    <3>4. \A v \in HoldersOf(o) : worker'[v] = worker[v]
      BY <1>3, <3>3 DEF HoldersOf
    <3> QED BY <1>7, <3>1, <3>3, <3>4, PeriodUntouched DEF ClaimOrder, history
  <2> QED BY <2>1, <2>2
<1>8. CASE PollWinner(w) \/ AuditDelivery(w) \/ AccrueReferral(w)
  <2>1. worker[w].pc \notin Claimed /\ pc \notin Claimed
    BY <1>3, <1>8 DEF PollWinner, AuditDelivery, AccrueReferral, Goto, Sober, TypeOK, WorkerState,
       Claimed
  <2>2. HoldersOf(o)' = HoldersOf(o) /\ w \notin HoldersOf(o)
    BY <1>3, <2>1 DEF HoldersOf
  <2>3. \A v \in HoldersOf(o) : worker'[v] = worker[v]
    BY <1>3, <2>2 DEF HoldersOf
  <2> QED BY <1>8, <2>2, <2>3, PeriodUntouched DEF PollWinner, AuditDelivery, AccrueReferral, history
<1>9. CASE ConsumePromo(w) \/ RestorePromo(w) \/ SaveProfile(w) \/ LinkProfile(w)
  <2>1. worker[w].pc \in Claimed /\ pc \in Claimed /\ (worker[w].pc \in Granted <=> pc \in Granted)
    BY <1>3, <1>9 DEF ConsumePromo, RestorePromo, SaveProfile, LinkProfile, Goto, TypeOK,
       WorkerState, Claimed, Granted
  <2>2. Spent(o)' <=> Spent(o)
    BY <1>6, <2>1
  <2>3. profile' = profile \/ worker[w].pc \in Granted
    BY <1>9 DEF ConsumePromo, RestorePromo, SaveProfile, LinkProfile, Granted
  <2>4. Unbought(o)'
    BY <1>6, <2>1, <2>2, <2>3 DEF Unbought
  <2> QED BY <1>9, <2>2, <2>4 DEF ConsumePromo, RestorePromo, SaveProfile, LinkProfile, Buys, history
<1>10. CASE ExtendRenewal(w) \/ ReuseLinked(w) \/ AddClient(w)
  <2>1. worker[w].pc = "provision" /\ pc \in Granted
    BY <1>3, <1>10 DEF ExtendRenewal, ReuseLinked, AddClient, Goto, TypeOK, WorkerState, Granted
  <2>2. ~Spent(o) /\ Spent(o)'
    BY <1>6, <2>1 DEF Claimed, Granted
  <2>3. grants'[o] = grants[o] + 1
    <3>1. grants' = [grants EXCEPT ![o] = @ + 1]
      BY <1>10, <2>2 DEF ExtendRenewal, ReuseLinked, AddClient, Unbought, Grant
    <3> QED BY <1>1, <3>1 DEF TypeOK
  <2> QED BY <2>2, <2>3 DEF Buys, Unbought
<1>11. CASE DeliverOrder(w)
  <2>1. status[o] = "provisioning"
    BY <1>6, <1>11 DEF DeliverOrder, Claimed
  <2>2. Deliver(o) /\ grants' = grants
    BY <1>11, <2>1 DEF DeliverOrder, CanMove, ORDER_TRANSITIONS, Status
  <2>3. Spent(o)'
    BY <2>2 DEF Deliver, MoveTo, TypeOK, Spent
  <2> QED BY <2>2, <2>3 DEF Buys, Unbought
<1>12. CASE MarkFailed(w)
  <2>1. ~Spent(o)
    BY <1>6, <1>12 DEF MarkFailed, Claimed, Granted
  <2> QED BY <1>12, <2>1 DEF MarkFailed, Buys, Unbought, history
<1> QED BY <1>7, <1>8, <1>9, <1>10, <1>11, <1>12 DEF CompleteOrder

(* No order is bought twice by any step but an administrator's. *)
LEMMA PeriodStep ==
  ASSUME PaymentTypes, Owner_Inv, Owner_Inv', Attended_Inv, RefundsKnown, Sober, [PaymentNext]_allVars,
         NEW o \in Order, gateway'[o] # "REFUNDED", Unbought(o),
         \A w \in Worker : task[w].order = o => ~RenewForCollision(w)
  PROVE  Buys(o) /\ Unbought(o)'
<1>0. TypeOK /\ TaskOK /\ Unhurried
  BY DEF PaymentTypes, PaymentTypeOK, TaskOK, Sober, Unhurried
<1>1. CASE UNCHANGED vars
  <2>1. HoldersOf(o)' = HoldersOf(o)
    BY <1>1 DEF vars, HoldersOf
  <2> QED BY <1>1, <2>1, PeriodUntouched DEF vars
<1>2. ASSUME NEW p \in Order, CancelOrder(p) PROVE Buys(o) /\ Unbought(o)'
  <2>1. HoldersOf(o)' = HoldersOf(o) /\ worker' = worker /\ profile' = profile /\ grants' = grants
    BY <1>2 DEF CancelOrder, HoldersOf, history
  <2>2. CASE p # o
    BY <1>0, <1>2, <2>1, <2>2, PeriodUntouched DEF CancelOrder, MoveTo, TypeOK
  <2>3. CASE p = o
    <3>1. status[o] \notin {"provisioning", "delivered"} /\ status'[o] # "delivered"
      BY <1>0, <1>2, <2>3 DEF CancelOrder, CanMove, MoveTo, ORDER_TRANSITIONS, Status, TypeOK
    <3>2. OneOwner(o)
      BY DEF Owner_Inv, Prompt, Sober
    <3>3. ~Spent(o) /\ ~Spent(o)'
      BY <2>1, <3>1, <3>2 DEF OneOwner, Owned, Spent
    <3> QED BY <2>1, <3>3 DEF Buys, Unbought
  <2> QED BY <2>2, <2>3
<1>3. CASE OrderStep
  <2>1. \/ \E w \in Worker : CompleteOrder(w)
        \/ \E p \in Order : CancelOrder(p)
    BY <1>0, <1>3, NoRecovery DEF OrderStep, ProvisioningError, Sober
  <2> QED BY <1>0, <1>2, <2>1, WorkerBuys, StaysReached
<1>4. ASSUME NEW w \in Worker, TaskStep(w), ~RenewForCollision(w) PROVE Buys(o) /\ Unbought(o)'
  <2>1. ~Dies(w)
    BY DEF Dies, Sober
  <2>2. CASE Return(w) \/ Calls(w)
    <3>1. HoldersOf(o)' = HoldersOf(o) /\ \A v \in HoldersOf(o) : worker'[v] = worker[v]
      BY <1>0, <2>2 DEF Return, Calls, BeginComplete, At, IdleWorker, HoldersOf, Claimed, TypeOK
    <3> QED BY <2>2, <3>1, PeriodUntouched DEF Return, Calls, BeginComplete, KeepOrder, history
  <2>3. ASSUME NEW p \in Order, WritesMeta(p) PROVE Buys(o) /\ Unbought(o)'
    <3>1. HoldersOf(o)' = HoldersOf(o) /\ worker' = worker
      BY <2>3 DEF WritesMeta, SaveMeta, HoldersOf
    <3> QED BY <2>3, <3>1, PeriodUntouched DEF WritesMeta, SaveMeta, history
  <2>4. ASSUME NEW p \in Order, RefundOrder(p) PROVE Buys(o) /\ Unbought(o)'
    <3>1. CASE p # o
      <4>1. HoldersOf(o)' = HoldersOf(o) /\ worker' = worker
        BY <2>4 DEF RefundOrder, HoldersOf
      <4> QED BY <1>0, <2>4, <3>1, <4>1, PeriodUntouched DEF RefundOrder, MoveTo, TypeOK, history
    <3>2. CASE p = o
      <4>1. status[o] = "delivered" /\ status'[o] = "cancelled"
        BY <1>0, <2>4, <3>2 DEF RefundOrder, CanMove, MoveTo, TypeOK
      <4>2. RefundDelivered(w) /\ task[w].order = o
        BY <1>0, <1>4, <4>1 DEF TaskStep, ReserveEvent, VerifyEvent, RefundDelivered, RecordCollision,
           NotifyCollision, NoteCollision, IgnoreEvent, FailEvent, ConfirmEvent, CancelEvent,
           CancelUnpaid, FinishEvent, TouchOrder, QueryGateway, CallFromTask, BeginComplete,
           ReturnToTask, Return, ResolveCollision, CrashTask, SaveMeta, KeepOrders, KeepOrder, vars,
           MoveTo, CanMove, TypeOK
      <4>3. gateway[o] = "REFUNDED"
        BY <4>2 DEF RefundDelivered, Doing, RefundsKnown, Pending
      <4> QED BY <4>3, GatewayKeeps
    <3> QED BY <3>1, <3>2
  <2>5. ASSUME NEW p \in Order, GivesPeriod(p) PROVE FALSE
    <3>1. grants' # grants
      BY <1>0, <2>5 DEF GivesPeriod, Grant, TypeOK
    <3>2. grants' = grants
      BY <1>4 DEF TaskStep, ReserveEvent, VerifyEvent, RefundDelivered, RecordCollision,
         NotifyCollision, NoteCollision, IgnoreEvent, FailEvent, ConfirmEvent, CancelEvent,
         CancelUnpaid, FinishEvent, TouchOrder, QueryGateway, CallFromTask, BeginComplete,
         ReturnToTask, Return, ResolveCollision, CrashTask, SaveMeta, KeepOrders, vars, history
    <3> QED BY <3>1, <3>2
  <2> QED BY <1>0, <1>1, <1>2, <1>4, <2>1, <2>2, <2>3, <2>4, <2>5, TaskView
<1>5. ASSUME NEW w \in Worker, RenewForCollision(w) PROVE Buys(o) /\ Unbought(o)'
  <2>1. task[w].order # o
    BY <1>5
  <2>2. grants'[o] = grants[o]
    BY <1>0, <1>5, <2>1 DEF RenewForCollision, Grant, TypeOK
  <2>3. HoldersOf(o)' = HoldersOf(o) /\ worker' = worker
    BY <1>5 DEF RenewForCollision, HoldersOf
  <2> QED BY <1>5, <2>2, <2>3, PeriodUntouched DEF RenewForCollision
<1>6. ASSUME NEW w \in Worker, Starts(w) PROVE UNCHANGED vars
  BY <1>6 DEF Starts, PollPage, Callback, CheckPayment, ConfirmManually, ActivateCollision,
     ExtendCollision, AcknowledgeRefund, Start, KeepOrders
<1>7. CASE \/ \E p \in Order : GatewayMoves(p)
           \/ \E e \in Event : EventAges(e)
           \/ UNCHANGED allVars
  BY <1>1, <1>7 DEF GatewayMoves, EventAges, allVars
<1> QED BY <1>1, <1>3, <1>4, <1>5, <1>6, <1>7, PaymentSteps

(* What a step may do to the periods that administrators grant: one more is
   granted, or one of them is given or given up. *)
LEMMA ExtendingStep ==
  ASSUME PaymentTypes, [PaymentNext]_allVars, NEW o \in Order
  PROVE  /\ \/ Extending(o)' \subseteq Extending(o) /\ byHand'[o] >= byHand[o]
            \/ \E w \in Worker \ Extending(o) :
                 /\ Extending(o)' = Extending(o) \cup {w} /\ byHand'[o] = byHand[o] + 1
                 /\ UNCHANGED vars
         /\ \A w \in Worker : RenewForCollision(w) /\ task[w].order = o =>
              /\ w \in Extending(o) /\ Extending(o)' = Extending(o) \ {w}
              /\ byHand'[o] = byHand[o]
<1>0. TypeOK /\ TaskOK /\ byHand \in [Order -> Nat]
  BY DEF PaymentTypes, PaymentTypeOK, TaskOK
<1>1. ASSUME NEW w \in Worker, TaskStep(w)
      PROVE  Extending(o)' = Extending(o) \ {w} /\ byHand' = byHand
  <2>1. task'[w].pc # "renew"
    BY <1>0, <1>1 DEF TaskOK, Task, TaskStep, ReserveEvent, VerifyEvent, RefundDelivered,
       RecordCollision, NotifyCollision, NoteCollision, IgnoreEvent, FailEvent, ConfirmEvent,
       CancelEvent, CancelUnpaid, FinishEvent, TouchOrder, QueryGateway, CallFromTask,
       ReturnToTask, RenewForCollision, ResolveCollision, CrashTask, Proceed, Conclude, EndTask,
       NoTask
  <2>2. \A v \in Worker \ {w} : task'[v] = task[v]
    BY <1>0, <1>1, OtherTasks
  <2>3. Extending(o)' = Extending(o) \ {w}
    BY <2>1, <2>2 DEF Extending, Doing
  <2>4. byHand' = byHand
    BY <1>1 DEF TaskStep, ReserveEvent, VerifyEvent, RefundDelivered, RecordCollision,
       NotifyCollision, NoteCollision, IgnoreEvent, FailEvent, ConfirmEvent, CancelEvent,
       CancelUnpaid, FinishEvent, TouchOrder, QueryGateway, CallFromTask, ReturnToTask,
       RenewForCollision, ResolveCollision, CrashTask
  <2> QED BY <2>3, <2>4
<1>2. ASSUME NEW w \in Worker, Starts(w)
      PROVE  \/ Extending(o)' \subseteq Extending(o) /\ byHand'[o] >= byHand[o]
             \/ /\ w \notin Extending(o)
                /\ Extending(o)' = Extending(o) \cup {w} /\ byHand'[o] = byHand[o] + 1
                /\ UNCHANGED vars
  <2>1. PICK p \in Order, kind \in TaskKind, pc \in TaskPC, type \in EventType :
             Start(w, Reading(p, kind, pc, type))
    BY <1>2 DEF Starts, PollPage, Callback, CheckPayment, ConfirmManually, ActivateCollision,
       ExtendCollision, AcknowledgeRefund, TaskKind, TaskPC, EventType
  <2>2. /\ task'[w] = Reading(p, kind, pc, type) /\ task[w].pc = "idle"
        /\ \A v \in Worker \ {w} : task'[v] = task[v]
    BY <1>0, <2>1 DEF Start, MayStart, TaskOK
  <2>3. UNCHANGED vars
    BY <2>1 DEF Start, KeepOrders
  <2>4. /\ byHand'[o] = byHand[o] + 1 \/ byHand'[o] = byHand[o]
        /\ o = p /\ kind = "extend" => byHand'[o] = byHand[o] + 1
    BY <2>1 DEF Start, Reading
  <2>5. w \notin Extending(o)
    BY <2>2 DEF Extending, Doing
  <2>6. CASE o = p /\ kind = "extend" /\ pc = "renew"
    <3>1. Extending(o)' = Extending(o) \cup {w}
      BY <2>2, <2>6 DEF Extending, Doing, Reading
    <3> QED BY <2>3, <2>4, <2>5, <2>6, <3>1
  <2>7. CASE ~(o = p /\ kind = "extend" /\ pc = "renew")
    <3>1. Extending(o)' \subseteq Extending(o)
      BY <2>2, <2>7 DEF Extending, Doing, Reading
    <3> QED BY <1>0, <2>4, <3>1
  <2> QED BY <2>6, <2>7
<1>3. ASSUME \/ \E p \in Order : GatewayMoves(p)
             \/ \E e \in Event : EventAges(e)
             \/ OrderStep \/ UNCHANGED allVars
      PROVE  Extending(o)' \subseteq Extending(o) /\ byHand'[o] >= byHand[o]
  <2>1. task' = task /\ byHand' = byHand
    BY <1>3 DEF GatewayMoves, EventAges, OrderStep, allVars, paymentVars
  <2> QED BY <1>0, <2>1 DEF Extending, Doing
<1>4. ASSUME NEW w \in Worker, RenewForCollision(w), task[w].order = o
      PROVE  /\ w \in Extending(o) /\ Extending(o)' = Extending(o) \ {w}
             /\ byHand'[o] = byHand[o]
  <2>1. w \in Extending(o)
    BY <1>4 DEF RenewForCollision, Extending, Doing
  <2> QED BY <1>1, <1>4, <2>1 DEF TaskStep
<1>5. ASSUME NEW w \in Worker, TaskStep(w)
      PROVE  Extending(o)' \subseteq Extending(o) /\ byHand'[o] >= byHand[o]
  BY <1>0, <1>1, <1>5
<1> QED BY <1>2, <1>3, <1>4, <1>5, PaymentSteps

(* Counting periods: what is granted by hand and not yet given, and what is
   given, stay within what is granted and what is bought. *)
LEMMA Budget ==
  ASSUME NEW U, IsFiniteSet(U), NEW g \in Nat, NEW b \in Nat, NEW s \in {0, 1},
         g + Cardinality(U) <= s + b
  PROVE  /\ \A V \in SUBSET U, c \in Nat, r \in {0, 1} :
              c >= b /\ r >= s => g + Cardinality(V) <= r + c
         /\ \A V \in SUBSET U, c \in Nat :
              c >= b /\ s = 0 => (g + 1) + Cardinality(V) <= 1 + c
         /\ \A w \in U : (g + 1) + Cardinality(U \ {w}) <= s + b
         /\ \A w : w \notin U => g + Cardinality(U \cup {w}) <= s + (b + 1)
<1>1. Cardinality(U) \in Nat
  BY FS_CardinalityType
<1>2. ASSUME NEW V \in SUBSET U PROVE Cardinality(V) \in Nat /\ Cardinality(V) <= Cardinality(U)
  BY FS_Subset, FS_CardinalityType
<1>3. ASSUME NEW w \in U PROVE (g + 1) + Cardinality(U \ {w}) <= s + b
  <2>1. Cardinality(U \ {w}) = Cardinality(U) - 1
    BY FS_RemoveElement
  <2> QED BY <1>1, <2>1
<1>4. ASSUME NEW w, w \notin U PROVE g + Cardinality(U \cup {w}) <= s + (b + 1)
  <2>1. Cardinality(U \cup {w}) = Cardinality(U) + 1
    BY <1>4, FS_AddElement
  <2> QED BY <1>1, <2>1
<1>5. ASSUME NEW V \in SUBSET U, NEW c \in Nat, NEW r \in {0, 1}, c >= b, r >= s
      PROVE  g + Cardinality(V) <= r + c
  BY <1>1, <1>2, <1>5
<1>6. ASSUME NEW V \in SUBSET U, NEW c \in Nat, c >= b, s = 0
      PROVE  (g + 1) + Cardinality(V) <= 1 + c
  BY <1>1, <1>2, <1>6
<1> QED BY <1>3, <1>4, <1>5, <1>6

(* Every step keeps the periods of an order within what was paid and granted. *)
LEMMA WithinStep ==
  ASSUME PaymentTypes, PaymentTypes', Owner_Inv, Owner_Inv', Attended_Inv, RefundsKnown, Sober,
         [PaymentNext]_allVars, NEW o \in Order, gateway'[o] # "REFUNDED", Unbought(o), Within(o)
  PROVE  Within(o)' /\ Unbought(o)'
<1>0. TypeOK /\ TaskOK /\ IsFiniteSet(Extending(o))
  <2>1. IsFiniteSet(Extending(o))
    BY OrderAssumption, FS_Subset DEF Extending
  <2> QED BY <2>1 DEF PaymentTypes, PaymentTypeOK, TaskOK
<1>1. PICK g \in Nat, b \in Nat : g = grants[o] /\ b = byHand[o]
  BY DEF PaymentTypes, PaymentTypeOK, TypeOK
<1>2. PICK h \in Nat, c \in Nat : h = grants'[o] /\ c = byHand'[o]
  BY DEF PaymentTypes, PaymentTypeOK, TypeOK
<1>3. PICK s \in {0, 1} : s = (IF Spent(o) THEN 1 ELSE 0)
  OBVIOUS
<1>4. PICK r \in {0, 1} : r = (IF Spent(o)' THEN 1 ELSE 0)
  OBVIOUS
<1>5. PICK U : U = Extending(o)
  OBVIOUS
<1>6. PICK V : V = Extending(o)'
  OBVIOUS
<1>7. IsFiniteSet(U) /\ g + Cardinality(U) <= s + b
  BY <1>0, <1>1, <1>3, <1>5 DEF Within
<1>8. h + Cardinality(V) <= r + c => Within(o)'
  BY <1>2, <1>4, <1>6 DEF Within
<1>9. ASSUME NEW w \in Worker, RenewForCollision(w), task[w].order = o
      PROVE  Within(o)' /\ Unbought(o)'
  <2>1. w \in U /\ V = U \ {w} /\ c = b
    BY <1>1, <1>2, <1>5, <1>6, <1>9, ExtendingStep
  <2>2. worker' = worker /\ status' = status /\ profile' = profile
    BY <1>9 DEF RenewForCollision
  <2>3. Spent(o)' <=> Spent(o)
    BY <2>2 DEF Spent, HoldersOf
  <2>4. h = g + 1 \/ h = g
    BY <1>0, <1>1, <1>2, <1>9 DEF RenewForCollision, Grant, TypeOK
  <2>5. s = r
    BY <1>3, <1>4, <2>3
  <2>6. h + Cardinality(V) <= r + c
    <3>1. (g + 1) + Cardinality(V) <= s + b
      BY <1>7, <2>1, Budget
    <3>2. g + Cardinality(V) <= s + b
      BY <1>7, <2>1, Budget
    <3> QED BY <2>1, <2>4, <2>5, <3>1, <3>2
  <2> QED BY <1>8, <2>2, <2>3, <2>6 DEF Unbought
<1>10. CASE \A w \in Worker : task[w].order = o => ~RenewForCollision(w)
  <2>1. Buys(o) /\ Unbought(o)'
    BY <1>10, PeriodStep
  <2>2. (h = g /\ r >= s) \/ (h = g + 1 /\ s = 0 /\ r = 1)
    BY <1>1, <1>2, <1>3, <1>4, <2>1 DEF Buys
  <2>3. CASE V \subseteq U /\ c >= b
    <3>1. ASSUME h = g, r >= s PROVE h + Cardinality(V) <= r + c
      BY <1>7, <2>3, <3>1, Budget
    <3>2. ASSUME h = g + 1, s = 0, r = 1 PROVE h + Cardinality(V) <= r + c
      BY <1>7, <2>3, <3>2, Budget
    <3> QED BY <1>8, <2>1, <2>2, <3>1, <3>2
  <2>4. ASSUME NEW w, w \notin U, V = U \cup {w}, c = b + 1, UNCHANGED vars
        PROVE  Within(o)' /\ Unbought(o)'
    <3>1. Spent(o)' <=> Spent(o)
      BY <2>4 DEF vars, Spent, HoldersOf
    <3>2. h = g /\ r = s
      BY <1>1, <1>2, <1>3, <1>4, <2>4, <3>1 DEF vars
    <3>3. g + Cardinality(V) <= s + c
      BY <1>7, <2>4, Budget
    <3> QED BY <1>8, <2>1, <3>2, <3>3
  <2> QED BY <1>1, <1>2, <1>5, <1>6, <2>3, <2>4, ExtendingStep
<1> QED BY <1>9, <1>10

(* One payment that is not refunded buys one period, for any number of orders,
   threads, callbacks and requests, as long as neither threads nor the panel
   fail; a further period takes an administrator. *)
THEOREM OnePaymentOnePeriod == PaymentSpec => []OnePeriodPerPayment
<1>1. PaymentInit => RefundsKnown /\ Period_Inv
  <2> SUFFICES ASSUME PaymentInit PROVE RefundsKnown /\ Period_Inv
    OBVIOUS
  <2>1. RefundsKnown
    BY DEF PaymentInit, RefundsKnown, Pending, NoTask
  <2>2. ASSUME NEW o \in Order PROVE Within(o) /\ Unbought(o)
    <3>1. Extending(o) = {}
      BY DEF PaymentInit, Extending, Doing, NoTask
    <3>2. ~Spent(o) /\ grants[o] = 0 /\ byHand[o] = 0
          /\ (o \notin Renewal => profile[o] = "none")
      BY OrderAssumption DEF PaymentInit, Init, Spent, HoldersOf, IdleWorker, Claimed
    <3> QED BY <3>1, <3>2, FS_EmptySet DEF Within, Unbought
  <2> QED BY <2>1, <2>2 DEF Period_Inv
<1>2. /\ PaymentTypes /\ PaymentTypes' /\ Owner_Inv /\ Owner_Inv' /\ Attended_Inv
      /\ RefundsKnown /\ Period_Inv /\ [PaymentNext]_allVars
      => (RefundsKnown /\ Period_Inv)'
  <2> SUFFICES ASSUME PaymentTypes, PaymentTypes', Owner_Inv, Owner_Inv', Attended_Inv,
                      RefundsKnown, Period_Inv, [PaymentNext]_allVars
               PROVE  RefundsKnown' /\ Period_Inv'
    OBVIOUS
  <2>1. Sober' <=> Sober
    BY StaysReached DEF Sober
  <2>2. ASSUME Sober, NEW o \in Order, gateway'[o] # "REFUNDED" PROVE Within(o)' /\ Unbought(o)'
    <3>1. gateway[o] # "REFUNDED"
      BY <2>2, GatewayKeeps
    <3> QED BY <2>2, <3>1, WithinStep DEF Period_Inv
  <2> QED BY <2>1, <2>2, RefundsStep DEF Period_Inv
<1>3. PaymentTypes /\ Period_Inv => OnePeriodPerPayment
  <2> SUFFICES ASSUME PaymentTypes, Period_Inv, Sober, NEW o \in Order, gateway[o] # "REFUNDED"
               PROVE  grants[o] <= 1 + byHand[o]
    BY DEF OnePeriodPerPayment, Sober
  <2>1. Within(o)
    BY DEF Period_Inv
  <2>2. Cardinality(Extending(o)) \in Nat
    BY OrderAssumption, FS_Subset, FS_CardinalityType DEF Extending
  <2>3. grants[o] \in Nat /\ byHand[o] \in Nat
    BY DEF PaymentTypes, PaymentTypeOK, TypeOK
  <2> QED BY <2>1, <2>2, <2>3 DEF Within
<1> QED BY <1>1, <1>2, <1>3, PaymentTypesAlways, PaymentOwners, PTL DEF PaymentSpec

---------------------------------------------------------------------------
(* A callback that was answered is handled. A call that is on its way to
   deliver the order, or has: *)
Underway(o) == HoldersOf(o) # {} \/ Delivered(o)
(* The handlers of the order's CONFIRMED callbacks that have reserved the event. *)
AtWork(o) ==
  {w \in Worker : /\ Pending(w) /\ task[w].type = "CONFIRMED"
                  /\ task[w].order = o /\ task[w].pc # "reserve"}

(* Only a payment that was confirmed is reported as confirmed, and a webhook
   neither asks Platega's status page nor resolves a collision. *)
ConfirmationsKnown ==
  \A w \in Worker : Pending(w) =>
    /\ task[w].type = "CONFIRMED" => gateway[task[w].order] \in {"CONFIRMED", "REFUNDED"}
    /\ task[w].pc \notin {"query", "resolve"}

(* What fails no more than its promo code: a call that has lost the claim, or
   has raised, leaves the order with one that is under way. *)
Underway_Inv ==
  /\ \A o \in Order : status[o] \in ClaimableFrom \cup {"provisioning", "delivered"}
  /\ \A w \in Worker : worker[w].order \notin PromoOrder =>
       /\ worker[w].pc \notin {"undo", "fail"}
       /\ worker[w].pc \in {"poll", "raised"} => Underway(worker[w].order)

(* What each CONFIRMED event has led to. *)
EventHandled(o) ==
  /\ \A w \in AtWork(o) : task[w].pc = "reject" => Underway(o) \/ gateway[o] = "REFUNDED"
  /\ event[<<o, "CONFIRMED">>] = "pending" => AtWork(o) # {}
  /\ <<o, "CONFIRMED">> \in answered =>
       Underway(o) \/ Alerted(o) \/ gateway[o] = "REFUNDED" \/ AtWork(o) # {}

Answered_Inv ==
  faults = {} => Underway_Inv /\ \A o \in Order \ PromoOrder : EventHandled(o)

(* What a handler reports stays reported. *)
LEMMA ConfirmationsStep ==
  ASSUME PaymentTypes, ConfirmationsKnown, [PaymentNext]_allVars PROVE ConfirmationsKnown'
<1> SUFFICES ASSUME NEW w \in Worker, Pending(w)'
             PROVE  /\ task'[w].type = "CONFIRMED" =>
                         gateway'[task'[w].order] \in {"CONFIRMED", "REFUNDED"}
                    /\ task'[w].pc \notin {"query", "resolve"}
  BY DEF ConfirmationsKnown
<1>0. TypeOK /\ TaskOK
  BY DEF PaymentTypes, PaymentTypeOK, TaskOK
<1>1. CASE SameReport(w)
  <2>1. task[w].order \in Order
    BY <1>0, <1>1 DEF SameReport, Pending, TaskOK
  <2>2. task'[w].type = "CONFIRMED" => gateway'[task'[w].order] \in {"CONFIRMED", "REFUNDED"}
    BY <1>1, <2>1, GatewayKeeps DEF ConfirmationsKnown, SameReport
  <2>3. CASE task'[w] = task[w]
    BY <1>1, <2>2, <2>3 DEF ConfirmationsKnown, SameReport
  <2>4. CASE TaskStep(w)
    <3>1. task[w].kind = "webhook" /\ task[w].pc \notin {"query", "resolve"}
      BY <1>1 DEF ConfirmationsKnown, SameReport, Pending
    <3>2. task'[w].pc \notin {"query", "resolve"}
      BY <1>0, <2>4, <3>1 DEF TaskOK, Task, TaskStep, ReserveEvent, VerifyEvent, RefundDelivered,
         RecordCollision, NotifyCollision, NoteCollision, IgnoreEvent, FailEvent, ConfirmEvent,
         CancelEvent, CancelUnpaid, FinishEvent, TouchOrder, QueryGateway, CallFromTask,
         ReturnToTask, RenewForCollision, ResolveCollision, CrashTask, Proceed, Conclude, EndTask,
         NoTask, Doing
    <3> QED BY <2>2, <3>2
  <2>5. CASE Starts(w)
    BY <1>1, <2>5 DEF SameReport, Pending, Starts, PollPage, Callback, CheckPayment, ConfirmManually,
       ActivateCollision, ExtendCollision, AcknowledgeRefund, Start, MayStart
  <2> QED BY <2>3, <2>4, <2>5, StaysOnOrder
<1>2. ASSUME NEW o \in Order, NEW type \in EventType, Callback(w, o, type),
             task'[w] = Reading(o, "webhook", "reserve", type)
      PROVE  /\ task'[w].type = "CONFIRMED" =>
                  gateway'[task'[w].order] \in {"CONFIRMED", "REFUNDED"}
             /\ task'[w].pc \notin {"query", "resolve"}
  BY <1>2 DEF Callback, Start, Reading, Sent
<1> QED BY <1>1, <1>2, ReportOrigin

(* As long as nothing fails, a call that has claimed an order delivers it. *)
LEMMA UnderwayStays ==
  ASSUME PaymentTypes, Owner_Inv, Underway_Inv, faults = {}, [PaymentNext]_allVars,
         NEW o \in Order \ PromoOrder, Underway(o)
  PROVE  Underway(o)'
<1>0. TypeOK /\ TaskOK /\ OneOwner(o)
  BY DEF PaymentTypes, PaymentTypeOK, TaskOK, Owner_Inv, Prompt
<1>1. CASE Delivered(o)
  BY <1>1, StaysReached DEF Underway
<1>2. ASSUME NEW w \in HoldersOf(o) PROVE Underway(o)'
  <2>1. w \in Worker /\ worker[w].order = o /\ worker[w].pc \in Claimed \ {"undo", "fail"}
    BY <1>2 DEF HoldersOf, Underway_Inv
  <2>2. CASE worker'[w] = worker[w]
    BY <2>1, <2>2 DEF HoldersOf, Underway
  <2>3. CASE Moves(w)
    <3>1. CASE DeliverOrder(w)
      <4>1. status[o] = "provisioning"
        BY <1>0, <1>2 DEF OneOwner, Owned
      <4>2. Deliver(o)
        BY <2>1, <3>1, <4>1 DEF DeliverOrder, CanMove, ORDER_TRANSITIONS, Status
      <4> QED BY <1>0, <4>2 DEF Deliver, Delivered, Underway, TypeOK
    <3>2. CASE ~DeliverOrder(w)
      <4>1. worker'[w].order = o /\ worker'[w].pc \in Claimed
        BY <1>0, <2>1, <2>3, <3>2 DEF At, Moves, Goto, TypeOK, WorkerState, CallComplete, BeginComplete,
           CompleteOrder, ClaimOrder, PollWinner, ConsumePromo, ExtendRenewal, ReuseLinked,
           AddClient, SaveProfile, LinkProfile, AuditDelivery, AccrueReferral, RestorePromo,
           MarkFailed, ProvisioningError, Return, Crash, Claimed
      <4> QED BY <2>1, <4>1 DEF HoldersOf, Underway
    <3> QED BY <3>1, <3>2
  <2>4. worker'[w] = worker[w] \/ Moves(w)
    <3>1. CASE [Next]_vars
      BY <1>0, <2>1, <3>1, OneMoves
    <3>2. ASSUME NEW v \in Worker, Dies(v) \/ Calls(v) PROVE worker'[w] = worker[w]
      BY <1>0, <2>1, <3>2 DEF Dies, Calls, BeginComplete, At, TypeOK, Claimed
    <3>3. ASSUME NEW p \in Order, WritesMeta(p) \/ GivesPeriod(p) PROVE worker' = worker
      BY <3>3 DEF WritesMeta, SaveMeta, GivesPeriod
    <3> QED BY <1>0, <3>1, <3>2, <3>3, OrderView
  <2> QED BY <2>2, <2>3, <2>4
<1> QED BY <1>1, <1>2 DEF Underway

(* An order is never left in a state that it cannot be completed from. *)
LEMMA StatusStep ==
  ASSUME PaymentTypes, [PaymentNext]_allVars,
         \A o \in Order : status[o] \in ClaimableFrom \cup {"provisioning", "delivered"}
  PROVE  \A o \in Order : status'[o] \in ClaimableFrom \cup {"provisioning", "delivered"}
<1>0. TypeOK /\ TaskOK
  BY DEF PaymentTypes, PaymentTypeOK, TaskOK
<1> SUFFICES ASSUME NEW o \in Order
             PROVE  status'[o] \in ClaimableFrom \cup {"provisioning", "delivered"}
  OBVIOUS
<1>1. ASSUME NEW p \in Order, NEW to \in {"provisioning", "delivered", "failed", "cancelled"},
             MoveTo(p, to)
      PROVE  status'[o] \in ClaimableFrom \cup {"provisioning", "delivered"}
  BY <1>0, <1>1 DEF MoveTo, TypeOK, ClaimableFrom
<1>2. \/ status' = status
      \/ \E p \in Order, to \in {"provisioning", "delivered", "failed", "cancelled"} : MoveTo(p, to)
      \/ \E c \in Canceller : ChatCancel(c)
  <2>1. ASSUME NEW w \in Worker, ClaimOrder(w) \/ DeliverOrder(w) \/ MarkFailed(w)
        PROVE  \/ status' = status
               \/ \E to \in {"provisioning", "delivered", "failed"} : MoveTo(worker[w].order, to)
    BY <2>1 DEF ClaimOrder, DeliverOrder, MarkFailed, Deliver, KeepOrder
  <2>2. ASSUME NEW w \in Worker, ClaimOrder(w) \/ DeliverOrder(w) \/ MarkFailed(w)
        PROVE  worker[w].order \in Order
    BY <1>0, <2>2 DEF ClaimOrder, DeliverOrder, MarkFailed, At, TypeOK
  <2>3. ASSUME NEW r \in Recoverer, RecoverSettle(r)
        PROVE  \/ status' = status
               \/ \E to \in {"delivered", "failed"} : MoveTo(recoverer[r].order, to)
    BY <2>3 DEF RecoverSettle, RecoverAdopt, RecoverRelease, Deliver, KeepOrder
  <2>4. ASSUME NEW r \in Recoverer, RecoverSettle(r) PROVE recoverer[r].order \in Order
    BY <1>0, <2>4 DEF RecoverSettle, RecoverAdopt, RecoverRelease, TypeOK
  <2>5. ASSUME NEW p \in Order, CancelOrder(p) \/ RefundOrder(p) PROVE MoveTo(p, "cancelled")
    BY <2>5 DEF CancelOrder, RefundOrder
  <2>6. CASE [Next]_vars
    <3>1. \/ status' = status
          \/ \E w \in Worker : ClaimOrder(w) \/ DeliverOrder(w) \/ MarkFailed(w)
          \/ \E r \in Recoverer : RecoverSettle(r)
          \/ \E p \in Order : CancelOrder(p) \/ RefundOrder(p)
          \/ \E c \in Canceller : ChatCancel(c)
      BY <2>6 DEF Next, vars, KeepOrder, CallComplete, BeginComplete, CompleteOrder, PollWinner,
         ConsumePromo, ExtendRenewal, ReuseLinked, AddClient, SaveProfile, LinkProfile,
         AuditDelivery, AccrueReferral, RestorePromo, ProvisioningError, Return, Crash,
         RecoverClaim, RecoverLookup, RecoverAbort, GrowStale, LatePayment, ChatSelect
    <3> QED BY <2>1, <2>2, <2>3, <2>4, <2>5, <3>1
  <2>7. ASSUME \/ \E w \in Worker : Dies(w) \/ Calls(w)
               \/ \E p \in Order : WritesMeta(p) \/ GivesPeriod(p)
        PROVE  status' = status
    BY <2>7 DEF Dies, KeepOrder, Calls, BeginComplete, WritesMeta, SaveMeta, GivesPeriod
  <2> QED BY <1>0, <2>6, <2>7, OrderView
<1>3. ASSUME NEW c \in Canceller, ChatCancel(c)
      PROVE  status'[o] \in ClaimableFrom \cup {"provisioning", "delivered"}
  BY <1>3 DEF ChatCancel, ClaimableFrom
<1> QED BY <1>1, <1>2, <1>3

(* A call that has lost its claim, or has raised, has lost it to a call that
   still holds the order or has delivered it. *)
LEMMA UnderwayStep ==
  ASSUME PaymentTypes, Handled_Inv, Owner_Inv, Attended_Inv, Underway_Inv, faults = {},
         [PaymentNext]_allVars
  PROVE  Underway_Inv'
<1>0. TypeOK /\ TaskOK /\ Prompt /\ Unhurried
  BY DEF PaymentTypes, PaymentTypeOK, TaskOK, Prompt, Unhurried
<1>1. \A o \in Order : status'[o] \in ClaimableFrom \cup {"provisioning", "delivered"}
  BY StatusStep DEF Underway_Inv
<1>2. ASSUME NEW w \in Worker, NEW o, o = worker'[w].order, o \notin PromoOrder
      PROVE  /\ worker'[w].pc \notin {"undo", "fail"}
             /\ worker'[w].pc \in {"poll", "raised"} => Underway(o)'
  <2>1. CASE worker'[w] = worker[w]
    <3>1. worker[w].pc \in {"poll", "raised"} => Underway(o) /\ o \in Order
      BY <1>0, <1>2, <2>1 DEF Underway_Inv, TypeOK
    <3>2. worker[w].pc \in {"poll", "raised"} => Underway(o)'
      BY <1>2, <2>1, <3>1, UnderwayStays
    <3> QED BY <1>2, <2>1, <3>2 DEF Underway_Inv
  <2>2. ASSUME CompleteOrder(w) \/ ProvisioningError(w),
               worker[w].pc # "idle", worker[w].order = o
        PROVE  /\ worker'[w].pc \notin {"undo", "fail"}
               /\ worker'[w].pc \in {"poll", "raised"} => Underway(o)'
    <3>0. o \in Order \ PromoOrder /\ OneOwner(o)
      BY <1>0, <1>2, <2>2 DEF TypeOK, Owner_Inv
    <3>1. CASE ClaimOrder(w)
      <4>1. CASE CanMove(o, "provisioning", ClaimableFrom)
        BY <1>0, <2>2, <3>1, <4>1 DEF ClaimOrder, Goto, TypeOK, WorkerState
      <4>2. CASE ~CanMove(o, "provisioning", ClaimableFrom)
        <5>1. status[o] \in {"provisioning", "delivered"}
          BY <3>0, <4>2 DEF CanMove, Underway_Inv, ORDER_TRANSITIONS, ClaimableFrom, Status
        <5>2. Underway(o)
          BY <1>0, <3>0, <5>1 DEF Underway, Attended_Inv, Handled_Inv, WorkHandled
        <5> QED BY <1>0, <2>2, <3>0, <3>1, <4>2, <5>2, UnderwayStays DEF ClaimOrder, Goto, TypeOK, WorkerState
      <4> QED BY <4>1, <4>2
    <3>2. CASE PollWinner(w)
      <4>1. Underway(o)
        BY <2>2, <3>0, <3>2 DEF PollWinner, At, Underway_Inv
      <4>2. worker'[w].pc \in {"ok", "raised"}
        BY <1>0, <3>2 DEF PollWinner, Goto, TypeOK, WorkerState
      <4> QED BY <3>0, <4>1, <4>2, UnderwayStays
    <3>3. CASE DeliverOrder(w)
      <4>1. w \in HoldersOf(o)
        BY <2>2, <3>3 DEF DeliverOrder, At, HoldersOf, Claimed
      <4>2. status[o] = "provisioning"
        BY <3>0, <4>1 DEF OneOwner, Owned
      <4>3. CanMove(o, "delivered", Status)
        BY <4>2 DEF CanMove, ORDER_TRANSITIONS, Status
      <4> QED BY <1>0, <2>2, <3>3, <4>3 DEF DeliverOrder, Goto, TypeOK, WorkerState
    <3>4. CASE RestorePromo(w) \/ MarkFailed(w) \/ ProvisioningError(w)
      BY <2>2, <3>0, <3>4 DEF RestorePromo, MarkFailed, ProvisioningError, At, Underway_Inv
    <3>5. CASE ConsumePromo(w) \/ ExtendRenewal(w) \/ ReuseLinked(w) \/ AddClient(w)
               \/ SaveProfile(w) \/ LinkProfile(w) \/ AuditDelivery(w) \/ AccrueReferral(w)
      BY <1>0, <2>2, <3>0, <3>5 DEF ConsumePromo, ExtendRenewal, ReuseLinked, AddClient,
         SaveProfile, LinkProfile, AuditDelivery, AccrueReferral, Goto, TypeOK, WorkerState
    <3> QED BY <2>2, <3>1, <3>2, <3>3, <3>4, <3>5 DEF CompleteOrder
  <2>3. CASE CompleteOrder(w) \/ ProvisioningError(w)
    <3>1. worker[w].pc # "idle" /\ worker'[w].order = worker[w].order
      BY <1>0, <2>3 DEF At, TypeOK, WorkerState, Goto, CompleteOrder, ClaimOrder, PollWinner,
         ConsumePromo, ExtendRenewal, ReuseLinked, AddClient, SaveProfile, LinkProfile,
         DeliverOrder, AuditDelivery, AccrueReferral, RestorePromo, MarkFailed, ProvisioningError
    <3> QED BY <1>2, <2>2, <2>3, <3>1
  <2>4. CASE Return(w) \/ Crash(w) \/ Calls(w) \/ Dies(w) \/ \E p \in Order : CallComplete(w, p)
    <3>1. worker'[w].pc \in {"idle", "ok", "claim"}
      BY <1>0, <2>4 DEF Return, Crash, Calls, Dies, CallComplete, BeginComplete, IdleWorker, TypeOK
    <3> QED BY <3>1
  <2>5. worker'[w] = worker[w] \/ Moves(w) \/ Calls(w) \/ Dies(w)
    <3>1. CASE [Next]_vars
      BY <1>0, <3>1, OneMoves
    <3>2. ASSUME NEW v \in Worker, Dies(v) \/ Calls(v)
          PROVE  worker'[w] = worker[w] \/ Calls(w) \/ Dies(w)
      BY <1>0, <3>2 DEF Dies, Calls, BeginComplete, TypeOK
    <3>3. ASSUME NEW p \in Order, WritesMeta(p) \/ GivesPeriod(p) PROVE worker' = worker
      BY <3>3 DEF WritesMeta, SaveMeta, GivesPeriod
    <3> QED BY <1>0, <3>1, <3>2, <3>3, OrderView
  <2> QED BY <2>1, <2>3, <2>4, <2>5 DEF Moves
<1> QED BY <1>1, <1>2 DEF Underway_Inv

(* A handler at work stays at work until it finishes the event. *)
LEMMA WorkGoesOn ==
  ASSUME PaymentTypes, ConfirmationsKnown, faults = {}, [PaymentNext]_allVars,
         NEW o \in Order, NEW w \in AtWork(o)
  PROVE  w \in AtWork(o)' \/ FinishEvent(w)
<1>0. /\ w \in Worker /\ TypeOK /\ TaskOK
      /\ task[w].kind = "webhook" /\ task[w].type = "CONFIRMED" /\ task[w].order = o
      /\ task[w].pc \notin {"idle", "reserve", "query", "resolve"}
  BY DEF PaymentTypes, PaymentTypeOK, TaskOK, AtWork, Pending, ConfirmationsKnown
<1>1. CASE task'[w] = task[w]
  BY <1>0, <1>1 DEF AtWork, Pending
<1>2. CASE Starts(w)
  BY <1>0, <1>2 DEF Starts, PollPage, Callback, CheckPayment, ConfirmManually, ActivateCollision,
     ExtendCollision, AcknowledgeRefund, Start, MayStart
<1>3. CASE TaskStep(w) /\ ~FinishEvent(w)
  <2>1. \/ \E pc \in TaskPC \ {"idle", "reserve"} : Proceed(w, pc) \/ Conclude(w, pc)
        \/ \E m \in Meta : task' = [task EXCEPT ![w].pc = "note", ![w].meta = m]
    <3>1. MetaOf(o) \in Meta
      BY DEF MetaOf, Meta
    <3> QED BY <1>0, <1>3, <3>1 DEF TaskPC, TaskStep, Doing, ReserveEvent, VerifyEvent,
         RefundDelivered, RecordCollision, NotifyCollision, NoteCollision, IgnoreEvent, FailEvent,
         ConfirmEvent, CancelEvent, CancelUnpaid, TouchOrder, QueryGateway, CallFromTask,
         ReturnToTask, RenewForCollision, ResolveCollision, CrashTask
  <2>2. task \in [Worker -> Task] /\ task[w] \in Task
    BY <1>0 DEF TaskOK
  <2>3. /\ task'[w].kind = "webhook" /\ task'[w].type = "CONFIRMED" /\ task'[w].order = o
        /\ task'[w].pc \notin {"idle", "reserve"}
    <3>1. ASSUME NEW pc \in TaskPC \ {"idle", "reserve"}, Proceed(w, pc) \/ Conclude(w, pc)
          PROVE  /\ task'[w].kind = task[w].kind /\ task'[w].type = task[w].type
                 /\ task'[w].order = task[w].order /\ task'[w].pc = pc
      BY <1>0, <2>2, <3>1 DEF Proceed, Conclude, Task
    <3>2. ASSUME NEW m, task' = [task EXCEPT ![w].pc = "note", ![w].meta = m]
          PROVE  /\ task'[w].kind = task[w].kind /\ task'[w].type = task[w].type
                 /\ task'[w].order = task[w].order /\ task'[w].pc = "note"
      BY <1>0, <2>2, <3>2 DEF Task
    <3> QED BY <1>0, <2>1, <3>1, <3>2
  <2> QED BY <1>0, <2>3 DEF AtWork, Pending
<1> QED BY <1>0, <1>1, <1>2, <1>3, StaysOnOrder

(* A CONFIRMED event that is answered, or rejected, is handled, or not for this
   handler to handle. *)
LEMMA EventHandledStep ==
  ASSUME PaymentTypes, Handled_Inv, Owner_Inv, Underway_Inv, ConfirmationsKnown, faults = {},
         [PaymentNext]_allVars, NEW o \in Order \ PromoOrder, EventHandled(o)
  PROVE  EventHandled(o)'
<1> DEFINE e == <<o, "CONFIRMED">>
           Settles == Underway(o)' \/ Alerted(o)' \/ gateway'[o] = "REFUNDED"
<1>0. TypeOK /\ TaskOK /\ e \in Event /\ event \in [Event -> {"none", "pending", "processed", "failed"}]
  BY DEF PaymentTypes, PaymentTypeOK, TaskOK, Event, EventType
<1>1. /\ Underway(o) => Underway(o)'
      /\ Delivered(o) => Underway(o)'
      /\ Alerted(o) => Alerted(o)'
      /\ gateway[o] = "REFUNDED" => gateway'[o] = "REFUNDED"
  BY UnderwayStays, StaysReached, GatewayKeeps DEF Underway
<1>2. ASSUME NEW w \in Worker, FinishEvent(w), task[w].order = o, task[w].type = "CONFIRMED"
      PROVE  Settles
  <2>1. CASE task[w].pc = "finish"
    <3>1. Delivered(o) \/ Alerted(o)
      BY <1>2, <2>1 DEF Handled_Inv, TaskHandled, FinishEvent
    <3> QED BY <1>1, <3>1
  <2>2. CASE task[w].pc = "reject"
    <3>1. w \in AtWork(o)
      BY <1>2, <2>2 DEF AtWork, Pending, FinishEvent
    <3> QED BY <1>1, <2>2, <3>1 DEF EventHandled
  <2> QED BY <1>2, <2>1, <2>2 DEF FinishEvent
<1>3. ASSUME NEW w \in AtWork(o)', task'[w].pc = "reject"
      PROVE  Underway(o)' \/ gateway'[o] = "REFUNDED"
  <2>1. w \in Worker /\ Pending(w)' /\ task'[w].order = o /\ task'[w].type = "CONFIRMED"
    BY <1>3 DEF AtWork
  <2>2. Pending(w) /\ task[w].order = o /\ task[w].type = "CONFIRMED"
    <3>1. ASSUME NEW p \in Order, NEW type \in EventType, task'[w] = Reading(p, "webhook", "reserve", type)
          PROVE  FALSE
      BY <1>3, <3>1 DEF Reading
    <3> QED BY <2>1, <3>1, ReportOrigin DEF SameReport
  <2>3. CASE task[w].pc = "reject"
    <3>1. w \in AtWork(o)
      BY <2>1, <2>2, <2>3 DEF AtWork
    <3> QED BY <1>1, <2>3, <3>1 DEF EventHandled
  <2>4. CASE task[w].pc # "reject"
    <3>1. TaskStep(w)
      <4>1. ~Starts(w)
        BY <2>2 DEF Pending, Starts, PollPage, Callback, CheckPayment, ConfirmManually,
           ActivateCollision, ExtendCollision, AcknowledgeRefund, Start, MayStart
      <4> QED BY <1>3, <2>1, <2>4, <4>1, StaysOnOrder
    <3>2. VerifyEvent(w) \/ ReturnToTask(w)
      BY <1>0, <1>3, <2>1, <2>2, <2>4, <3>1 DEF TaskOK, Task, TaskStep, Doing, ReserveEvent,
         RefundDelivered, RecordCollision, NotifyCollision, NoteCollision, IgnoreEvent, FailEvent,
         ConfirmEvent, CancelEvent, CancelUnpaid, FinishEvent, TouchOrder, QueryGateway,
         CallFromTask, RenewForCollision, ResolveCollision, CrashTask, Proceed, Conclude, EndTask,
         NoTask
    <3>3. CASE VerifyEvent(w)
      <4>1. gateway[o] # "CONFIRMED"
        BY <1>0, <1>3, <2>1, <2>2, <3>3 DEF VerifyEvent, Proceed, TaskOK, Task
      <4>2. gateway[o] = "REFUNDED"
        BY <2>1, <2>2, <4>1 DEF ConfirmationsKnown
      <4> QED BY <1>1, <4>2
    <3>4. CASE ReturnToTask(w)
      <4>1. ~At(w, "ok")
        BY <1>0, <1>3, <2>1, <2>2, <3>4 DEF ReturnToTask, Conclude, EndTask, NoTask, TaskOK, Task, Pending
      <4>2. worker[w].pc = "raised" /\ worker[w].order = o
        BY <2>1, <2>2, <3>4, <4>1 DEF ReturnToTask, Return, At, Handled_Inv, TaskHandled
      <4>3. Underway(o)
        BY <2>1, <4>2 DEF Underway_Inv
      <4> QED BY <1>1, <4>3
    <3> QED BY <3>2, <3>3, <3>4
  <2> QED BY <2>3, <2>4
<1>4. ASSUME event'[e] = "pending" PROVE AtWork(o)' # {}
  <2>1. CASE event[e] = "pending"
    <3>1. PICK w \in AtWork(o) : TRUE
      BY <2>1 DEF EventHandled
    <3>2. ~FinishEvent(w)
      BY <1>0, <1>4, <3>1 DEF FinishEvent, EventOf, AtWork
    <3> QED BY <3>1, <3>2, WorkGoesOn
  <2>2. CASE event[e] # "pending"
    <3>1. PICK w \in Worker : EventSteps(w)
      BY <1>4, <2>2, EventChanges
    <3>2. ReserveEvent(w) /\ EventOf(w) = e /\ Proceed(w, "verify")
      BY <1>0, <1>4, <2>2, <3>1 DEF EventSteps, ReserveEvent, FinishEvent
    <3>3. w \in AtWork(o)'
      BY <1>0, <3>2 DEF ReserveEvent, EventOf, Doing, Proceed, TaskOK, Task, AtWork, Pending
    <3> QED BY <3>3
  <2> QED BY <2>1, <2>2
<1>5. ASSUME NEW w \in AtWork(o) PROVE Settles \/ AtWork(o)' # {}
  <2>1. w \in Worker /\ task[w].order = o /\ task[w].type = "CONFIRMED"
    BY DEF AtWork
  <2> QED BY <1>2, <2>1, WorkGoesOn
<1>6. ASSUME e \in answered' PROVE Settles \/ AtWork(o)' # {}
  <2>1. CASE e \in answered
    <3>1. Underway(o) \/ Alerted(o) \/ gateway[o] = "REFUNDED" \/ AtWork(o) # {}
      BY <2>1 DEF EventHandled
    <3> QED BY <1>1, <1>5, <3>1
  <2>2. CASE e \notin answered
    <3>1. PICK w \in Worker : EventSteps(w)
      BY <1>6, <2>2, EventChanges
    <3>2. EventOf(w) = e
      BY <1>6, <2>2, <3>1 DEF EventSteps, ReserveEvent, FinishEvent
    <3>3. CASE FinishEvent(w)
      BY <1>2, <3>2, <3>3 DEF EventOf
    <3>4. CASE ReserveEvent(w)
      <4>1. event[e] \in {"processed", "pending"}
        BY <1>6, <2>2, <3>2, <3>4 DEF ReserveEvent
      <4>2. CASE event[e] = "processed"
        <5>1. Delivered(o) \/ Alerted(o)
          BY <4>2 DEF Handled_Inv, PaidIsHandled, Delivered
        <5> QED BY <1>1, <5>1
      <4>3. CASE event[e] = "pending"
        BY <1>5, <4>3 DEF EventHandled
      <4> QED BY <4>1, <4>2, <4>3
    <3> QED BY <3>1, <3>3, <3>4 DEF EventSteps
  <2> QED BY <2>1, <2>2
<1> QED BY <1>3, <1>4, <1>6 DEF EventHandled

(* When nothing fails, an order that is not bound to a promo code gets what its
   answered callback has reported: Platega need not repeat the callback of a
   payment that stays confirmed, however the callbacks, the queries and the
   clicks interleave. *)
THEOREM AnswerIsHandled == PaymentSpec => []AnsweredIsHandled
<1>1. PaymentInit => Answered_Inv /\ ConfirmationsKnown
  BY DEF PaymentInit, Init, Answered_Inv, ConfirmationsKnown, Underway_Inv, EventHandled, AtWork,
     Pending, NoTask, IdleWorker, Event, EventType, ClaimableFrom
<1>2. PaymentTypes /\ Handled_Inv /\ Owner_Inv /\ Attended_Inv /\ Answered_Inv
      /\ ConfirmationsKnown /\ [PaymentNext]_allVars => (Answered_Inv /\ ConfirmationsKnown)'
  <2> SUFFICES ASSUME PaymentTypes, Handled_Inv, Owner_Inv, Attended_Inv, Answered_Inv,
                      ConfirmationsKnown, [PaymentNext]_allVars
               PROVE  (Answered_Inv /\ ConfirmationsKnown)'
    OBVIOUS
  <2>1. ConfirmationsKnown' /\ faults' = faults
    BY ConfirmationsStep, StaysReached
  <2>2. ASSUME faults = {} PROVE Underway_Inv'
    BY <2>2, UnderwayStep DEF Answered_Inv
  <2>3. ASSUME faults = {}, NEW o \in Order \ PromoOrder PROVE EventHandled(o)'
    BY <2>3, EventHandledStep DEF Answered_Inv
  <2> QED BY <2>1, <2>2, <2>3 DEF Answered_Inv
<1>3. PaymentTypes /\ Answered_Inv => AnsweredIsHandled
  BY DEF Answered_Inv, EventHandled, Underway, AtWork, Pending, Delivered, AnsweredIsHandled,
     HoldersOf, Attending, Claimed
<1> QED BY <1>1, <1>2, <1>3, PaymentTypesAlways, HandledAlways, PaymentOwners, PTL DEF PaymentSpec
=============================================================================
