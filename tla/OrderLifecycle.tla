--------------------------- MODULE OrderLifecycle ---------------------------
(***************************************************************************)
(* The life of a shop order between the moment a payment is confirmed and  *)
(* the moment the order is closed: the order finite-state machine of       *)
(* store.py, the threads that run ShopBot.complete_order for it,           *)
(* the background recovery of orders stuck in `provisioning', and the      *)
(* cancellations that race with both.                                      *)
(*                                                                         *)
(* Every action is one database transaction (or one call to the x-ui       *)
(* panel) of the code: between two of them any other thread, process or    *)
(* node may run, and the process may die.                                  *)
(***************************************************************************)
EXTENDS Integers, FiniteSets

CONSTANTS
  Order,       \* orders, by public_id
  Renewal,     \* the orders of kind "renewal"; the others are purchases
  InlineRenewal, \* the renewals created by the subscription service
  PromoOrder,  \* the orders that carry the (one) promo code of the model
  Worker,      \* threads able to run complete_order, on any node
  Recoverer,   \* periodic-task threads able to run recover_stale_orders
  Canceller,   \* threads running a chat-wide cancel or expiry
  MaxUses,     \* max_uses of the promo code
  MaxAttempts, \* bound: calls of complete_order in a behaviour
  Environment, \* the combinations of faults a behaviour may be exposed to
  NoOrder      \* the order of a thread that has none

(* "crash": a thread dies between two steps (process kill, node loss, or a
            store error outside the try block of complete_order);
   "panel": the x-ui panel, x-ui.db or the store fails inside that block;
   "audit": record_admin_action fails after the order became delivered;
   "slow" : a thread is still alive 600 s after its last write;
   "chat" : the chat's orders are cancelled while others work on them;
   "telegram": an alert does not reach any administrator (PlategaPayments). *)
FaultKind == {"crash", "panel", "audit", "slow", "chat", "telegram"}

ASSUME OrderAssumption ==
  /\ NoOrder \notin Order
  /\ Renewal \subseteq Order
  /\ InlineRenewal \subseteq Renewal
  /\ PromoOrder \subseteq Order
  /\ IsFiniteSet(Order)
  /\ IsFiniteSet(Worker)
ASSUME BoundAssumption ==
  /\ MaxUses \in Nat
  /\ MaxAttempts \in Nat
  /\ Environment \subseteq SUBSET FaultKind

VARIABLES
  status,     \* orders.status
  stale,      \* orders.updated_at is more than 600 s old
  profile,    \* how far the order's subscription profile exists
  collided,   \* orders whose meta_json has platega_collision_type "cancelled"
  used,       \* promo_codes.used_count
  worker,     \* local state of each complete_order thread
  recoverer,  \* local state of each recover_stale_orders thread
  scan,       \* the orders a cancelling thread has selected
  faults,     \* what may go wrong in this behaviour; never changes
  accrued,    \* orders with a row in the referral ledger
  \* history: observed by the properties, read by no handler
  grants,     \* number of times the order's paid period was granted
  deliveries, \* number of times the order entered `delivered'
  redeemed,   \* number of deliveries of promo orders
  attempts    \* number of complete_order calls, for the bound

vars == <<status, stale, profile, collided, used, worker, recoverer, scan, accrued,
          faults, grants, deliveries, redeemed, attempts>>
history == <<grants, deliveries, redeemed>>

---------------------------------------------------------------------------
(* The finite-state machine of store.py *)

Status == {"waiting_payment", "auto_provision", "provisioning",
           "pending_provision", "failed", "delivered", "cancelled", "expired"}

ORDER_TRANSITIONS ==
  [s \in Status |->
     CASE s = "waiting_payment"   -> {"provisioning", "auto_provision",
                                      "pending_provision", "cancelled", "expired"}
       [] s = "auto_provision"    -> {"provisioning", "pending_provision",
                                      "failed", "cancelled"}
       [] s = "provisioning"      -> {"delivered", "failed", "waiting_payment",
                                      "pending_provision"}
       [] s = "pending_provision" -> {"provisioning", "delivered", "failed",
                                      "cancelled"}
       [] s = "failed"            -> {"provisioning", "delivered", "cancelled"}
       [] s = "delivered"         -> {"cancelled"}
       [] s = "cancelled"         -> {"provisioning"}
       [] s = "expired"           -> {}]

(* transition_order compares and swaps: it succeeds from the states that
   both the table and the caller's expected_from allow. *)
CanMove(o, to, expected) ==
  /\ status[o] \in expected
  /\ to \in ORDER_TRANSITIONS[status[o]]

(* A successful compare-and-swap also refreshes updated_at. *)
MoveTo(o, to) ==
  /\ status' = [status EXCEPT ![o] = to]
  /\ stale' = [stale EXCEPT ![o] = FALSE]

KeepOrder == UNCHANGED <<status, stale>>

---------------------------------------------------------------------------
(* Local states *)

ProfileStage == {"none", "client", "row", "linked"}

WorkerPC == {"idle", "claim", "poll", "promo", "provision", "client", "link",
             "deliver", "audit", "referral", "undo", "fail", "ok", "raised"}
WorkerState == [pc : WorkerPC, order : Order \cup {NoOrder},
                from_cancelled : BOOLEAN]
IdleWorker == [pc |-> "idle", order |-> NoOrder, from_cancelled |-> FALSE]

RecovererPC == {"idle", "lookup", "adopt", "release"}
RecovererState == [pc : RecovererPC, order : Order \cup {NoOrder}]
IdleRecoverer == [pc |-> "idle", order |-> NoOrder]

(* The control points at which complete_order has claimed its order and has
   not yet settled it. *)
Claimed == {"promo", "provision", "client", "link", "deliver", "undo", "fail"}
(* The control points at which promo_reserved is true for a promo order. *)
Reserved == {"provision", "client", "link", "deliver", "undo"}

HoldersOf(o) == {w \in Worker : worker[w].order = o /\ worker[w].pc \in Claimed}
PromoHolders ==
  {w \in Worker : worker[w].order \in PromoOrder /\ worker[w].pc \in Reserved}

At(w, pc) == worker[w].pc = pc
Goto(w, pc) == worker' = [worker EXCEPT ![w].pc = pc]
(* A definition whose name ends in _Something is a faulty variant of the one
   that follows it: no action uses it, and with it in place a property fails. *)
GiveBackPromo_NoFloor == used' = used - 1
(* used_count = MAX(0, used_count - 1) *)
GiveBackPromo == used' = IF used > 0 THEN used - 1 ELSE 0

---------------------------------------------------------------------------
(* The subscription service inserts its renewals with provisioned_profile_id
   already naming the profile they are to renew. *)
Init ==
  /\ status \in [Order -> {"waiting_payment", "auto_provision"}]
  /\ stale = [o \in Order |-> FALSE]
  /\ profile = [o \in Order |-> IF o \in InlineRenewal THEN "linked" ELSE "none"]
  /\ collided = {}
  /\ used = 0
  /\ worker = [w \in Worker |-> IdleWorker]
  /\ recoverer = [r \in Recoverer |-> IdleRecoverer]
  /\ scan = [c \in Canceller |-> {}]
  /\ accrued = {}
  /\ faults \in Environment
  /\ grants = [o \in Order |-> 0]
  /\ deliveries = [o \in Order |-> 0]
  /\ redeemed = 0
  /\ attempts = 0

---------------------------------------------------------------------------
(* complete_order *)

(* complete_order is called with a row of the order that its caller has read
   some time ago; nothing else of that row matters here. *)
BeginComplete(w, o, delivered, from_cancelled) ==
  /\ At(w, "idle")
  /\ attempts < MaxAttempts
  /\ attempts' = attempts + 1
  /\ worker' = [worker EXCEPT ![w] =
       [pc |-> IF delivered THEN "ok" ELSE "claim",
        order |-> o, from_cancelled |-> from_cancelled]]
  /\ KeepOrder
  /\ UNCHANGED <<profile, used, recoverer, scan, accrued, history, faults, collided>>

(* A caller (payment polling, administrator, automatic free delivery) reads the
   order and calls: the row may be out of date when the claim runs. *)
CallComplete(w, o) ==
  BeginComplete(w, o, status[o] = "delivered" /\ profile[o] = "linked",
                status[o] = "cancelled" \/ o \in collided)

ClaimableFrom == {"waiting_payment", "auto_provision", "failed", "cancelled"}

ClaimOrder_NotAtomic(w) ==
  LET o == worker[w].order IN
  /\ At(w, "claim")
  /\ MoveTo(o, "provisioning")
  /\ Goto(w, "promo")
  /\ UNCHANGED <<profile, used, recoverer, scan, accrued, history, attempts, faults, collided>>

(* The compare-and-swap into `provisioning' that lets one caller proceed. *)
ClaimOrder(w) ==
  LET o == worker[w].order IN
  /\ At(w, "claim")
  /\ \/ /\ CanMove(o, "provisioning", ClaimableFrom)
        /\ MoveTo(o, "provisioning")
        /\ Goto(w, "promo")
     \/ /\ ~CanMove(o, "provisioning", ClaimableFrom)
        /\ KeepOrder
        /\ Goto(w, "poll")
  /\ UNCHANGED <<profile, used, recoverer, scan, accrued, history, attempts, faults, collided>>

(* The loser of the claim polls for up to 5 s for the winner's delivery. *)
PollWinner(w) ==
  LET o == worker[w].order IN
  /\ At(w, "poll")
  /\ Goto(w, IF status[o] = "delivered" /\ profile[o] = "linked"
             THEN "ok" ELSE "raised")
  /\ KeepOrder
  /\ UNCHANGED <<profile, used, recoverer, scan, accrued, history, attempts, faults, collided>>

ConsumePromo_OffByOne(w) ==
  LET o == worker[w].order IN
  /\ At(w, "promo")
  /\ o \in PromoOrder => used <= MaxUses
  /\ used' = IF o \in PromoOrder THEN used + 1 ELSE used
  /\ Goto(w, "provision")
  /\ KeepOrder
  /\ UNCHANGED <<profile, recoverer, scan, accrued, history, attempts, faults, collided>>

ConsumePromo_UndoExhausted(w) ==
  LET o == worker[w].order IN
  /\ At(w, "promo")
  /\ used' = IF o \in PromoOrder /\ used < MaxUses THEN used + 1 ELSE used
  /\ Goto(w, IF o \in PromoOrder /\ used >= MaxUses THEN "undo" ELSE "provision")
  /\ KeepOrder
  /\ UNCHANGED <<profile, recoverer, scan, accrued, history, attempts, faults, collided>>

(* consume_promo_code: a guarded increment in a transaction of its own. *)
ConsumePromo(w) ==
  LET o == worker[w].order IN
  /\ At(w, "promo")
  /\ \/ /\ o \in PromoOrder /\ used < MaxUses
        /\ used' = used + 1
        /\ Goto(w, "provision")
     \/ /\ o \in PromoOrder /\ used >= MaxUses
        /\ Goto(w, "fail")
        /\ UNCHANGED used
     \/ /\ o \notin PromoOrder
        /\ Goto(w, "provision")
        /\ UNCHANGED used
  /\ KeepOrder
  /\ UNCHANGED <<profile, recoverer, scan, accrued, history, attempts, faults, collided>>

Grant(o) == grants' = [grants EXCEPT ![o] = @ + 1]

ExtendRenewal_OnlyUnlinked(w) ==
  LET o == worker[w].order IN
  /\ At(w, "provision") /\ o \in Renewal
  /\ IF profile[o] = "linked" THEN UNCHANGED grants ELSE Grant(o)
  /\ Goto(w, "link")
  /\ KeepOrder
  /\ UNCHANGED <<profile, used, recoverer, scan, accrued, deliveries,
                 redeemed, attempts, faults, collided>>

(* renew_profile for a renewal order: adds the paid period to whatever expiry
   it finds. *)
ExtendRenewal(w) ==
  LET o == worker[w].order IN
  /\ At(w, "provision") /\ o \in Renewal
  /\ Grant(o)
  /\ Goto(w, "link")
  /\ KeepOrder
  /\ UNCHANGED <<profile, used, recoverer, scan, accrued, deliveries,
                 redeemed, attempts, faults, collided>>

(* A purchase whose profile is already linked: renewed when the caller saw the
   order cancelled, otherwise handed out again as it is. *)
ReuseLinked(w) ==
  LET o == worker[w].order IN
  /\ At(w, "provision") /\ o \notin Renewal /\ profile[o] = "linked"
  /\ IF worker[w].from_cancelled THEN Grant(o) ELSE UNCHANGED grants
  /\ Goto(w, "deliver")
  /\ KeepOrder
  /\ UNCHANGED <<profile, used, recoverer, scan, accrued, deliveries,
                 redeemed, attempts, faults, collided>>

(* _provision_profile, x-ui half: the alias of the order makes it idempotent. *)
AddClient(w) ==
  LET o == worker[w].order IN
  /\ At(w, "provision") /\ o \notin Renewal /\ profile[o] # "linked"
  /\ IF profile[o] = "none"
     THEN Grant(o) /\ profile' = [profile EXCEPT ![o] = "client"]
     ELSE UNCHANGED <<grants, profile>>
  /\ Goto(w, "client")
  /\ KeepOrder
  /\ UNCHANGED <<used, recoverer, scan, accrued, deliveries, redeemed, attempts, faults, collided>>

(* _provision_profile, store half: reuses the row of that alias if any. *)
SaveProfile(w) ==
  LET o == worker[w].order IN
  /\ At(w, "client")
  /\ profile' = [profile EXCEPT ![o] = IF @ = "linked" THEN @ ELSE "row"]
  /\ Goto(w, "link")
  /\ KeepOrder
  /\ UNCHANGED <<used, recoverer, scan, accrued, history, attempts, faults, collided>>

(* link_order_profile: sets provisioned_profile_id, whatever the status. *)
LinkProfile(w) ==
  LET o == worker[w].order IN
  /\ At(w, "link")
  /\ profile' = [profile EXCEPT ![o] = "linked"]
  /\ stale' = [stale EXCEPT ![o] = FALSE]
  /\ Goto(w, "deliver")
  /\ UNCHANGED <<status, used, recoverer, scan, accrued, history, attempts, faults, collided>>

Deliver(o) ==
  /\ MoveTo(o, "delivered")
  /\ deliveries' = [deliveries EXCEPT ![o] = @ + 1]
  /\ redeemed' = IF o \in PromoOrder THEN redeemed + 1 ELSE redeemed

(* update_order_status(delivered) names no expected_from. *)
DeliverOrder(w) ==
  LET o == worker[w].order IN
  /\ At(w, "deliver")
  /\ \/ /\ CanMove(o, "delivered", Status)
        /\ Deliver(o)
        /\ Goto(w, "audit")
     \/ /\ ~CanMove(o, "delivered", Status)
        /\ KeepOrder
        /\ Goto(w, "undo")
        /\ UNCHANGED <<deliveries, redeemed>>
  /\ UNCHANGED <<profile, used, recoverer, scan, accrued, grants, attempts, faults, collided>>

AuditDelivery_NoReferral(w) ==
  /\ At(w, "audit")
  /\ Goto(w, "ok")
  /\ KeepOrder
  /\ UNCHANGED <<profile, used, recoverer, scan, accrued, history, attempts, faults, collided>>

(* record_admin_action, still inside the try block of the delivery. *)
AuditDelivery(w) ==
  /\ At(w, "audit")
  /\ \/ Goto(w, "referral")
     \/ "audit" \in faults /\ Goto(w, "undo")
  /\ KeepOrder
  /\ UNCHANGED <<profile, used, recoverer, scan, accrued, history, attempts, faults, collided>>

(* create_referral_ledger_for_order; one row per order. *)
AccrueReferral(w) ==
  /\ At(w, "referral")
  /\ accrued' = accrued \cup {worker[w].order}
  /\ Goto(w, "ok")
  /\ KeepOrder
  /\ UNCHANGED <<profile, used, recoverer, scan, history, attempts, faults, collided>>

(* An exception while provisioning enters the except block. *)
ProvisioningError(w) ==
  /\ "panel" \in faults
  /\ worker[w].pc \in {"provision", "client", "link", "deliver"}
  /\ Goto(w, "undo")
  /\ KeepOrder
  /\ UNCHANGED <<profile, used, recoverer, scan, accrued, history, attempts, faults, collided>>

(* except block, first statement: restore_promo_code. *)
RestorePromo(w) ==
  /\ At(w, "undo")
  /\ IF worker[w].order \in PromoOrder THEN GiveBackPromo ELSE UNCHANGED used
  /\ Goto(w, "fail")
  /\ KeepOrder
  /\ UNCHANGED <<profile, recoverer, scan, accrued, history, attempts, faults, collided>>

(* except block, second statement: provisioning -> failed, errors swallowed. *)
MarkFailed(w) ==
  LET o == worker[w].order IN
  /\ At(w, "fail")
  /\ IF CanMove(o, "failed", {"provisioning"})
     THEN MoveTo(o, "failed") ELSE KeepOrder
  /\ Goto(w, "raised")
  /\ UNCHANGED <<profile, used, recoverer, scan, accrued, history, attempts, faults, collided>>

(* The call returns or raises to its caller. *)
Return(w) ==
  /\ worker[w].pc \in {"ok", "raised"}
  /\ worker' = [worker EXCEPT ![w] = IdleWorker]
  /\ KeepOrder
  /\ UNCHANGED <<profile, used, recoverer, scan, accrued, history, attempts, faults, collided>>

Crash(w) ==
  /\ "crash" \in faults
  /\ ~At(w, "idle")
  /\ worker' = [worker EXCEPT ![w] = IdleWorker]
  /\ KeepOrder
  /\ UNCHANGED <<profile, used, recoverer, scan, accrued, history, attempts, faults, collided>>

CompleteOrder(w) ==
  \/ ClaimOrder(w) \/ PollWinner(w) \/ ConsumePromo(w)
  \/ ExtendRenewal(w) \/ ReuseLinked(w) \/ AddClient(w) \/ SaveProfile(w)
  \/ LinkProfile(w) \/ DeliverOrder(w) \/ AuditDelivery(w)
  \/ AccrueReferral(w) \/ RestorePromo(w) \/ MarkFailed(w)

---------------------------------------------------------------------------
(* recover_stale_orders *)

Attended(o) ==
  \/ \E w \in Worker : worker[w].order = o /\ worker[w].pc \in Claimed
  \/ \E r \in Recoverer : recoverer[r].order = o

(* 600 s pass without a write to the order. Without "slow" no live thread
   takes that long between two writes. *)
GrowStale(o) ==
  /\ status[o] = "provisioning" /\ ~stale[o]
  /\ "slow" \in faults \/ ~Attended(o)
  /\ stale' = [stale EXCEPT ![o] = TRUE]
  /\ UNCHANGED <<status, profile, used, worker, recoverer, scan, accrued,
                 history, attempts, faults, collided>>

RecoverClaim_NotStale(r, o) ==
  /\ recoverer[r].pc = "idle"
  /\ status[o] = "provisioning"
  /\ stale' = [stale EXCEPT ![o] = FALSE]
  /\ recoverer' = [recoverer EXCEPT ![r] = [pc |-> "lookup", order |-> o]]
  /\ UNCHANGED <<status, profile, used, worker, scan, accrued, history, attempts, faults, collided>>

(* The compare-and-swap on updated_at: it succeeds only when nothing wrote to
   the order since the list of stale orders was read. *)
RecoverClaim(r, o) ==
  /\ recoverer[r].pc = "idle"
  /\ status[o] = "provisioning" /\ stale[o]
  /\ stale' = [stale EXCEPT ![o] = FALSE]
  /\ recoverer' = [recoverer EXCEPT ![r] = [pc |-> "lookup", order |-> o]]
  /\ UNCHANGED <<status, profile, used, worker, scan, accrued, history, attempts, faults, collided>>

(* Looks for the linked profile, then for a profile row or an x-ui client with
   the order's alias; a client without a row gets one. An inline renewal is
   found linked even when its thread died before the period was added. *)
RecoverLookup(r) ==
  LET o == recoverer[r].order IN
  /\ recoverer[r].pc = "lookup"
  /\ recoverer' = [recoverer EXCEPT ![r].pc =
                     IF profile[o] = "none" THEN "release" ELSE "adopt"]
  /\ profile' = [profile EXCEPT ![o] = IF @ = "client" THEN "row" ELSE @]
  /\ KeepOrder
  /\ UNCHANGED <<used, worker, scan, accrued, history, attempts, faults, collided>>

RecoverableFrom_AutoOnly == {"auto_provision"}
RecoverableFrom == {"provisioning", "auto_provision"}

RecoverAdopt_NotLinked(r) ==
  LET o == recoverer[r].order IN
  /\ recoverer[r].pc = "adopt"
  /\ IF CanMove(o, "delivered", RecoverableFrom)
     THEN Deliver(o)
     ELSE KeepOrder /\ UNCHANGED <<deliveries, redeemed>>
  /\ recoverer' = [recoverer EXCEPT ![r] = IdleRecoverer]
  /\ UNCHANGED <<profile, used, worker, scan, accrued, grants, attempts, faults, collided>>

(* finalize_order_delivered: one transaction, rolled back when the order has
   left `provisioning'. *)
RecoverAdopt(r) ==
  LET o == recoverer[r].order IN
  /\ recoverer[r].pc = "adopt"
  /\ IF CanMove(o, "delivered", RecoverableFrom)
     THEN /\ Deliver(o)
          /\ profile' = [profile EXCEPT ![o] = "linked"]
     ELSE KeepOrder /\ UNCHANGED <<profile, deliveries, redeemed>>
  /\ recoverer' = [recoverer EXCEPT ![r] = IdleRecoverer]
  /\ UNCHANGED <<used, worker, scan, accrued, grants, attempts, faults, collided>>

(* fail_order_provisioning(release_reservations=True): one transaction. *)
RecoverRelease(r) ==
  LET o == recoverer[r].order IN
  /\ recoverer[r].pc = "release"
  /\ IF CanMove(o, "failed", RecoverableFrom)
     THEN /\ MoveTo(o, "failed")
          /\ IF o \in PromoOrder THEN GiveBackPromo ELSE UNCHANGED used
     ELSE KeepOrder /\ UNCHANGED used
  /\ recoverer' = [recoverer EXCEPT ![r] = IdleRecoverer]
  /\ UNCHANGED <<profile, worker, scan, accrued, history, attempts, faults, collided>>

(* The thread dies, or an exception leaves the order for the next round. *)
RecoverAbort(r) ==
  /\ faults \cap {"crash", "panel"} # {}
  /\ recoverer[r].pc # "idle"
  /\ recoverer' = [recoverer EXCEPT ![r] = IdleRecoverer]
  /\ KeepOrder
  /\ UNCHANGED <<profile, used, worker, scan, accrued, history, attempts, faults, collided>>

RecoverSettle(r) == RecoverAdopt(r) \/ RecoverRelease(r)

---------------------------------------------------------------------------
(* Cancellation *)

(* update_order_status(cancelled) by an administrator, the customer's web page
   or a CANCELED payment: transition_order refuses it for a delivered order. *)
CancelOrder(o) ==
  /\ CanMove(o, "cancelled", Status \ {"delivered"})
  /\ MoveTo(o, "cancelled")
  /\ UNCHANGED <<profile, used, worker, recoverer, scan, accrued, history, attempts, faults, collided>>

(* A refund actor may cancel a delivered order. *)
RefundOrder(o) ==
  /\ CanMove(o, "cancelled", {"delivered"})
  /\ MoveTo(o, "cancelled")
  /\ UNCHANGED <<profile, used, worker, recoverer, scan, accrued, history, attempts, faults, collided>>

(* A CONFIRMED payment for an order that is already closed is only noted, for
   an administrator to resolve; the note is never erased afterwards. *)
LatePayment(o) ==
  /\ status[o] \in {"cancelled", "delivered"}
  /\ collided' = IF status[o] = "cancelled" THEN collided \cup {o} ELSE collided \ {o}
  /\ KeepOrder
  /\ UNCHANGED <<profile, used, worker, recoverer, scan, accrued, history,
                 attempts, faults>>

(* cancel_open_orders_for_chat and expire_waiting_payment_orders_for_chat, the
   SELECT: all waiting orders of the chat, or the old enough ones. *)
ChatSelect(c) ==
  /\ "chat" \in faults
  /\ scan[c] = {}
  /\ \E S \in SUBSET {o \in Order : status[o] = "waiting_payment"} :
       S # {} /\ scan' = [scan EXCEPT ![c] = S]
  /\ KeepOrder
  /\ UNCHANGED <<profile, used, worker, recoverer, accrued, history, attempts, faults, collided>>

(* ... and the UPDATE, in a later transaction, with no condition on status. *)
ChatCancel(c) ==
  /\ scan[c] # {}
  /\ status' = [o \in Order |-> IF o \in scan[c] THEN "cancelled" ELSE status[o]]
  /\ stale' = [o \in Order |-> IF o \in scan[c] THEN FALSE ELSE stale[o]]
  /\ scan' = [scan EXCEPT ![c] = {}]
  /\ UNCHANGED <<profile, used, worker, recoverer, accrued, history, attempts, faults, collided>>

---------------------------------------------------------------------------
Next ==
  \/ \E w \in Worker :
       \/ \E o \in Order : CallComplete(w, o)
       \/ CompleteOrder(w)
       \/ ProvisioningError(w)
       \/ Return(w)
       \/ Crash(w)
  \/ \E r \in Recoverer :
       \/ \E o \in Order : RecoverClaim(r, o)
       \/ RecoverLookup(r)
       \/ RecoverSettle(r)
       \/ RecoverAbort(r)
  \/ \E o \in Order : GrowStale(o) \/ CancelOrder(o) \/ RefundOrder(o) \/ LatePayment(o)
  \/ \E c \in Canceller : ChatSelect(c) \/ ChatCancel(c)

Spec == Init /\ [][Next]_vars

(* Threads keep running, time passes, the periodic loop keeps calling the
   recovery, and the recovery is not killed at the same point for ever. *)
Fairness ==
  /\ \A w \in Worker : WF_vars(CompleteOrder(w)) /\ WF_vars(Return(w))
  /\ \A o \in Order : WF_vars(GrowStale(o))
  /\ \A o \in Order : SF_vars(\E r \in Recoverer : RecoverClaim(r, o))
  /\ \A r \in Recoverer : SF_vars(RecoverLookup(r)) /\ SF_vars(RecoverSettle(r))

FairSpec == Spec /\ Fairness

---------------------------------------------------------------------------
(* Properties *)

TypeOK ==
  /\ status \in [Order -> Status]
  /\ stale \in [Order -> BOOLEAN]
  /\ profile \in [Order -> ProfileStage]
  /\ collided \subseteq Order
  /\ used \in Nat
  /\ worker \in [Worker -> WorkerState]
  /\ \A w \in Worker : worker[w].pc # "idle" => worker[w].order \in Order
  /\ recoverer \in [Recoverer -> RecovererState]
  /\ \A r \in Recoverer : recoverer[r].pc # "idle" => recoverer[r].order \in Order
  /\ scan \in [Canceller -> SUBSET Order]
  /\ accrued \subseteq Order
  /\ faults \in Environment
  /\ grants \in [Order -> Nat]
  /\ deliveries \in [Order -> Nat]
  /\ redeemed \in Nat
  /\ attempts \in Nat

(* Whatever fails and however complete_order, the recovery and cancellations
   interleave: an order is `delivered' only with its profile linked, so the
   customer's page has something to show, and its paid period granted. The
   period is not promised to an inline renewal once a thread dies or stalls:
   it is linked from the start, and the recovery takes that for the proof that
   it was provisioned (RecoveredIsProvisioned). *)
DeliveredIsServed ==
  \A o \in Order : status[o] = "delivered" =>
    /\ profile[o] = "linked"
    /\ grants[o] >= 1 \/ (o \in InlineRenewal /\ faults \cap {"crash", "slow"} # {})

(* store.py:893, finalize_order_delivered: "Phase 3: provisioning succeeded -
   mark delivered + close confirmation". An order is marked delivered only
   when the period it was paid for has been provisioned, also by the recovery. *)
RecoveredIsProvisioned ==
  \A o \in Order : status[o] = "delivered" => grants[o] >= 1

(* No thread dies or stalls and no audit write fails. *)
Calm == faults \subseteq {"panel", "chat"}

(* used_count of the promo code is exactly the deliveries that used it plus
   the uses reserved by running calls, in spite of failed provisionings, lost
   claims and chat-wide cancellations (each of the consume and restore calls
   is a transaction of its own). *)
PromoExact == Calm => used = redeemed + Cardinality(PromoHolders)

(* The counter is a promo ledger whose reservations are the calls between
   their consume and their restore or delivery: no use is ever redeemed
   without a reservation, released twice, or reserved beyond max_uses. Like
   PromoExact this is claimed while no thread dies or stalls and no audit
   write fails; any other behaviour is mapped to a ledger nobody uses. *)
Ledger == INSTANCE PromoLedger
            WITH Holder <- Worker,
                 reserved <- IF Calm THEN PromoHolders ELSE {},
                 redeemed <- IF Calm THEN redeemed ELSE 0
LedgerSpec == Ledger!Spec

(* At most one actor, complete_order call or recovery, settles an order at a
   time, and only while the order is `provisioning': the two
   compare-and-swaps of store.py and bot.py divide the work even when threads
   die half way. *)
Attending(o) == HoldersOf(o) \cup {r \in Recoverer : recoverer[r].order = o}
ExclusiveOwner ==
  faults \subseteq {"crash", "panel"} =>
    \A o \in Order :
      /\ Attending(o) # {} => status[o] = "provisioning"
      /\ \A a, b \in Attending(o) : a = b

(* Every delivery of a renewal gave the customer a period: no delivery is
   recorded for a period that was not added to the profile's expiry. *)
RenewalPaidFor ==
  faults \subseteq {"panel", "audit", "chat"} =>
    \A o \in Renewal : deliveries[o] <= grants[o]

(* A delivered order has its referral commission, or the call that delivered
   it is about to write it. *)
DeliveredIsAccrued ==
  faults \subseteq {"panel", "chat"} =>
    \A o \in Order : status[o] = "delivered" =>
      \/ o \in accrued
      \/ \E w \in Worker : worker[w].order = o /\ worker[w].pc \in {"audit", "referral"}

(* No order stays in `provisioning' for ever: the call that claimed it settles
   it, or it becomes stale and the recovery does. *)
ProvisioningSettles ==
  \A o \in Order : (status[o] = "provisioning") ~> (status[o] # "provisioning")

(* store.py:1766-1767, "at-least-once semantics with exactly-once side effects
   guaranteed by the order FSM": however often complete_order is retried, the
   period of a renewal is added at most once per delivery, plus once for the
   delivery under way. *)
RenewedOnce ==
  \A o \in Renewal : grants[o] <= deliveries[o] + 1
=============================================================================
