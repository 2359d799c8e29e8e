--------------------------- MODULE DigisellerSales ---------------------------
(***************************************************************************)
(* One invoice of the Digiseller marketplace: its sale and refund          *)
(* notifications (WebCheckout.handle_digiseller_callback), the order it    *)
(* becomes, and the periodic ShopBot.reconcile_digiseller_orders.          *)
(* Notifications repeat, overtake each other and run concurrently.         *)
(*                                                                         *)
(* complete_order, which OrderLifecycle has in full, is here its claim of  *)
(* the order, the profile and the delivery.                                *)
(***************************************************************************)
EXTENDS Integers, FiniteSets

CONSTANTS
  SaleCall,    \* sale notifications delivered to the callback
  RefundCall,  \* refund notifications
  MaxCrashes   \* bound on processes killed inside a handler

ASSUME DigisellerAssumption ==
  /\ IsFiniteSet(SaleCall) /\ IsFiniteSet(RefundCall)
  /\ SaleCall \cap RefundCall = {}
  /\ MaxCrashes \in Nat

VARIABLES
  invoice,     \* what Digiseller knows: "paid" (3), then perhaps "refunded" (5)
  call,        \* call[c]: the step handler c is at
  hook,        \* hook[type]: webhook_events.status of the event and its age
  tombstone,   \* has the refund left its tombstone
  sale,        \* status of the invoice's order
  access,      \* can the buyer connect
  code,        \* has the unique code been answered with the link
  refundOk,    \* was a refund carried out and answered `refund_processed'
  slips,       \* what went past the refund: a sale was "raced", being past its
               \* check when the tombstone was written; the access was left "unrevoked"
  deliveries,  \* times the order became delivered
  kills

digiVars == <<invoice, call, hook, tombstone, sale, access, code, refundOk,
              slips, deliveries, kills>>

Call == SaleCall \cup RefundCall
CallStep ==
  {"idle", "reserve", "check", "verify", "order", "claim", "provision", "deliver", "code",
   "cancel", "revoke", "ok", "fail", "end"}
HookStatus == {"none", "pending", "stale", "processed", "failed"}

DigiTypeOK ==
  /\ invoice \in {"paid", "refunded"}
  /\ call \in [Call -> CallStep]
  /\ hook \in [{"sale", "refund"} -> HookStatus]
  /\ tombstone \in BOOLEAN
  /\ sale \in {"none", "waiting_payment", "provisioning", "failed", "delivered", "cancelled"}
  /\ access \in BOOLEAN
  /\ code \in BOOLEAN
  /\ refundOk \in BOOLEAN
  /\ slips \subseteq {"raced", "unrevoked"}
  /\ deliveries \in 0..(1 + Cardinality(Call))
  /\ kills \in 0..MaxCrashes

DigiInit ==
  /\ invoice = "paid"
  /\ call = [c \in Call |-> "idle"]
  /\ hook = [t \in {"sale", "refund"} |-> "none"]
  /\ tombstone = FALSE
  /\ sale = "none"
  /\ access = FALSE
  /\ code = FALSE
  /\ refundOk = FALSE
  /\ slips = {}
  /\ deliveries = 0
  /\ kills = 0

TypeOf(c) == IF c \in SaleCall THEN "sale" ELSE "refund"
GoTo(c, s) == call' = [call EXCEPT ![c] = s]

(* The buyer gets the money back at Digiseller, which then notifies. *)
RefundAtDigiseller ==
  /\ invoice = "paid"
  /\ invoice' = "refunded"
  /\ UNCHANGED <<call, hook, tombstone, sale, access, code, refundOk, slips,
                 deliveries, kills>>

(* A notification arrives; one about a refund may repeat, and need not be true. *)
Notify(c) ==
  /\ call[c] = "idle" \/ (call[c] = "end" /\ c \in RefundCall)
  /\ GoTo(c, "reserve")
  /\ UNCHANGED <<invoice, hook, tombstone, sale, access, code, refundOk, slips,
                 deliveries, kills>>

(* record_webhook_event: an event that is done or in work is answered 200 at
   once, as a duplicate. *)
Reserve(c) ==
  /\ call[c] = "reserve"
  /\ IF hook[TypeOf(c)] \in {"processed", "pending"}
       THEN GoTo(c, "end") /\ UNCHANGED hook
       ELSE GoTo(c, "check") /\ hook' = [hook EXCEPT ![TypeOf(c)] = "pending"]
  /\ UNCHANGED <<invoice, tombstone, sale, access, code, refundOk, slips,
                 deliveries, kills>>

(* 30 s pass since the reservation. *)
HookAges(t) ==
  /\ hook[t] = "pending"
  /\ hook' = [hook EXCEPT ![t] = "stale"]
  /\ UNCHANGED <<invoice, call, tombstone, sale, access, code, refundOk, slips,
                 deliveries, kills>>

(* Faulty variant of the next definition: a refund leaves no tombstone. *)
_RefundWithoutTombstone(c) ==
  /\ c \in RefundCall
  /\ call[c] = "check"
  /\ GoTo(c, "cancel")
  /\ UNCHANGED <<invoice, hook, tombstone, sale, access, code, refundOk, slips,
                 deliveries, kills>>

(* A refund that Digiseller confirms, or cannot be asked about, leaves its
   tombstone first ... *)
BuryInvoice(c) ==
  /\ c \in RefundCall
  /\ call[c] = "check"
  /\ tombstone' = TRUE
  /\ slips' = IF \E s \in SaleCall :
                    call[s] \in {"verify", "order", "claim", "provision", "deliver", "code"}
                THEN slips \cup {"raced"}
                ELSE slips
  /\ GoTo(c, "cancel")
  /\ UNCHANGED <<invoice, hook, sale, access, code, refundOk, deliveries, kills>>

(* ... one of an invoice that Digiseller says is paid is refused. *)
RefuseRefund(c) ==
  /\ c \in RefundCall
  /\ call[c] = "check"
  /\ invoice = "paid"
  /\ GoTo(c, "fail")
  /\ UNCHANGED <<invoice, hook, tombstone, sale, access, code, refundOk, slips,
                 deliveries, kills>>

(* The order found is cancelled. The event fails if that raises, as it does for
   a status that cannot become cancelled, among them cancelled itself. *)
CancelSale(c) ==
  /\ call[c] = "cancel"
  /\ \/ /\ sale = "none"
        /\ GoTo(c, "ok")
        /\ UNCHANGED sale
     \/ /\ sale \in {"waiting_payment", "failed", "delivered"}
        /\ sale' = "cancelled"
        /\ GoTo(c, "revoke")
     \/ /\ GoTo(c, "fail")
        /\ UNCHANGED sale
  /\ UNCHANGED <<invoice, hook, tombstone, access, code, refundOk, slips,
                 deliveries, kills>>

(* revoke_profile_access logs every failure of its own and returns, and the
   refund is answered as processed all the same; when the profile cannot even
   be looked up the event fails. *)
RevokeAccess(c) ==
  /\ call[c] = "revoke"
  /\ \/ access' = FALSE /\ GoTo(c, "ok") /\ UNCHANGED slips
     \/ slips' = slips \cup {"unrevoked"} /\ GoTo(c, "ok") /\ UNCHANGED access
     \/ GoTo(c, "fail") /\ UNCHANGED <<access, slips>>
  /\ UNCHANGED <<invoice, hook, tombstone, sale, code, refundOk, deliveries, kills>>

(* A sale looks for the tombstone ... *)
CheckTombstone(c) ==
  /\ c \in SaleCall
  /\ call[c] = "check"
  /\ GoTo(c, IF tombstone THEN "ok" ELSE "verify")
  /\ UNCHANGED <<invoice, hook, tombstone, sale, access, code, refundOk, slips,
                 deliveries, kills>>

(* ... asks Digiseller, which may not answer; only a paid invoice of the right
   product and amount goes on ... *)
VerifyPurchase(c) ==
  /\ call[c] = "verify"
  /\ \/ invoice = "paid" /\ GoTo(c, "order")
     \/ GoTo(c, "fail")
  /\ UNCHANGED <<invoice, hook, tombstone, sale, access, code, refundOk, slips,
                 deliveries, kills>>

(* ... finds the invoice's order or creates it; external_id is unique ... *)
FindOrCreate(c) ==
  /\ call[c] = "order"
  /\ sale' = IF sale = "none" THEN "waiting_payment" ELSE sale
  /\ GoTo(c, IF sale = "delivered" THEN "code" ELSE "claim")
  /\ UNCHANGED <<invoice, hook, tombstone, access, code, refundOk, slips,
                 deliveries, kills>>

(* Faulty variant of the next definition: the claim is not exclusive. *)
_ClaimAnyway(c) ==
  /\ call[c] = "claim"
  /\ sale' = "provisioning"
  /\ GoTo(c, "provision")
  /\ UNCHANGED <<invoice, hook, tombstone, access, code, refundOk, slips, deliveries,
                 kills>>

(* ... and completes it: the claim of complete_order, for which a cancelled
   order is as good as a new one. The loser waits for the winner. *)
ClaimSale(c) ==
  /\ call[c] = "claim"
  /\ \/ /\ sale \in {"waiting_payment", "failed", "cancelled"}
        /\ sale' = "provisioning"
        /\ GoTo(c, "provision")
     \/ /\ sale = "delivered"
        /\ GoTo(c, "code")
        /\ UNCHANGED sale
     \/ /\ sale = "provisioning"
        /\ GoTo(c, "fail")
        /\ UNCHANGED sale
  /\ UNCHANGED <<invoice, hook, tombstone, access, code, refundOk, slips,
                 deliveries, kills>>

(* The profile is made, renewed or found, or the panel fails. *)
ProvisionSale(c) ==
  /\ call[c] = "provision"
  /\ \/ access' = TRUE /\ GoTo(c, "deliver") /\ UNCHANGED sale
     \/ /\ sale' = IF sale = "provisioning" THEN "failed" ELSE sale
        /\ GoTo(c, "fail")
        /\ UNCHANGED access
  /\ UNCHANGED <<invoice, hook, tombstone, code, refundOk, slips, deliveries,
                 kills>>

DeliverSale(c) ==
  /\ call[c] = "deliver"
  /\ IF sale \in {"provisioning", "failed"}
       THEN /\ sale' = "delivered"
            /\ deliveries' = deliveries + 1
            /\ GoTo(c, "code")
       ELSE /\ GoTo(c, "fail")
            /\ UNCHANGED <<sale, deliveries>>
  /\ UNCHANGED <<invoice, hook, tombstone, access, code, refundOk, slips, kills>>

(* deliver_unique_code: a failure is left to the reconciler. *)
AnswerCode(c) ==
  /\ call[c] = "code"
  /\ code' \in {code, TRUE}
  /\ GoTo(c, "ok")
  /\ UNCHANGED <<invoice, hook, tombstone, sale, access, refundOk, slips,
                 deliveries, kills>>

(* finish_webhook_event and the reply. *)
Finish(c) ==
  /\ call[c] \in {"ok", "fail"}
  /\ hook' = [hook EXCEPT ![TypeOf(c)] = IF call[c] = "ok" THEN "processed" ELSE "failed"]
  /\ refundOk' = (refundOk \/ (c \in RefundCall /\ call[c] = "ok"))
  /\ GoTo(c, "end")
  /\ UNCHANGED <<invoice, tombstone, sale, access, code, slips, deliveries, kills>>

(* The process dies; the event stays pending. *)
Kill(c) ==
  /\ kills < MaxCrashes
  /\ kills' = kills + 1
  /\ call[c] \notin {"idle", "end"}
  /\ GoTo(c, "end")
  /\ UNCHANGED <<invoice, hook, tombstone, sale, access, code, refundOk, slips,
                 deliveries>>

(* recover_stale_orders: an order nobody provisions any more is delivered when
   its profile was made, else failed. *)
RecoverSale ==
  /\ sale = "provisioning"
  /\ \A c \in SaleCall : call[c] \notin {"provision", "deliver"}
  /\ sale' = IF access THEN "delivered" ELSE "failed"
  /\ deliveries' = IF access THEN deliveries + 1 ELSE deliveries
  /\ UNCHANGED <<invoice, call, hook, tombstone, access, code, refundOk, slips,
                 kills>>

(* reconcile_digiseller_orders: a delivered order whose code was not answered
   gets it. Its other branch, which cancels and revokes a disputed sale, cannot
   be reached: parse_purchase_info returns before it fills invoice_state and
   raw in for every invoice it does not find valid. *)
ReconcileCode ==
  /\ sale = "delivered"
  /\ ~code
  /\ code' = TRUE
  /\ UNCHANGED <<invoice, call, hook, tombstone, sale, access, refundOk, slips,
                 deliveries, kills>>

HandlerStep(c) ==
  \/ Reserve(c)
  \/ BuryInvoice(c) \/ RefuseRefund(c) \/ CancelSale(c) \/ RevokeAccess(c)
  \/ CheckTombstone(c) \/ VerifyPurchase(c) \/ FindOrCreate(c)
  \/ ClaimSale(c) \/ ProvisionSale(c) \/ DeliverSale(c) \/ AnswerCode(c)
  \/ Finish(c)

DigiNext ==
  \/ RefundAtDigiseller
  \/ \E c \in Call : Notify(c) \/ HandlerStep(c) \/ Kill(c)
  \/ \E t \in {"sale", "refund"} : HookAges(t)
  \/ RecoverSale
  \/ ReconcileCode

(* A handler runs on and the periodic tasks come round. *)
DigiFairness ==
  /\ \A c \in Call : WF_digiVars(HandlerStep(c))
  /\ WF_digiVars(RecoverSale)
  /\ WF_digiVars(ReconcileCode)

DigiSpec == DigiInit /\ [][DigiNext]_digiVars /\ DigiFairness
-----------------------------------------------------------------------------
(* Once a refund was carried out and answered `refund_processed', the buyer is
   not connected, and stays so through repeated and late sale notifications -
   unless a sale was past its check of the tombstone when the tombstone was
   written, or revoke_profile_access failed, which only leaves a line in the
   log. Nothing is said of the 200 that answers a duplicate. *)
RefundHolds ==
  refundOk /\ slips = {} => ~access

(* Whatever notifications repeat or overlap, one sale is delivered once; only
   the reactivation of a cancelled order by a racing sale delivers again. *)
SoldOnce ==
  deliveries <= 1 \/ "raced" \in slips
=============================================================================
