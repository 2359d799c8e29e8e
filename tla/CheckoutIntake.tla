----------------------------- MODULE CheckoutIntake -----------------------------
(***************************************************************************)
(* Orders that carry a promo code of few uses, taken and settled by three  *)
(* programs: the bot (one thread), the shop's web server and the pages of  *)
(* the subscription service, both with a thread for each request. A code   *)
(* is looked at when the order is taken and consumed when it is settled.   *)
(* The subscription service writes the same tables with SQL of its own.    *)
(*                                                                         *)
(* Invites, prices and messages are left out; OrderLifecycle looks into    *)
(* complete_order and the recovery, which are taken here in large steps.   *)
(***************************************************************************)
EXTENDS Integers, FiniteSets, FiniteSetsExt

CONSTANTS
  Purchase,    \* the orders to come
  MaxUses,     \* uses of the code
  MaxMishaps   \* bound on crashes, failed provisionings and refusals

ASSUME IntakeAssumption == MaxUses \in Nat /\ MaxMishaps \in Nat

VARIABLES
  purchase,   \* orders
  uses,       \* used_count
  pages,      \* orders that a page found unpaid too long, before it says so
  wronglyBack,\* uses given back by a recovery that were never taken
  mishaps     \* mishaps so far

intakeVars == <<purchase, uses, pages, wronglyBack, mishaps>>

Channel == {"chat", "web", "inline"}
PurchaseStatus == {"none", "waiting_payment", "auto_provision", "provisioning",
                   "delivered", "failed", "cancelled"}
(* What the thread that has the order does next; "dead" if it crashed. *)
Step == {"idle", "insert", "claim", "consume", "grant", "deliver", "dead"}
(* `holds': a use of the code was consumed for the order and not given back;
   `linked': it has its profile; `unused': it became delivered without a use. *)

NoPurchase == [status |-> "none", channel |-> "chat", free |-> FALSE, code |-> FALSE,
               step |-> "idle", holds |-> FALSE, linked |-> FALSE, unused |-> FALSE]

IntakeTypeOK ==
  /\ purchase \in [Purchase -> [status : PurchaseStatus, channel : Channel, free : BOOLEAN,
                                code : BOOLEAN, step : Step, holds : BOOLEAN,
                                linked : BOOLEAN, unused : BOOLEAN]]
  /\ uses \in 0..MaxUses
  /\ pages \subseteq Purchase
  /\ wronglyBack \in 0..MaxMishaps
  /\ mishaps \in 0..MaxMishaps

IntakeInit ==
  /\ purchase = [o \in Purchase |-> NoPurchase]
  /\ uses = 0
  /\ pages = {}
  /\ wronglyBack = 0
  /\ mishaps = 0

OpenPurchase(o) == purchase[o].status \in {"waiting_payment", "auto_provision"}
SetPurchase(o, r) == purchase' = [purchase EXCEPT ![o] = r]
GiveBack(n) == uses' = Max({0, uses - n})
Mishap == mishaps < MaxMishaps /\ mishaps' = mishaps + 1
-----------------------------------------------------------------------------
(* get_open_order_for_promo *)
Reserved ==
  LET open == {o \in Purchase : OpenPurchase(o) /\ purchase[o].code}
  IN open # {} /\ Cardinality(open) + uses >= MaxUses

TakePurchase(o, channel, code, free) ==
  /\ purchase[o] = NoPurchase
  /\ free => code
  /\ code => uses < MaxUses
  /\ SetPurchase(o, [NoPurchase EXCEPT !.channel = channel, !.code = code, !.free = free,
                                       !.step = "insert"])
  /\ UNCHANGED <<uses, pages, wronglyBack, mishaps>>

(* create_promo_order and create_standard_order: the bot has one thread, and a
   chat with an open order gets that one again. Only a fixed promo, here one
   that makes the order free, is checked for other open orders. *)
TakeInChat(o, code, free) ==
  /\ \A p \in Purchase : purchase[p].channel = "chat" =>
       ~OpenPurchase(p) /\ purchase[p].step # "insert"
  /\ free => ~Reserved
  /\ TakePurchase(o, "chat", code, free)

(* WebCheckout.create_order and create_promo_order *)
TakeOnWeb(o, code, free) ==
  /\ code => ~Reserved
  /\ TakePurchase(o, "web", code, free)

(* create_inline_renewal_order up to its first commit: the profile's unpaid
   orders are cancelled. *)
TakeInline(o, code, free) ==
  /\ purchase[o] = NoPurchase
  /\ free => code
  /\ code => uses < MaxUses
  /\ purchase' = [p \in Purchase |->
       IF p = o THEN [NoPurchase EXCEPT !.channel = "inline", !.code = code, !.free = free,
                                        !.step = "insert"]
       ELSE IF purchase[p].channel = "inline" /\ purchase[p].status = "waiting_payment"
         THEN [purchase[p] EXCEPT !.status = "cancelled"]
       ELSE purchase[p]]
  /\ UNCHANGED <<uses, pages, wronglyBack, mishaps>>

(* The order is inserted; an inline renewal with the profile it is to renew. *)
InsertPurchase(o) ==
  /\ purchase[o].step = "insert"
  /\ SetPurchase(o, [purchase[o] EXCEPT
       !.status = IF purchase[o].free THEN "auto_provision" ELSE "waiting_payment",
       !.step = IF purchase[o].free THEN "claim" ELSE "idle",
       !.linked = purchase[o].channel = "inline"])
  /\ UNCHANGED <<uses, pages, wronglyBack, mishaps>>

(* The claim of a free order by the thread that took it
   (maybe_auto_deliver_free_web_order, complete_order). *)
ClaimFree(o) ==
  /\ purchase[o].step = "claim" /\ purchase[o].channel # "inline"
  /\ SetPurchase(o, IF purchase[o].status = "auto_provision"
                      THEN [purchase[o] EXCEPT !.status = "provisioning", !.step = "consume"]
                      ELSE [purchase[o] EXCEPT !.step = "idle"])
  /\ UNCHANGED <<uses, pages, wronglyBack, mishaps>>

(* complete_order, when the payment is confirmed, after a failure, or for an
   order that was cancelled meanwhile *)
ClaimPaid(o) ==
  /\ purchase[o].step = "idle"
  /\ purchase[o].status \in {"waiting_payment", "failed", "cancelled"}
  /\ SetPurchase(o, [purchase[o] EXCEPT !.status = "provisioning", !.step = "consume"])
  /\ UNCHANGED <<uses, pages, wronglyBack, mishaps>>

Failed(o) == [purchase[o] EXCEPT
  !.status = IF @ = "provisioning" THEN "failed" ELSE @, !.step = "idle", !.holds = FALSE]

(* Faulty variant of the next definition: read, then written. *)
_ConsumeCode(o) ==
  /\ purchase[o].step = "consume"
  /\ SetPurchase(o, [purchase[o] EXCEPT !.step = "grant", !.holds = purchase[o].code])
  /\ uses' = IF purchase[o].code /\ uses < MaxUses THEN uses + 1 ELSE uses
  /\ UNCHANGED <<pages, wronglyBack, mishaps>>
(* consume_promo_code; an exhausted code fails the order. *)
ConsumeCode(o) ==
  /\ purchase[o].step = "consume"
  /\ IF purchase[o].code /\ uses >= MaxUses
       THEN SetPurchase(o, Failed(o)) /\ UNCHANGED uses
       ELSE /\ SetPurchase(o, [purchase[o] EXCEPT !.step = "grant", !.holds = purchase[o].code])
            /\ uses' = IF purchase[o].code THEN uses + 1 ELSE uses
  /\ UNCHANGED <<pages, wronglyBack, mishaps>>

(* The profile is created, or renewed, and linked; a failure gives the use back. *)
GrantPurchase(o) ==
  /\ purchase[o].step = "grant"
  /\ \/ /\ SetPurchase(o, [purchase[o] EXCEPT !.step = "deliver", !.linked = TRUE])
        /\ UNCHANGED <<uses, mishaps>>
     \/ /\ Mishap
        /\ SetPurchase(o, Failed(o))
        /\ GiveBack(IF purchase[o].holds THEN 1 ELSE 0)
  /\ UNCHANGED <<pages, wronglyBack>>

(* Faulty variant of the next definition: the order goes back to its claim. *)
_DeliverPurchase(o) ==
  /\ purchase[o].step = "deliver"
  /\ SetPurchase(o, [purchase[o] EXCEPT !.step = "claim"])
  /\ UNCHANGED <<uses, pages, wronglyBack, mishaps>>
(* The transition to delivered. The except block gives the use back when that
   fails, the order having been moved or the store being down, and also when
   only the audit record behind it does: then the order stays delivered. *)
DeliverPurchase(o) ==
  /\ purchase[o].step = "deliver"
  /\ \/ /\ purchase[o].status = "provisioning"
        /\ SetPurchase(o, [purchase[o] EXCEPT !.status = "delivered", !.step = "idle"])
        /\ UNCHANGED <<uses, mishaps>>
     \/ /\ IF purchase[o].status = "provisioning" THEN Mishap ELSE UNCHANGED mishaps
        /\ SetPurchase(o, Failed(o))
        /\ GiveBack(IF purchase[o].holds THEN 1 ELSE 0)
     \/ /\ purchase[o].status = "provisioning"
        /\ Mishap
        /\ SetPurchase(o, [purchase[o] EXCEPT !.status = "delivered", !.step = "idle",
                                              !.holds = FALSE, !.unused = purchase[o].code])
        /\ GiveBack(IF purchase[o].holds THEN 1 ELSE 0)
  /\ UNCHANGED <<pages, wronglyBack>>

(* create_inline_renewal_order on a free order: the use is taken and the order
   delivered in one transaction, around the write to x-ui. An exhausted code
   leaves the order as it is; a failure cancels it. *)
SettleInline(o) ==
  /\ purchase[o].step = "claim" /\ purchase[o].channel = "inline"
  /\ \/ /\ uses < MaxUses
        /\ SetPurchase(o, [purchase[o] EXCEPT !.status = "delivered", !.step = "idle",
                                              !.holds = TRUE])
        /\ uses' = uses + 1
        /\ UNCHANGED mishaps
     \/ /\ uses < MaxUses
        /\ Mishap
        /\ SetPurchase(o, [purchase[o] EXCEPT !.status = "cancelled", !.step = "idle"])
        /\ UNCHANGED uses
     \/ /\ uses >= MaxUses
        /\ SetPurchase(o, [purchase[o] EXCEPT !.step = "idle"])
        /\ UNCHANGED <<uses, mishaps>>
  /\ UNCHANGED <<pages, wronglyBack>>
-----------------------------------------------------------------------------
(* check_pending_payment_card: an unpaid order that is a day old, or whose
   payment was given up, is read from the replica ... *)
ReadPage(o) ==
  /\ purchase[o].status = "waiting_payment" /\ purchase[o].channel = "inline"
  /\ pages' = pages \cup {o}
  /\ UNCHANGED <<purchase, uses, wronglyBack, mishaps>>

(* ... and cancelled, whatever it is by then. *)
WritePage(o) ==
  /\ o \in pages
  /\ pages' = pages \ {o}
  /\ SetPurchase(o, [purchase[o] EXCEPT !.status = "cancelled"])
  /\ UNCHANGED <<uses, wronglyBack, mishaps>>

(* handle_inline_order_cancel: the order itself whatever its state, and the
   profile's unpaid ones. *)
CancelInline(o) ==
  /\ purchase[o].channel = "inline" /\ purchase[o].status # "none"
  /\ purchase' = [p \in Purchase |->
       IF p = o \/ (purchase[p].channel = "inline" /\ purchase[p].status = "waiting_payment")
         THEN [purchase[p] EXCEPT !.status = "cancelled"] ELSE purchase[p]]
  /\ UNCHANGED <<uses, pages, wronglyBack, mishaps>>

(* WebCheckout.cancel_order, and the admin's and the chat's cancellations *)
CancelUnpaidPurchase(o) ==
  /\ purchase[o].status = "waiting_payment" /\ purchase[o].step = "idle"
  /\ SetPurchase(o, [purchase[o] EXCEPT !.status = "cancelled"])
  /\ UNCHANGED <<uses, pages, wronglyBack, mishaps>>

CrashIntake(o) ==
  /\ Mishap
  /\ purchase[o].step \in {"claim", "consume", "grant", "deliver"}
  /\ SetPurchase(o, [purchase[o] EXCEPT !.step = "dead"])
  /\ UNCHANGED <<uses, pages, wronglyBack>>

(* recover_stale_orders: delivered if a profile is linked, without looking at
   the period or the code, else failed, and a use of the code is given back,
   taken or not. A retry may have left the profile linked, and an inline
   renewal has it from the start: those are delivered without a use when their
   thread died before it took one. *)
RecoverPurchase(o) ==
  /\ purchase[o].step = "dead" /\ purchase[o].status = "provisioning"
  /\ IF purchase[o].linked
       THEN /\ SetPurchase(o, [purchase[o] EXCEPT !.status = "delivered", !.step = "idle",
                 !.unused = @ \/ (purchase[o].code /\ ~purchase[o].holds)])
            /\ UNCHANGED <<uses, wronglyBack>>
       ELSE /\ SetPurchase(o, Failed(o))
            /\ GiveBack(IF purchase[o].code THEN 1 ELSE 0)
            /\ wronglyBack' = IF purchase[o].code /\ ~purchase[o].holds /\ uses > 0
                                THEN wronglyBack + 1 ELSE wronglyBack
  /\ UNCHANGED <<pages, mishaps>>

Settle(o) == InsertPurchase(o) \/ ClaimFree(o) \/ ConsumeCode(o) \/ GrantPurchase(o)
             \/ DeliverPurchase(o) \/ SettleInline(o)

IntakeNext ==
  \E o \in Purchase :
    \/ \E code, free \in BOOLEAN :
         TakeInChat(o, code, free) \/ TakeOnWeb(o, code, free) \/ TakeInline(o, code, free)
    \/ Settle(o)
    \/ ClaimPaid(o)
    \/ ReadPage(o) \/ WritePage(o)
    \/ CancelInline(o) \/ CancelUnpaidPurchase(o)
    \/ CrashIntake(o) \/ RecoverPurchase(o)

(* Threads go on; the recovery is a periodic task. *)
IntakeFairness ==
  \A o \in Purchase : WF_intakeVars(Settle(o)) /\ WF_intakeVars(RecoverPurchase(o))

IntakeSpec == IntakeInit /\ [][IntakeNext]_intakeVars /\ IntakeFairness
-----------------------------------------------------------------------------
(* However many threads of the three programs take and settle orders with the
   code, no more are delivered with a use than it has, but for uses that a
   recovery gave back without their having been taken. The orders that became
   delivered without a use are not counted: those the recovery found linked,
   and those whose use was given back by a failing audit record. *)
CodeNotOversold ==
  Cardinality({o \in Purchase : /\ purchase[o].code /\ purchase[o].status = "delivered"
                                /\ ~purchase[o].unused})
    <= MaxUses + wronglyBack

(* A free order that the bot or the shop took is settled: without a mishap it is
   delivered, failed or cancelled and stays with nobody. *)
FreeOrderSettled ==
  \A o \in Purchase :
    (purchase[o].status = "auto_provision" /\ purchase[o].channel # "inline") ~>
      \/ purchase[o].status \in {"delivered", "failed", "cancelled"} /\ purchase[o].step = "idle"
      \/ mishaps > 0

(* "Any transition not listed here is rejected at the storage layer, regardless
   of what the caller asks for" (store.py). *)
PurchaseTransitions == [
  waiting_payment |-> {"provisioning", "auto_provision", "cancelled"},
  auto_provision |-> {"provisioning", "failed", "cancelled"},
  provisioning |-> {"delivered", "failed", "waiting_payment"},
  failed |-> {"provisioning", "delivered", "cancelled"},
  delivered |-> {"cancelled"},
  cancelled |-> {"provisioning"}]
FollowsTransitions ==
  [][\A o \in Purchase :
       LET old == purchase[o].status
       IN old # "none" /\ purchase'[o].status # old
            => purchase'[o].status \in PurchaseTransitions[old]]_intakeVars
=============================================================================
