-------------------------------- MODULE ShopProofs --------------------------
(***************************************************************************)
(* Proofs about what the shop hands out only once or only so often: sales  *)
(* and refunds of Digiseller, codes of few uses, requests over the server  *)
(* bridge, the addresses of AmneziaWG peers, and the orders and trials of  *)
(* a chat, for any number of calls, orders, nodes, peers, threads, clicks, *)
(* mishaps and restarts.                                                   *)
(***************************************************************************)
EXTENDS DigisellerSales, CheckoutIntake, BridgeGate, AwgAddresses, BotChat,
  FiniteSetTheorems, WellFoundedInduction, TLAPS

-----------------------------------------------------------------------------
(* Digiseller. Where a sale is past its check of the tombstone. *)
PastCheck == {"verify", "order", "claim", "provision", "deliver", "code"}

SaleTypes ==
  /\ call \in [Call -> CallStep]
  /\ sale \in {"none", "waiting_payment", "provisioning", "failed", "delivered", "cancelled"}
  /\ slips \subseteq {"raced", "unrevoked"}
  /\ tombstone \in BOOLEAN /\ refundOk \in BOOLEAN /\ access \in BOOLEAN
  /\ deliveries \in Nat

(* A refund that goes on has left its tombstone; behind it no sale is under
   way, so nothing can make a profile or an order again. *)
RefundInv ==
  /\ SaleTypes
  /\ \A c \in RefundCall : /\ call[c] \notin PastCheck
                           /\ call[c] \in {"cancel", "revoke", "ok"} => tombstone
  /\ \A c \in SaleCall : call[c] \notin {"cancel", "revoke"}
  /\ \A c \in SaleCall : call[c] \in {"claim", "provision", "deliver"} => sale # "none"
  /\ access => sale # "none"
  /\ refundOk => tombstone
  /\ sale = "cancelled" => tombstone
  /\ "raced" \notin slips =>
       /\ tombstone => \A c \in SaleCall : call[c] \notin PastCheck
       /\ \A c \in RefundCall : call[c] = "ok" => ~access \/ "unrevoked" \in slips
       /\ sale \in {"none", "waiting_payment", "provisioning", "failed"} => deliveries = 0
  /\ RefundHolds /\ SoldOnce

(* Nothing was sold. *)
LEMMA RefundStart == DigiInit => RefundInv
<1> SUFFICES ASSUME DigiInit PROVE RefundInv
  OBVIOUS
<1>1. /\ tombstone \in BOOLEAN /\ refundOk \in BOOLEAN /\ access \in BOOLEAN
      /\ slips = {} /\ ~tombstone /\ ~refundOk /\ ~access
  BY DEF DigiInit
<1> QED
  BY <1>1, DigisellerAssumption
     DEF DigiInit, RefundInv, SaleTypes, CallStep, PastCheck, Call, RefundHolds, SoldOnce

(* No notification, handler, crash or periodic task breaks it. *)
LEMMA RefundStep ==
  ASSUME RefundInv, [DigiNext]_digiVars PROVE RefundInv'
<1> USE DigisellerAssumption
    DEF RefundInv, SaleTypes, CallStep, PastCheck, Call, RefundHolds, SoldOnce, GoTo
<1>1. CASE RefundAtDigiseller
  BY <1>1 DEF RefundAtDigiseller
<1>2. ASSUME NEW c \in Call, Notify(c) PROVE RefundInv'
  BY <1>2 DEF Notify
<1>3. ASSUME NEW c \in Call, Reserve(c) PROVE RefundInv'
  BY <1>3 DEF Reserve
<1>4. ASSUME NEW c \in Call, BuryInvoice(c) PROVE RefundInv'
  BY <1>4 DEF BuryInvoice
<1>20. ASSUME NEW c \in Call, RefuseRefund(c) PROVE RefundInv'
  BY <1>20 DEF RefuseRefund
<1>5. ASSUME NEW c \in Call, CancelSale(c) PROVE RefundInv'
  BY <1>5 DEF CancelSale
<1>6. ASSUME NEW c \in Call, RevokeAccess(c) PROVE RefundInv'
  <2>1. CASE /\ call[c] = "revoke" /\ access' = FALSE /\ GoTo(c, "ok")
             /\ UNCHANGED <<slips, tombstone, sale, refundOk, deliveries>>
    BY <2>1
  <2>2. CASE /\ call[c] = "revoke" /\ slips' = slips \cup {"unrevoked"} /\ GoTo(c, "ok")
             /\ UNCHANGED <<access, tombstone, sale, refundOk, deliveries>>
    <3>1. "unrevoked" \in slips' /\ ("raced" \in slips' <=> "raced" \in slips)
          /\ slips' \subseteq {"raced", "unrevoked"}
      BY <2>2
    <3> QED BY <2>2, <3>1
  <2>3. CASE /\ call[c] = "revoke" /\ GoTo(c, "fail")
             /\ UNCHANGED <<access, slips, tombstone, sale, refundOk, deliveries>>
    BY <2>3
  <2> QED BY <1>6, <2>1, <2>2, <2>3 DEF RevokeAccess
<1>7. ASSUME NEW c \in Call, CheckTombstone(c) PROVE RefundInv'
  BY <1>7 DEF CheckTombstone
<1>8. ASSUME NEW c \in Call, VerifyPurchase(c) PROVE RefundInv'
  BY <1>8 DEF VerifyPurchase
<1>9. ASSUME NEW c \in Call, FindOrCreate(c) PROVE RefundInv'
  BY <1>9 DEF FindOrCreate
<1>10. ASSUME NEW c \in Call, ClaimSale(c) PROVE RefundInv'
  BY <1>10 DEF ClaimSale
<1>11. ASSUME NEW c \in Call, ProvisionSale(c) PROVE RefundInv'
  BY <1>11 DEF ProvisionSale
<1>12. ASSUME NEW c \in Call, DeliverSale(c) PROVE RefundInv'
  BY <1>12 DEF DeliverSale
<1>13. ASSUME NEW c \in Call, AnswerCode(c) PROVE RefundInv'
  BY <1>13 DEF AnswerCode
<1>14. ASSUME NEW c \in Call, Finish(c) PROVE RefundInv'
  BY <1>14 DEF Finish
<1>15. ASSUME NEW c \in Call, Kill(c) PROVE RefundInv'
  BY <1>15 DEF Kill
<1>16. ASSUME NEW t \in {"sale", "refund"}, HookAges(t) PROVE RefundInv'
  BY <1>16 DEF HookAges
<1>17. CASE RecoverSale
  BY <1>17 DEF RecoverSale
<1>18. CASE ReconcileCode
  BY <1>18 DEF ReconcileCode
<1>19. CASE UNCHANGED digiVars
  BY <1>19 DEF digiVars
<1> HIDE DEF RefundInv, SaleTypes, CallStep, PastCheck, Call, RefundHolds, SoldOnce, GoTo
<1> QED
  BY <1>1, <1>2, <1>3, <1>4, <1>5, <1>6, <1>7, <1>8, <1>9, <1>10, <1>11, <1>12, <1>13, <1>14,
     <1>15, <1>16, <1>17, <1>18, <1>19, <1>20 DEF DigiNext, HandlerStep

(* Every behaviour of the callbacks keeps the invariant. *)
LEMMA RefundInvariant == DigiSpec => []RefundInv
<1>1. RefundInv /\ [DigiNext]_digiVars => RefundInv'
  BY RefundStep
<1> QED BY <1>1, RefundStart, PTL DEF DigiSpec

(* A refund that was carried out leaves the buyer disconnected, for any number
   of notifications, repetitions and crashes, as long as no sale raced it and
   the revocation itself did not fail. *)
THEOREM RefundIsFinal == DigiSpec => []RefundHolds
<1>1. RefundInv => RefundHolds
  BY DEF RefundInv
<1> QED BY <1>1, RefundInvariant, PTL

(* One sale is delivered once, for any number of notifications and crashes. *)
THEOREM SaleIsSoldOnce == DigiSpec => []SoldOnce
<1>1. RefundInv => SoldOnce
  BY DEF RefundInv
<1> QED BY <1>1, RefundInvariant, PTL

-----------------------------------------------------------------------------
(* Codes of few uses. The orders that have a use of the code. *)
Holder == {o \in Purchase : purchase[o].holds}

IntakeTypes ==
  /\ purchase \in [Purchase -> [status : PurchaseStatus, channel : Channel, free : BOOLEAN,
                                code : BOOLEAN, step : Step, holds : BOOLEAN,
                                linked : BOOLEAN, unused : BOOLEAN]]
  /\ uses \in 0..MaxUses
  /\ wronglyBack \in Nat

(* What is known of an order: one that its thread got far enough has a use if
   it has the code, and so has one that is delivered and not noted as `unused'. *)
OrderKnown(o) ==
  LET p == purchase[o] IN
  /\ p.channel # "inline" /\ p.step \in {"consume", "grant", "deliver"} => p.status = "provisioning"
  /\ p.step \in {"grant", "deliver"} /\ p.code => p.holds
  /\ p.status = "delivered" => p.step = "idle" /\ (p.code => p.holds \/ p.unused)
  /\ o \in pages => p.channel = "inline"

UsesInv ==
  /\ IntakeTypes
  /\ pages \subseteq Purchase
  /\ \A o \in Purchase : OrderKnown(o)
  /\ IsFiniteSet(Holder)
  /\ Cardinality(Holder) <= uses + wronglyBack

(* No order was taken. *)
LEMMA UsesStart == IntakeInit => UsesInv
<1> SUFFICES ASSUME IntakeInit PROVE UsesInv
  OBVIOUS
<1>1. NoPurchase \in [status : PurchaseStatus, channel : Channel, free : BOOLEAN,
                      code : BOOLEAN, step : Step, holds : BOOLEAN, linked : BOOLEAN,
                      unused : BOOLEAN]
  BY DEF NoPurchase, PurchaseStatus, Channel, Step
<1>2. IntakeTypes
  BY <1>1, IntakeAssumption DEF IntakeInit, IntakeTypes
<1>3. Holder = {}
  BY DEF IntakeInit, Holder, NoPurchase
<1>4. IsFiniteSet(Holder) /\ Cardinality(Holder) = 0
  BY <1>3, FS_EmptySet
<1> QED BY <1>2, <1>4 DEF IntakeInit, UsesInv, OrderKnown, NoPurchase

(* A use is given back only if there is one. *)
LEMMA GiveBackValue ==
  ASSUME NEW n \in {0, 1}, uses \in Nat, GiveBack(n)
  PROVE  uses' = IF uses >= n THEN uses - n ELSE 0
<1> DEFINE S == {0, uses - n}
           m == IF uses >= n THEN uses - n ELSE 0
<1>1. m \in S /\ \A y \in S : m >= y
  OBVIOUS
<1>2. \A x \in S : (\A y \in S : x >= y) => x = m
  OBVIOUS
<1>3. Max(S) = m
  BY <1>1, <1>2 DEF Max
<1> QED BY <1>3 DEF GiveBack

OrderRecord == [status : PurchaseStatus, channel : Channel, free : BOOLEAN, code : BOOLEAN,
                step : Step, holds : BOOLEAN, linked : BOOLEAN, unused : BOOLEAN]

(* A step on one order moves at most that order into the holders or out. *)
LEMMA HolderChanges ==
  ASSUME IntakeTypes, IsFiniteSet(Holder), NEW o \in Purchase, NEW r \in OrderRecord,
         SetPurchase(o, r)
  PROVE  /\ IsFiniteSet(Holder') /\ Cardinality(Holder') \in Nat
         /\ Cardinality(Holder') <= Cardinality(Holder) + 1
         /\ (r.holds => purchase[o].holds) => Cardinality(Holder') <= Cardinality(Holder)
         /\ ~r.holds /\ purchase[o].holds => Cardinality(Holder') = Cardinality(Holder) - 1
<1>1. purchase'[o] = r /\ \A p \in Purchase : p # o => purchase'[p] = purchase[p]
  BY DEF IntakeTypes, SetPurchase
<1>2. Cardinality(Holder) \in Nat
  BY FS_CardinalityType
<1>3. purchase[o].holds <=> o \in Holder
  BY DEF Holder
<1> DEFINE S == Holder
           T == Holder'
<1>4. CASE r.holds
  <2>1. T = S \cup {o}
    BY <1>1, <1>4 DEF Holder
  <2> HIDE DEF S, T
  <2>2. IsFiniteSet(T) /\ Cardinality(T) = IF o \in S THEN Cardinality(S) ELSE Cardinality(S) + 1
    BY <2>1, FS_AddElement DEF S
  <2>3. /\ IsFiniteSet(T) /\ Cardinality(T) \in Nat
        /\ Cardinality(T) <= Cardinality(S) + 1 /\ (o \in S => Cardinality(T) <= Cardinality(S))
    BY <1>2, <2>2 DEF S
  <2> QED BY <1>3, <1>4, <2>3 DEF S, T
<1>5. CASE ~r.holds
  <2>1. T = S \ {o}
    BY <1>1, <1>5 DEF Holder
  <2> HIDE DEF S, T
  <2>2. IsFiniteSet(T) /\ Cardinality(T) = IF o \in S THEN Cardinality(S) - 1 ELSE Cardinality(S)
    BY <2>1, FS_RemoveElement DEF S
  <2>3. Cardinality(T) \in Nat
    BY <2>2, FS_CardinalityType
  <2>4. /\ IsFiniteSet(T) /\ Cardinality(T) \in Nat
        /\ Cardinality(T) <= Cardinality(S) + 1 /\ Cardinality(T) <= Cardinality(S)
        /\ o \in S => Cardinality(T) = Cardinality(S) - 1
    BY <1>2, <2>2, <2>3 DEF S
  <2> QED BY <1>3, <1>5, <2>4 DEF S, T
<1> QED BY <1>4, <1>5

(* A step on one order: what it takes of the uses, with what is noted as
   wrongly given back, is no less than what it adds to the holders. *)
LEMMA OneOrder ==
  ASSUME UsesInv, NEW o \in Purchase, NEW r \in OrderRecord, SetPurchase(o, r),
         uses' \in 0..MaxUses, wronglyBack' \in Nat, pages' \subseteq pages,
         OrderKnown(o)',
         \/ uses' + wronglyBack' = uses + wronglyBack /\ (r.holds => purchase[o].holds)
         \/ uses' + wronglyBack' = uses + wronglyBack + 1
         \/ uses' + wronglyBack' = uses + wronglyBack - 1 /\ purchase[o].holds /\ ~r.holds
  PROVE  UsesInv'
<1>1. IntakeTypes'
  BY DEF UsesInv, IntakeTypes, SetPurchase, OrderRecord
<1>2. /\ IsFiniteSet(Holder') /\ Cardinality(Holder') \in Nat
      /\ Cardinality(Holder') <= Cardinality(Holder) + 1
      /\ (r.holds => purchase[o].holds) => Cardinality(Holder') <= Cardinality(Holder)
      /\ ~r.holds /\ purchase[o].holds => Cardinality(Holder') = Cardinality(Holder) - 1
  BY HolderChanges DEF UsesInv
<1>3. Cardinality(Holder) \in Nat /\ uses \in Nat /\ wronglyBack \in Nat
      /\ Cardinality(Holder) <= uses + wronglyBack /\ uses' \in Nat /\ wronglyBack' \in Nat
  BY IntakeAssumption, FS_CardinalityType DEF UsesInv, IntakeTypes
<1>4. PICK u \in Nat, w \in Nat : u = uses' /\ w = wronglyBack'
  BY <1>3
<1>5. PICK n \in Nat, m \in Nat : n = Cardinality(Holder) /\ m = Cardinality(Holder')
  BY <1>2, <1>3
<1>6. \/ u + w = uses + wronglyBack /\ (r.holds => purchase[o].holds)
      \/ u + w = uses + wronglyBack + 1
      \/ u + w = uses + wronglyBack - 1 /\ purchase[o].holds /\ ~r.holds
  BY <1>4
<1>7. Cardinality(Holder') <= uses' + wronglyBack'
  <2>1. m <= u + w
    BY <1>2, <1>3, <1>5, <1>6
  <2> QED BY <1>4, <1>5, <2>1
<1>8. ASSUME NEW p \in Purchase PROVE OrderKnown(p)'
  <2>1. CASE p = o
    BY <2>1
  <2>2. CASE p # o
    BY <2>2 DEF UsesInv, IntakeTypes, SetPurchase, OrderKnown
  <2> QED BY <2>1, <2>2
<1> QED BY <1>1, <1>2, <1>7, <1>8 DEF UsesInv

(* A step on one order that moves no use. *)
LEMMA NoUseMoves ==
  ASSUME UsesInv, NEW o \in Purchase, NEW r \in OrderRecord, SetPurchase(o, r),
         UNCHANGED <<uses, wronglyBack>>, pages' \subseteq pages,
         OrderKnown(o)', r.holds => purchase[o].holds
  PROVE  UsesInv'
BY OneOrder DEF UsesInv, IntakeTypes

(* A step that changes the status of some orders to "cancelled", and takes at
   most one new one. *)
LEMMA ManyOrders ==
  ASSUME UsesInv, UNCHANGED <<uses, wronglyBack, pages>>,
         purchase' \in [Purchase -> OrderRecord],
         \A p \in Purchase : purchase'[p].holds = purchase[p].holds /\ OrderKnown(p)'
  PROVE  UsesInv'
<1>1. Holder' = Holder
  BY DEF Holder
<1> QED BY <1>1 DEF UsesInv, IntakeTypes, OrderRecord

(* No thread, page, crash or recovery breaks it. *)
LEMMA UsesStep ==
  ASSUME UsesInv, [IntakeNext]_intakeVars PROVE UsesInv'
<1> USE IntakeAssumption
<1>a. /\ purchase \in [Purchase -> OrderRecord] /\ uses \in 0..MaxUses /\ wronglyBack \in Nat
      /\ \A p \in Purchase : OrderKnown(p)
  BY DEF UsesInv, IntakeTypes, OrderRecord
<1>b. NoPurchase \in OrderRecord
  BY DEF NoPurchase, OrderRecord, PurchaseStatus, Channel, Step
<1>c. ASSUME NEW o \in Purchase, NEW c \in Channel, NEW free \in BOOLEAN, NEW coded \in BOOLEAN,
             TakePurchase(o, c, coded, free)
      PROVE  UsesInv'
  <2> DEFINE r == [NoPurchase EXCEPT !.channel = c, !.code = coded, !.free = free,
                                     !.step = "insert"]
  <2>1. r \in OrderRecord /\ ~r.holds
    BY <1>b DEF NoPurchase, OrderRecord, Step
  <2>2. SetPurchase(o, r) /\ UNCHANGED <<uses, pages, wronglyBack>>
    BY <1>c DEF TakePurchase
  <2>3. o \notin pages /\ ~purchase[o].holds
    BY <1>a, <1>c DEF TakePurchase, OrderKnown, NoPurchase
  <2>4. OrderKnown(o)'
    BY <1>a, <2>2, <2>3 DEF OrderKnown, SetPurchase, NoPurchase
  <2> QED BY <1>a, <2>1, <2>2, <2>3, <2>4, NoUseMoves
<1>1. ASSUME NEW o \in Purchase, NEW coded \in BOOLEAN, NEW free \in BOOLEAN,
             TakeInChat(o, coded, free) \/ TakeOnWeb(o, coded, free)
      PROVE  UsesInv'
  BY <1>1, <1>c DEF TakeInChat, TakeOnWeb, Channel
<1>2. ASSUME NEW o \in Purchase, NEW coded \in BOOLEAN, NEW free \in BOOLEAN,
             TakeInline(o, coded, free)
      PROVE  UsesInv'
  <2>1. purchase' \in [Purchase -> OrderRecord]
    <3>1. [NoPurchase EXCEPT !.channel = "inline", !.code = coded, !.free = free,
                             !.step = "insert"] \in OrderRecord
      BY <1>b DEF OrderRecord, Channel, Step
    <3>2. \A p \in Purchase : [purchase[p] EXCEPT !.status = "cancelled"] \in OrderRecord
      BY <1>a DEF OrderRecord, PurchaseStatus
    <3>3. purchase' = [p \in Purchase |->
            IF p = o THEN [NoPurchase EXCEPT !.channel = "inline", !.code = coded, !.free = free,
                                             !.step = "insert"]
            ELSE IF purchase[p].channel = "inline" /\ purchase[p].status = "waiting_payment"
              THEN [purchase[p] EXCEPT !.status = "cancelled"]
            ELSE purchase[p]]
      BY <1>2 DEF TakeInline
    <3> QED BY <1>a, <3>1, <3>2, <3>3
  <2>2. \A p \in Purchase : purchase'[p].holds = purchase[p].holds
    BY <1>a, <1>2 DEF TakeInline, NoPurchase, OrderRecord
  <2>3. \A p \in Purchase : OrderKnown(p)'
    BY <1>a, <1>2 DEF TakeInline, NoPurchase, OrderKnown, OrderRecord
  <2> QED BY <1>2, <2>1, <2>2, <2>3, ManyOrders DEF TakeInline
<1>3. ASSUME NEW o \in Purchase, InsertPurchase(o) PROVE UsesInv'
  <2> DEFINE r == [purchase[o] EXCEPT
                     !.status = IF purchase[o].free THEN "auto_provision" ELSE "waiting_payment",
                     !.step = IF purchase[o].free THEN "claim" ELSE "idle",
                     !.linked = purchase[o].channel = "inline"]
  <2>1. r \in OrderRecord /\ SetPurchase(o, r) /\ r.holds = purchase[o].holds
    BY <1>a, <1>3 DEF InsertPurchase, OrderRecord, Step, PurchaseStatus
  <2>2. OrderKnown(o)'
    BY <1>a, <1>3 DEF InsertPurchase, SetPurchase, OrderKnown, OrderRecord
  <2> QED BY <1>a, <1>3, <2>1, <2>2, NoUseMoves DEF InsertPurchase
<1>4. ASSUME NEW o \in Purchase, ClaimFree(o) PROVE UsesInv'
  <2> DEFINE r == IF purchase[o].status = "auto_provision"
                    THEN [purchase[o] EXCEPT !.status = "provisioning", !.step = "consume"]
                    ELSE [purchase[o] EXCEPT !.step = "idle"]
  <2>1. r \in OrderRecord /\ SetPurchase(o, r) /\ r.holds = purchase[o].holds
    BY <1>a, <1>4 DEF ClaimFree, OrderRecord, Step, PurchaseStatus
  <2>2. OrderKnown(o)'
    BY <1>a, <1>4 DEF ClaimFree, SetPurchase, OrderKnown, OrderRecord
  <2> QED BY <1>a, <1>4, <2>1, <2>2, NoUseMoves DEF ClaimFree
<1>5. ASSUME NEW o \in Purchase, ClaimPaid(o) PROVE UsesInv'
  <2> DEFINE r == [purchase[o] EXCEPT !.status = "provisioning", !.step = "consume"]
  <2>1. r \in OrderRecord /\ SetPurchase(o, r) /\ r.holds = purchase[o].holds
    BY <1>a, <1>5 DEF ClaimPaid, OrderRecord, Step, PurchaseStatus
  <2>2. OrderKnown(o)'
    BY <1>a, <1>5 DEF ClaimPaid, SetPurchase, OrderKnown, OrderRecord
  <2> QED BY <1>a, <1>5, <2>1, <2>2, NoUseMoves DEF ClaimPaid
<1>d. ASSUME NEW o \in Purchase, SetPurchase(o, Failed(o)),
             purchase[o].step \in {"consume", "grant", "deliver", "dead"},
             pages' = pages
      PROVE  Failed(o) \in OrderRecord /\ ~Failed(o).holds /\ OrderKnown(o)'
  <2>1. Failed(o) \in OrderRecord /\ ~Failed(o).holds
    BY <1>a DEF Failed, OrderRecord, Step, PurchaseStatus
  <2>2. OrderKnown(o)'
    BY <1>a, <1>d DEF Failed, SetPurchase, OrderKnown, OrderRecord
  <2> QED BY <2>1, <2>2
<1>e. ASSUME NEW o \in Purchase, NEW r \in OrderRecord, SetPurchase(o, r), ~r.holds,
             OrderKnown(o)', GiveBack(IF purchase[o].holds THEN 1 ELSE 0),
             UNCHANGED <<pages, wronglyBack>>
      PROVE  UsesInv'
  <2>1. uses' = IF purchase[o].holds /\ uses >= 1 THEN uses - 1 ELSE uses
    <3>1. CASE purchase[o].holds
      BY <1>a, <1>e, <3>1, GiveBackValue
    <3>2. CASE ~purchase[o].holds
      BY <1>a, <1>e, <3>2, GiveBackValue
    <3> QED BY <3>1, <3>2
  <2>2. CASE uses = 0 \/ ~purchase[o].holds
    BY <1>a, <1>e, <2>1, <2>2, NoUseMoves
  <2>3. CASE uses # 0 /\ purchase[o].holds
    <3>1. uses' \in 0..MaxUses /\ wronglyBack' \in Nat
            /\ uses' + wronglyBack' = uses + wronglyBack - 1
      BY <1>a, <1>e, <2>1, <2>3
    <3> QED BY <1>e, <2>3, <3>1, OneOrder
  <2> QED BY <2>2, <2>3
<1>6. ASSUME NEW o \in Purchase, ConsumeCode(o) PROVE UsesInv'
  <2> DEFINE r == [purchase[o] EXCEPT !.step = "grant", !.holds = purchase[o].code]
  <2>1. r \in OrderRecord /\ r.holds = purchase[o].code
    BY <1>a DEF OrderRecord, Step
  <2>2. CASE purchase[o].code /\ uses >= MaxUses
    <3>1. SetPurchase(o, Failed(o)) /\ UNCHANGED <<uses, pages, wronglyBack>>
      BY <1>6, <2>2 DEF ConsumeCode
    <3>2. Failed(o) \in OrderRecord /\ ~Failed(o).holds /\ OrderKnown(o)'
      BY <1>a, <1>d, <1>6, <3>1 DEF ConsumeCode, OrderKnown
    <3> QED BY <1>a, <3>1, <3>2, NoUseMoves
  <2>3. CASE ~(purchase[o].code /\ uses >= MaxUses)
    <3>1. SetPurchase(o, r) /\ uses' = (IF purchase[o].code THEN uses + 1 ELSE uses)
          /\ pages' = pages /\ wronglyBack' = wronglyBack
      BY <1>6, <2>3 DEF ConsumeCode
    <3>2. OrderKnown(o)'
      BY <1>a, <1>6, <3>1 DEF ConsumeCode, SetPurchase, OrderKnown, OrderRecord
    <3>3. CASE purchase[o].code
      <4>1. uses' \in 0..MaxUses /\ wronglyBack' \in Nat
              /\ uses' + wronglyBack' = uses + wronglyBack + 1
        BY <1>a, <2>3, <3>1, <3>3
      <4> QED BY <2>1, <3>1, <3>2, <4>1, OneOrder
    <3>4. CASE ~purchase[o].code
      BY <2>1, <3>1, <3>2, <3>4, NoUseMoves
    <3> QED BY <3>3, <3>4
  <2> QED BY <2>2, <2>3
<1>7. ASSUME NEW o \in Purchase, GrantPurchase(o) PROVE UsesInv'
  <2> DEFINE r == [purchase[o] EXCEPT !.step = "deliver", !.linked = TRUE]
  <2>1. CASE SetPurchase(o, r) /\ uses' = uses
    <3>1. r \in OrderRecord /\ r.holds = purchase[o].holds
      BY <1>a DEF OrderRecord, Step
    <3>2. OrderKnown(o)'
      BY <1>a, <1>7, <2>1 DEF GrantPurchase, SetPurchase, OrderKnown, OrderRecord
    <3> QED BY <1>a, <1>7, <2>1, <3>1, <3>2, NoUseMoves DEF GrantPurchase
  <2>2. CASE SetPurchase(o, Failed(o)) /\ GiveBack(IF purchase[o].holds THEN 1 ELSE 0)
    <3>1. Failed(o) \in OrderRecord /\ ~Failed(o).holds /\ OrderKnown(o)'
      BY <1>a, <1>d, <1>7, <2>2 DEF GrantPurchase, OrderKnown
    <3> QED BY <1>7, <2>2, <3>1, <1>e DEF GrantPurchase
  <2> QED BY <1>7, <2>1, <2>2 DEF GrantPurchase
<1>8. ASSUME NEW o \in Purchase, DeliverPurchase(o) PROVE UsesInv'
  <2> DEFINE r == [purchase[o] EXCEPT !.status = "delivered", !.step = "idle"]
             given == [purchase[o] EXCEPT !.status = "delivered", !.step = "idle",
                                          !.holds = FALSE, !.unused = purchase[o].code]
  <2>1. CASE SetPurchase(o, r) /\ uses' = uses
    <3>1. r \in OrderRecord /\ r.holds = purchase[o].holds
      BY <1>a DEF OrderRecord, Step, PurchaseStatus
    <3>2. OrderKnown(o)'
      BY <1>a, <1>8, <2>1 DEF DeliverPurchase, SetPurchase, OrderKnown, OrderRecord
    <3> QED BY <1>a, <1>8, <2>1, <3>1, <3>2, NoUseMoves DEF DeliverPurchase
  <2>2. CASE SetPurchase(o, Failed(o)) /\ GiveBack(IF purchase[o].holds THEN 1 ELSE 0)
    <3>1. Failed(o) \in OrderRecord /\ ~Failed(o).holds /\ OrderKnown(o)'
      BY <1>a, <1>d, <1>8, <2>2 DEF DeliverPurchase
    <3> QED BY <1>8, <2>2, <3>1, <1>e DEF DeliverPurchase
  <2>3. CASE SetPurchase(o, given) /\ GiveBack(IF purchase[o].holds THEN 1 ELSE 0)
    <3>1. given \in OrderRecord /\ ~given.holds
      BY <1>a DEF OrderRecord, Step, PurchaseStatus
    <3>2. OrderKnown(o)'
      BY <1>a, <1>8, <2>3 DEF DeliverPurchase, SetPurchase, OrderKnown, OrderRecord
    <3> QED BY <1>8, <2>3, <3>1, <3>2, <1>e DEF DeliverPurchase
  <2> QED BY <1>8, <2>1, <2>2, <2>3 DEF DeliverPurchase
<1>9. ASSUME NEW o \in Purchase, SettleInline(o) PROVE UsesInv'
  <2> DEFINE delivered == [purchase[o] EXCEPT !.status = "delivered", !.step = "idle",
                                              !.holds = TRUE]
             cancelled == [purchase[o] EXCEPT !.status = "cancelled", !.step = "idle"]
             left == [purchase[o] EXCEPT !.step = "idle"]
  <2>1. /\ delivered \in OrderRecord /\ cancelled \in OrderRecord /\ left \in OrderRecord
        /\ cancelled.holds = purchase[o].holds /\ left.holds = purchase[o].holds
        /\ delivered.holds
    BY <1>a DEF OrderRecord, Step, PurchaseStatus
  <2>2. UNCHANGED <<pages, wronglyBack>> /\ purchase[o].step = "claim"
    BY <1>9 DEF SettleInline
  <2>3. CASE SetPurchase(o, delivered) /\ uses < MaxUses /\ uses' = uses + 1
    <3>1. OrderKnown(o)'
      BY <1>a, <1>9, <2>2, <2>3 DEF SettleInline, SetPurchase, OrderKnown, OrderRecord
    <3>2. uses' \in 0..MaxUses /\ wronglyBack' \in Nat
            /\ uses' + wronglyBack' = uses + wronglyBack + 1
      BY <1>a, <2>2, <2>3
    <3> QED BY <2>1, <2>2, <2>3, <3>1, <3>2, OneOrder
  <2>4. CASE SetPurchase(o, cancelled) /\ uses' = uses
    <3>1. OrderKnown(o)'
      BY <1>a, <2>2, <2>4 DEF SetPurchase, OrderKnown, OrderRecord
    <3> QED BY <1>a, <2>1, <2>2, <2>4, <3>1, NoUseMoves
  <2>5. CASE SetPurchase(o, left) /\ uses' = uses
    <3>1. OrderKnown(o)'
      BY <1>a, <2>2, <2>5 DEF SetPurchase, OrderKnown, OrderRecord
    <3> QED BY <1>a, <2>1, <2>2, <2>5, <3>1, NoUseMoves
  <2> QED BY <1>9, <2>3, <2>4, <2>5 DEF SettleInline
<1>10. ASSUME NEW o \in Purchase, ReadPage(o) PROVE UsesInv'
  <2>1. Holder' = Holder
    BY <1>10 DEF ReadPage, Holder
  <2>2. \A p \in Purchase : OrderKnown(p)'
    BY <1>a, <1>10 DEF ReadPage, OrderKnown
  <2> QED BY <1>10, <2>1, <2>2 DEF ReadPage, UsesInv, IntakeTypes
<1>11. ASSUME NEW o \in Purchase, WritePage(o) PROVE UsesInv'
  <2> DEFINE r == [purchase[o] EXCEPT !.status = "cancelled"]
  <2>1. r \in OrderRecord /\ SetPurchase(o, r) /\ r.holds = purchase[o].holds
    BY <1>a, <1>11 DEF WritePage, OrderRecord, PurchaseStatus
  <2>2. OrderKnown(o)'
    BY <1>a, <1>11 DEF WritePage, SetPurchase, OrderKnown, OrderRecord
  <2> QED BY <1>a, <1>11, <2>1, <2>2, NoUseMoves DEF WritePage
<1>12. ASSUME NEW o \in Purchase, CancelInline(o) PROVE UsesInv'
  <2>1. purchase' \in [Purchase -> OrderRecord]
    <3>1. \A p \in Purchase : [purchase[p] EXCEPT !.status = "cancelled"] \in OrderRecord
      BY <1>a DEF OrderRecord, PurchaseStatus
    <3>2. purchase' = [p \in Purchase |->
            IF p = o \/ (purchase[p].channel = "inline" /\ purchase[p].status = "waiting_payment")
              THEN [purchase[p] EXCEPT !.status = "cancelled"] ELSE purchase[p]]
      BY <1>12 DEF CancelInline
    <3> QED BY <1>a, <3>1, <3>2
  <2>2. \A p \in Purchase : purchase'[p].holds = purchase[p].holds
    BY <1>a, <1>12 DEF CancelInline, OrderRecord
  <2>3. \A p \in Purchase : OrderKnown(p)'
    BY <1>a, <1>12 DEF CancelInline, OrderKnown, OrderRecord
  <2> QED BY <1>12, <2>1, <2>2, <2>3, ManyOrders DEF CancelInline
<1>13. ASSUME NEW o \in Purchase, CancelUnpaidPurchase(o) PROVE UsesInv'
  <2> DEFINE r == [purchase[o] EXCEPT !.status = "cancelled"]
  <2>1. r \in OrderRecord /\ SetPurchase(o, r) /\ r.holds = purchase[o].holds
    BY <1>a, <1>13 DEF CancelUnpaidPurchase, OrderRecord, PurchaseStatus
  <2>2. OrderKnown(o)'
    BY <1>a, <1>13 DEF CancelUnpaidPurchase, SetPurchase, OrderKnown, OrderRecord
  <2> QED BY <1>a, <1>13, <2>1, <2>2, NoUseMoves DEF CancelUnpaidPurchase
<1>14. ASSUME NEW o \in Purchase, CrashIntake(o) PROVE UsesInv'
  <2> DEFINE r == [purchase[o] EXCEPT !.step = "dead"]
  <2>1. r \in OrderRecord /\ SetPurchase(o, r) /\ r.holds = purchase[o].holds
    BY <1>a, <1>14 DEF CrashIntake, OrderRecord, Step
  <2>2. OrderKnown(o)'
    BY <1>a, <1>14 DEF CrashIntake, SetPurchase, OrderKnown, OrderRecord
  <2> QED BY <1>a, <1>14, <2>1, <2>2, NoUseMoves DEF CrashIntake
<1>15. ASSUME NEW o \in Purchase, RecoverPurchase(o) PROVE UsesInv'
  <2> DEFINE r == [purchase[o] EXCEPT !.status = "delivered", !.step = "idle",
                     !.unused = @ \/ (purchase[o].code /\ ~purchase[o].holds)]
  <2>1. CASE purchase[o].linked
    <3>1. SetPurchase(o, r) /\ UNCHANGED <<uses, pages, wronglyBack>>
      BY <1>15, <2>1 DEF RecoverPurchase
    <3>2. r \in OrderRecord /\ r.holds = purchase[o].holds
      BY <1>a DEF OrderRecord, Step, PurchaseStatus
    <3>3. OrderKnown(o)'
      BY <1>a, <2>1, <3>1 DEF SetPurchase, OrderKnown, OrderRecord
    <3> QED BY <1>a, <3>1, <3>2, <3>3, NoUseMoves
  <2>2. CASE ~purchase[o].linked
    <3>1. /\ SetPurchase(o, Failed(o)) /\ pages' = pages
          /\ GiveBack(IF purchase[o].code THEN 1 ELSE 0)
          /\ wronglyBack' = IF purchase[o].code /\ ~purchase[o].holds /\ uses > 0
                              THEN wronglyBack + 1 ELSE wronglyBack
      BY <1>15, <2>2 DEF RecoverPurchase
    <3>2. Failed(o) \in OrderRecord /\ ~Failed(o).holds /\ OrderKnown(o)'
      BY <1>a, <1>d, <1>15, <2>2, <3>1 DEF RecoverPurchase
    <3>3. CASE purchase[o].code
      <4>1. CASE purchase[o].holds
        <5>1. wronglyBack' = wronglyBack
          BY <3>1, <4>1
        <5> QED BY <1>a, <3>1, <3>2, <3>3, <4>1, <5>1, <1>e
      <4>2. CASE ~purchase[o].holds /\ uses > 0
        <5>1. uses' = uses - 1 /\ wronglyBack' = wronglyBack + 1
          BY <1>a, <3>1, <3>3, <4>2, GiveBackValue
        <5>2. uses' \in 0..MaxUses /\ wronglyBack' \in Nat
                /\ uses' + wronglyBack' = uses + wronglyBack
          BY <1>a, <4>2, <5>1
        <5> QED BY <3>1, <3>2, <5>2, OneOrder
      <4>3. CASE ~purchase[o].holds /\ uses = 0
        <5>1. uses' = uses /\ wronglyBack' = wronglyBack
          BY <1>a, <3>1, <3>3, <4>3, GiveBackValue
        <5> QED BY <3>1, <3>2, <5>1, NoUseMoves
      <4> QED BY <1>a, <4>1, <4>2, <4>3
    <3>4. CASE ~purchase[o].code
      <4>1. uses' = uses /\ wronglyBack' = wronglyBack
        BY <1>a, <3>1, <3>4, GiveBackValue
      <4> QED BY <1>a, <3>1, <3>2, <3>4, <4>1, NoUseMoves
    <3> QED BY <3>3, <3>4
  <2> QED BY <2>1, <2>2
<1>16. CASE UNCHANGED intakeVars
  BY <1>16 DEF intakeVars, UsesInv, IntakeTypes, OrderKnown, Holder
<1> QED
  BY <1>1, <1>2, <1>3, <1>4, <1>5, <1>6, <1>7, <1>8, <1>9, <1>10, <1>11, <1>12, <1>13, <1>14,
     <1>15, <1>16 DEF IntakeNext, Settle

(* No more orders are delivered with a use of the code than it has, for any
   number of orders, uses and mishaps; those that got none are left aside. *)
THEOREM CodeIsNotOversold == IntakeSpec => []CodeNotOversold
<1>1. UsesInv /\ [IntakeNext]_intakeVars => UsesInv'
  BY UsesStep
<1>2. UsesInv => CodeNotOversold
  <2> SUFFICES ASSUME UsesInv PROVE CodeNotOversold
    OBVIOUS
  <2> DEFINE sold == {o \in Purchase : /\ purchase[o].code /\ purchase[o].status = "delivered"
                                      /\ ~purchase[o].unused}
  <2>1. sold \subseteq Holder
    BY DEF UsesInv, OrderKnown, Holder
  <2>2. IsFiniteSet(sold) /\ Cardinality(sold) <= Cardinality(Holder)
    BY <2>1, FS_Subset DEF UsesInv
  <2>3. /\ Cardinality(sold) \in Nat /\ Cardinality(Holder) \in Nat
        /\ uses \in 0..MaxUses /\ wronglyBack \in Nat
    BY <2>2, FS_CardinalityType DEF UsesInv, IntakeTypes
  <2> QED BY <2>2, <2>3, IntakeAssumption DEF UsesInv, CodeNotOversold
<1> QED BY <1>1, <1>2, UsesStart, PTL DEF IntakeSpec

-----------------------------------------------------------------------------
(* The server bridge. A node is about to try a request, for the first or the
   second time. *)
Trying(n, r) == \E a \in Attempt : job[n][r][a] # 0

(* A process that took a request remembers it as long as it would take it. *)
Remembers(n, r) ==
  \/ seen[n][r] # NotSeen /\ seen[n][r] + Window >= signed[r]
  \/ clock > signed[r] + Window

MemoryInv ==
  /\ BridgeTypeOK
  /\ \A r \in BridgeRequest : heard[r] # {} => signed[r] # NotSeen
  /\ \A r \in BridgeRequest : \A p \in heard[r] : p[2] <= life[p[1]]
  /\ \A n \in BridgeNode, r \in BridgeRequest :
       /\ <<n, life[n]>> \in heard[r] => Remembers(n, r)
       /\ \A a \in Attempt : job[n][r][a] \in {0, 1}
       /\ job[n][r]["first"] = 0 \/ job[n][r]["second"] = 0
       /\ Trying(n, r) => <<n, life[n]>> \in heard[r]

Busy(r) == {n \in BridgeNode : Trying(n, r)}

(* A request has had its effect, or may still have it, once for each process
   that took it. *)
CountInv ==
  \A r \in BridgeRequest :
    /\ IsFiniteSet(heard[r]) /\ IsFiniteSet(Busy(r))
    /\ effects[r] + Cardinality(Busy(r)) <= Cardinality(heard[r]) + late[r]

(* Every step keeps the variables in their types. *)
LEMMA BridgeTypes ==
  ASSUME BridgeTypeOK, [BridgeNext]_bridgeVars PROVE BridgeTypeOK'
<1> USE BridgeAssumption DEF BridgeTypeOK, Attempt
<1>1. CASE TickBridge
  BY <1>1 DEF TickBridge
<1>2. ASSUME NEW r \in BridgeRequest, NEW ts \in 0..MaxTime, SignRequest(r, ts) PROVE BridgeTypeOK'
  BY <1>2 DEF SignRequest
<1>3. ASSUME NEW n \in BridgeNode, RestartBridge(n) PROVE BridgeTypeOK'
  BY <1>3 DEF RestartBridge, NoJob
<1>5. \A n \in BridgeNode : Remembered(n) \in [BridgeRequest -> 0..MaxTime \cup {NotSeen}]
  BY DEF Remembered
<1>6. ASSUME NEW n \in BridgeNode, NEW r \in BridgeRequest, TakeRequest(n, r) PROVE BridgeTypeOK'
  BY <1>5, <1>6 DEF TakeRequest
<1>7. ASSUME NEW n \in BridgeNode, NEW r \in BridgeRequest, RefuseReplay(n, r) PROVE BridgeTypeOK'
  BY <1>5, <1>7 DEF RefuseReplay
<1>8. ASSUME NEW n \in BridgeNode, NEW r \in BridgeRequest, TryFirst(n, r) PROVE BridgeTypeOK'
  <2> DEFINE once == Ends(n, r, "first")
             again == [once EXCEPT ![n][r]["second"] = @ + 1]
  <2>1. once \in [BridgeNode -> [BridgeRequest -> [Attempt -> Nat]]]
    BY <1>8 DEF TryFirst, Ends
  <2>2. again \in [BridgeNode -> [BridgeRequest -> [Attempt -> Nat]]]
    <3> HIDE DEF once
    <3> QED BY <2>1
  <2>3. job' \in {once, again}
    BY <1>8 DEF TryFirst
  <2>4. job' \in [BridgeNode -> [BridgeRequest -> [Attempt -> Nat]]]
    BY <2>1, <2>2, <2>3
  <2> HIDE DEF once, again
  <2>5. effects' \in [BridgeRequest -> Nat] /\ late' \in [BridgeRequest -> Nat]
    BY <1>8 DEF TryFirst
  <2> QED BY <1>8, <2>4, <2>5 DEF TryFirst
<1>9. ASSUME NEW n \in BridgeNode, NEW r \in BridgeRequest, TrySecond(n, r) PROVE BridgeTypeOK'
  BY <1>9 DEF TrySecond, Ends
<1>10. CASE UNCHANGED bridgeVars
  BY <1>10 DEF bridgeVars
<1> HIDE DEF BridgeTypeOK
<1> QED BY <1>1, <1>2, <1>3, <1>6, <1>7, <1>8, <1>9, <1>10 DEF BridgeNext

(* Nothing was signed. *)
LEMMA BridgeStart == BridgeInit => MemoryInv /\ CountInv
<1> SUFFICES ASSUME BridgeInit PROVE MemoryInv /\ CountInv
  OBVIOUS
<1>1. BridgeTypeOK
  BY BridgeAssumption DEF BridgeInit, BridgeTypeOK, NoJob, Attempt
<1>2. \A n \in BridgeNode, r \in BridgeRequest, a \in Attempt : job[n][r][a] = 0
  BY DEF BridgeInit, NoJob
<1>3. MemoryInv
  BY <1>1, <1>2 DEF BridgeInit, MemoryInv, Trying, Attempt
<1>4. ASSUME NEW r \in BridgeRequest
      PROVE  /\ IsFiniteSet(heard[r]) /\ IsFiniteSet(Busy(r))
             /\ effects[r] + Cardinality(Busy(r)) <= Cardinality(heard[r]) + late[r]
  <2>1. heard[r] = {} /\ Busy(r) = {} /\ effects[r] = 0 /\ late[r] = 0
    BY <1>2 DEF BridgeInit, Busy, Trying
  <2> QED BY <2>1, FS_EmptySet
<1> QED BY <1>3, <1>4 DEF CountInv


(* What the cache drops, its process would no longer take. *)
LEMMA DropsNoneTooEarly ==
  ASSUME MemoryInv, NEW n \in BridgeNode, NEW r \in BridgeRequest, <<n, life[n]>> \in heard[r]
  PROVE  /\ \/ Remembered(n)[r] # NotSeen /\ Remembered(n)[r] + Window >= signed[r]
            \/ clock > signed[r] + Window
         /\ Timely(r) => Remembered(n)[r] # NotSeen
<1> USE BridgeAssumption DEF MemoryInv, BridgeTypeOK
<1>1. signed[r] \in Nat /\ clock \in Nat /\ seen[n][r] \in Nat \cup {NotSeen}
  BY DEF Remembers
<1>2. \/ seen[n][r] # NotSeen /\ seen[n][r] + Window >= signed[r]
      \/ clock > signed[r] + Window
  BY DEF Remembers
<1>3. CASE clock > signed[r] + Window
  <2>1. ~Timely(r)
    BY <1>1, <1>3 DEF Timely
  <2> QED BY <1>3, <2>1
<1>4. CASE ~(clock > signed[r] + Window)
  <2>1. seen[n][r] # NotSeen /\ seen[n][r] + Window >= signed[r] /\ seen[n][r] \in Nat
    BY <1>1, <1>2, <1>4
  <2>2. clock <= signed[r] + Window
    BY <1>1, <1>4
  <2>3. seen[n][r] >= clock - 2 * Window
    BY <1>1, <2>1, <2>2
  <2>4. Remembered(n)[r] = seen[n][r]
    BY <2>1, <2>3 DEF Remembered
  <2> QED BY <2>1, <2>4
<1> QED BY <1>3, <1>4

(* A process that takes a request has not taken it before. *)
LEMMA TakesOnce ==
  ASSUME MemoryInv, NEW n \in BridgeNode, NEW r \in BridgeRequest, TakeRequest(n, r)
  PROVE  <<n, life[n]>> \notin heard[r] /\ ~Trying(n, r)
BY DropsNoneTooEarly DEF TakeRequest, MemoryInv

(* What a try does to the node's part in the request. *)
LEMMA TryResult ==
  ASSUME MemoryInv, NEW n \in BridgeNode, NEW r \in BridgeRequest, TryFirst(n, r) \/ TrySecond(n, r)
  PROVE  /\ Trying(n, r)
         /\ \A m \in BridgeNode, q \in BridgeRequest : m # n \/ q # r => job'[m][q] = job[m][q]
         /\ \A a \in Attempt : job'[n][r][a] \in {0, 1}
         /\ job'[n][r]["first"] = 0
         /\ \/ job'[n][r]["second"] = 0 /\ late' = late
            \/ job'[n][r]["second"] = 1 /\ UNCHANGED <<effects, late>>
            \/ job'[n][r]["second"] = 1 /\ effects' = [effects EXCEPT ![r] = @ + 1]
                 /\ late' = [late EXCEPT ![r] = @ + 1]
         /\ effects' = effects \/ effects' = [effects EXCEPT ![r] = @ + 1]
<1> USE DEF MemoryInv, BridgeTypeOK, Attempt
<1>a. /\ job[n][r]["first"] \in {0, 1} /\ job[n][r]["second"] \in {0, 1}
      /\ job[n][r]["first"] = 0 \/ job[n][r]["second"] = 0
  OBVIOUS
<1>1. CASE TrySecond(n, r)
  <2>1. job[n][r]["second"] = 1 /\ job[n][r]["first"] = 0
    BY <1>1, <1>a DEF TrySecond
  <2> QED BY <1>1, <2>1 DEF TrySecond, Trying, Ends
<1>2. CASE TryFirst(n, r)
  <2>1. job[n][r]["first"] = 1 /\ job[n][r]["second"] = 0
    BY <1>2, <1>a DEF TryFirst
  <2>2. Trying(n, r)
    BY <2>1 DEF Trying
  <2>3. CASE job' = Ends(n, r, "first") /\ late' = late
    <3>1. effects' = [effects EXCEPT ![r] = @ + 1] \/ effects' = effects
      BY <1>2 DEF TryFirst
    <3> QED BY <2>1, <2>2, <2>3, <3>1 DEF Ends
  <2>4. CASE /\ job' = [Ends(n, r, "first") EXCEPT ![n][r]["second"] = @ + 1]
             /\ \/ UNCHANGED <<effects, late>>
                \/ /\ effects' = [effects EXCEPT ![r] = @ + 1]
                   /\ late' = [late EXCEPT ![r] = @ + 1]
    <3>1. /\ job'[n][r]["first"] = 0 /\ job'[n][r]["second"] = 1
          /\ \A m \in BridgeNode, q \in BridgeRequest : m # n \/ q # r => job'[m][q] = job[m][q]
      BY <2>1, <2>4 DEF Ends
    <3> QED BY <2>2, <2>4, <3>1
  <2> QED BY <1>2, <2>3, <2>4 DEF TryFirst
<1> QED BY <1>1, <1>2

(* No step makes a process forget too early, or try what it has not taken. *)
LEMMA MemoryStep ==
  ASSUME MemoryInv, [BridgeNext]_bridgeVars PROVE MemoryInv'
<1> USE BridgeAssumption
<1>1. BridgeTypeOK /\ BridgeTypeOK'
  BY BridgeTypes DEF MemoryInv
<1>2. CASE TickBridge
  <2>1. UNCHANGED <<signed, seen, job, life, heard>> /\ clock' = clock + 1
    BY <1>2 DEF TickBridge
  <2>2. ASSUME NEW n \in BridgeNode, NEW r \in BridgeRequest, <<n, life'[n]>> \in heard'[r]
        PROVE  Remembers(n, r)'
    <3>1. Remembers(n, r) /\ signed[r] # NotSeen
      BY <2>1, <2>2 DEF MemoryInv
    <3>2. signed[r] \in Nat /\ clock \in Nat /\ clock' \in Nat
      BY <1>1, <3>1 DEF BridgeTypeOK
    <3> QED BY <2>1, <3>1, <3>2 DEF Remembers
  <2> QED BY <1>1, <2>1, <2>2 DEF MemoryInv, Trying
<1>3. ASSUME NEW r \in BridgeRequest, NEW ts \in 0..MaxTime, SignRequest(r, ts) PROVE MemoryInv'
  <2>1. heard[r] = {}
    BY <1>3 DEF SignRequest, MemoryInv
  <2>2. UNCHANGED <<clock, seen, job, life, heard>>
    BY <1>3 DEF SignRequest
  <2>3. \A q \in BridgeRequest : q # r => signed'[q] = signed[q]
    BY <1>1, <1>3 DEF SignRequest, BridgeTypeOK
  <2>4. \A q \in BridgeRequest : heard'[q] # {} => signed'[q] # NotSeen
    BY <2>1, <2>2, <2>3 DEF MemoryInv
  <2>5. \A n \in BridgeNode, q \in BridgeRequest : <<n, life'[n]>> \in heard'[q] => Remembers(n, q)'
    BY <2>1, <2>2, <2>3 DEF MemoryInv, Remembers
  <2>6. \A q \in BridgeRequest : \A p \in heard'[q] : p[2] <= life'[p[1]]
    BY <2>2 DEF MemoryInv
  <2>7. \A n \in BridgeNode, q \in BridgeRequest :
          /\ \A a \in Attempt : job'[n][q][a] \in {0, 1}
          /\ job'[n][q]["first"] = 0 \/ job'[n][q]["second"] = 0
          /\ Trying(n, q)' => <<n, life'[n]>> \in heard'[q]
    BY <2>2 DEF MemoryInv, Trying
  <2> QED BY <1>1, <2>4, <2>5, <2>6, <2>7 DEF MemoryInv
<1>4. ASSUME NEW n \in BridgeNode, RestartBridge(n) PROVE MemoryInv'
  <2>1. \A r \in BridgeRequest : <<n, life'[n]>> \notin heard[r]
    BY <1>1, <1>4 DEF RestartBridge, MemoryInv, BridgeTypeOK
  <2>2. \A r \in BridgeRequest, a \in Attempt : job'[n][r][a] = 0
    BY <1>1, <1>4 DEF RestartBridge, NoJob, BridgeTypeOK
  <2>3. \A m \in BridgeNode : m # n => job'[m] = job[m] /\ seen'[m] = seen[m] /\ life'[m] = life[m]
    BY <1>1, <1>4 DEF RestartBridge, BridgeTypeOK
  <2>4. \A r \in BridgeRequest : \A p \in heard[r] : p[2] <= life'[p[1]]
    BY <1>1, <1>4 DEF RestartBridge, MemoryInv, BridgeTypeOK
  <2>5. UNCHANGED <<clock, signed, heard>>
    BY <1>4 DEF RestartBridge
  <2> QED BY <1>1, <2>1, <2>2, <2>3, <2>4, <2>5 DEF MemoryInv, Remembers, Trying, Attempt
<1>5. ASSUME NEW n \in BridgeNode, NEW r \in BridgeRequest,
             seen' = [seen EXCEPT ![n] = Remembered(n)]
               \/ seen' = [seen EXCEPT ![n] = [Remembered(n) EXCEPT ![r] = clock]],
             UNCHANGED <<clock, signed, life>>,
             NEW m \in BridgeNode, NEW q \in BridgeRequest, <<m, life[m]>> \in heard[q],
             Timely(r)
      PROVE  Remembers(m, q)'
  <2>1. CASE m # n
    BY <1>1, <1>5, <2>1 DEF MemoryInv, Remembers, BridgeTypeOK
  <2>2. CASE m = n /\ seen'[n][q] = Remembered(n)[q]
    BY <1>5, <2>2, DropsNoneTooEarly DEF Remembers
  <2>3. CASE m = n /\ q = r /\ seen'[n][r] = clock
    <3>1. clock \in Nat /\ signed[r] \in Nat /\ clock + Window >= signed[r]
      BY <1>1, <1>5 DEF Timely, BridgeTypeOK
    <3> QED BY <1>5, <2>3, <3>1 DEF Remembers
  <2>4. ASSUME m = n PROVE seen'[n][q] = Remembered(n)[q] \/ (q = r /\ seen'[n][r] = clock)
    <3>1. seen'[n] \in {Remembered(n), [Remembered(n) EXCEPT ![r] = clock]}
      BY <1>1, <1>5 DEF BridgeTypeOK
    <3>2. Remembered(n) = [x \in BridgeRequest |-> Remembered(n)[x]]
      BY DEF Remembered
    <3> QED BY <3>1, <3>2
  <2> QED BY <2>1, <2>2, <2>3, <2>4
<1>6. ASSUME NEW n \in BridgeNode, NEW r \in BridgeRequest, TakeRequest(n, r) PROVE MemoryInv'
  <2>1. ~Trying(n, r) /\ UNCHANGED <<clock, signed, life>> /\ Timely(r)
    BY <1>6, TakesOnce DEF TakeRequest
  <2>2. /\ \A m \in BridgeNode, q \in BridgeRequest : m # n \/ q # r => job'[m][q] = job[m][q]
        /\ job'[n][r]["first"] = 1 /\ job'[n][r]["second"] = 0
    BY <1>1, <1>6, <2>1 DEF TakeRequest, Trying, Attempt, BridgeTypeOK
  <2>3. heard' = [heard EXCEPT ![r] = @ \cup {<<n, life[n]>>}]
    BY <1>6 DEF TakeRequest
  <2>4. \A q \in BridgeRequest : heard'[q] # {} => signed'[q] # NotSeen
    BY <1>1, <2>1, <2>3 DEF MemoryInv, Timely, BridgeTypeOK
  <2>5. \A q \in BridgeRequest : \A p \in heard'[q] : p[2] <= life'[p[1]]
    BY <1>1, <2>1, <2>3 DEF MemoryInv, BridgeTypeOK
  <2>6. ASSUME NEW m \in BridgeNode, NEW q \in BridgeRequest, <<m, life'[m]>> \in heard'[q]
        PROVE  Remembers(m, q)'
    <3>1. CASE <<m, life[m]>> \in heard[q]
      BY <1>5, <1>6, <2>1, <3>1 DEF TakeRequest
    <3>2. CASE m = n /\ q = r
      <4>1. clock \in Nat /\ signed[r] \in Nat /\ clock + Window >= signed[r]
        BY <1>1, <2>1 DEF Timely, BridgeTypeOK
      <4>2. seen'[n][r] = clock
        BY <1>1, <1>6 DEF TakeRequest, BridgeTypeOK, Remembered
      <4> QED BY <2>1, <3>2, <4>1, <4>2 DEF Remembers
    <3> QED BY <1>1, <2>1, <2>3, <2>6, <3>1, <3>2 DEF BridgeTypeOK
  <2>7. ASSUME NEW m \in BridgeNode, NEW q \in BridgeRequest
        PROVE  /\ \A a \in Attempt : job'[m][q][a] \in {0, 1}
               /\ job'[m][q]["first"] = 0 \/ job'[m][q]["second"] = 0
               /\ Trying(m, q)' => <<m, life'[m]>> \in heard'[q]
    <3>1. CASE m = n /\ q = r
      BY <1>1, <2>1, <2>2, <2>3, <3>1 DEF Attempt, BridgeTypeOK
    <3>2. CASE m # n \/ q # r
      BY <1>1, <2>1, <2>2, <2>3, <3>2 DEF MemoryInv, Trying, BridgeTypeOK
    <3> QED BY <3>1, <3>2
  <2> QED BY <1>1, <2>4, <2>5, <2>6, <2>7 DEF MemoryInv
<1>7. ASSUME NEW n \in BridgeNode, NEW r \in BridgeRequest, RefuseReplay(n, r) PROVE MemoryInv'
  <2>1. \A m \in BridgeNode, q \in BridgeRequest : <<m, life[m]>> \in heard[q] => Remembers(m, q)'
    BY <1>5, <1>7 DEF RefuseReplay
  <2> QED BY <1>1, <1>7, <2>1 DEF RefuseReplay, MemoryInv, Trying
<1>8. ASSUME NEW n \in BridgeNode, NEW r \in BridgeRequest, TryFirst(n, r) \/ TrySecond(n, r)
      PROVE  MemoryInv'
  <2>1. UNCHANGED <<clock, signed, seen, life, heard>>
    BY <1>8 DEF TryFirst, TrySecond
  <2>2. ASSUME NEW m \in BridgeNode, NEW q \in BridgeRequest
        PROVE  /\ \A a \in Attempt : job'[m][q][a] \in {0, 1}
               /\ job'[m][q]["first"] = 0 \/ job'[m][q]["second"] = 0
               /\ Trying(m, q)' => Trying(m, q)
    <3>1. CASE m = n /\ q = r
      BY <1>8, <3>1, TryResult
    <3>2. CASE m # n \/ q # r
      <4>1. job'[m][q] = job[m][q]
        BY <1>8, <3>2, TryResult
      <4> QED BY <4>1 DEF MemoryInv, Trying
    <3> QED BY <3>1, <3>2
  <2> QED BY <1>1, <2>1, <2>2 DEF MemoryInv, Remembers
<1>9. CASE UNCHANGED bridgeVars
  BY <1>9 DEF bridgeVars, MemoryInv, Remembers, Trying, BridgeTypeOK
<1> QED BY <1>2, <1>3, <1>4, <1>6, <1>7, <1>8, <1>9 DEF BridgeNext

(* Counting: a set that loses or gains a member, an effect more. *)
LEMMA Counts ==
  ASSUME NEW B, NEW H, IsFiniteSet(B), IsFiniteSet(H), NEW e \in Nat, NEW l \in Nat,
         e + Cardinality(B) <= Cardinality(H) + l
  PROVE  /\ \A C \in SUBSET B : IsFiniteSet(C) /\ e + Cardinality(C) <= Cardinality(H) + l
         /\ \A n \in B : /\ IsFiniteSet(B \ {n})
                         /\ (e + 1) + Cardinality(B \ {n}) <= Cardinality(H) + l
         /\ (e + 1) + Cardinality(B) <= Cardinality(H) + (l + 1)
         /\ \A n, p : n \notin B /\ p \notin H =>
              /\ IsFiniteSet(B \cup {n}) /\ IsFiniteSet(H \cup {p})
              /\ e + Cardinality(B \cup {n}) <= Cardinality(H \cup {p}) + l
<1>1. Cardinality(B) \in Nat /\ Cardinality(H) \in Nat
  BY FS_CardinalityType
<1>2. ASSUME NEW C \in SUBSET B
      PROVE  IsFiniteSet(C) /\ e + Cardinality(C) <= Cardinality(H) + l
  <2>1. IsFiniteSet(C) /\ Cardinality(C) <= Cardinality(B) /\ Cardinality(C) \in Nat
    BY FS_Subset, FS_CardinalityType
  <2> QED BY <1>1, <2>1
<1>3. ASSUME NEW n \in B
      PROVE  IsFiniteSet(B \ {n}) /\ (e + 1) + Cardinality(B \ {n}) <= Cardinality(H) + l
  <2>1. IsFiniteSet(B \ {n}) /\ Cardinality(B \ {n}) = Cardinality(B) - 1
    BY FS_RemoveElement
  <2> QED BY <1>1, <2>1
<1>4. ASSUME NEW n, NEW p, n \notin B, p \notin H
      PROVE  /\ IsFiniteSet(B \cup {n}) /\ IsFiniteSet(H \cup {p})
             /\ e + Cardinality(B \cup {n}) <= Cardinality(H \cup {p}) + l
  <2>1. /\ IsFiniteSet(B \cup {n}) /\ Cardinality(B \cup {n}) = Cardinality(B) + 1
        /\ IsFiniteSet(H \cup {p}) /\ Cardinality(H \cup {p}) = Cardinality(H) + 1
    BY <1>4, FS_AddElement
  <2> QED BY <1>1, <2>1
<1>5. (e + 1) + Cardinality(B) <= Cardinality(H) + (l + 1)
  BY <1>1
<1> QED BY <1>2, <1>3, <1>4, <1>5

(* What CountInv says of one request. *)
Counted(r) ==
  /\ IsFiniteSet(heard[r]) /\ IsFiniteSet(Busy(r))
  /\ effects[r] + Cardinality(Busy(r)) <= Cardinality(heard[r]) + late[r]

(* No step has more effects than processes took the request and first tries
   failed late. *)
LEMMA CountStep ==
  ASSUME MemoryInv, CountInv, [BridgeNext]_bridgeVars, NEW q \in BridgeRequest
  PROVE  Counted(q)'
<1>1. Counted(q) /\ effects[q] \in Nat /\ late[q] \in Nat
  BY DEF CountInv, Counted, MemoryInv, BridgeTypeOK
<1>2. ASSUME Busy(q)' \subseteq Busy(q), heard'[q] = heard[q], effects'[q] = effects[q],
             late'[q] = late[q]
      PROVE  Counted(q)'
  BY <1>1, <1>2, Counts DEF Counted
<1>3. ASSUME UNCHANGED <<job, heard, effects, late>> PROVE Counted(q)'
  BY <1>2, <1>3 DEF Busy, Trying
<1>4. CASE TickBridge
  BY <1>3, <1>4 DEF TickBridge
<1>5. ASSUME NEW r \in BridgeRequest, NEW ts \in 0..MaxTime, SignRequest(r, ts) PROVE Counted(q)'
  BY <1>3, <1>5 DEF SignRequest
<1>6. ASSUME NEW n \in BridgeNode, RestartBridge(n) PROVE Counted(q)'
  <2>1. \A a \in Attempt : job'[n][q][a] = 0
    BY <1>6 DEF RestartBridge, NoJob, MemoryInv, BridgeTypeOK
  <2>2. \A m \in BridgeNode : m # n => job'[m] = job[m]
    BY <1>6 DEF RestartBridge, MemoryInv, BridgeTypeOK
  <2>3. Busy(q)' \subseteq Busy(q)
    BY <2>1, <2>2 DEF Busy, Trying
  <2> QED BY <1>2, <1>6, <2>3 DEF RestartBridge
<1>7. ASSUME NEW n \in BridgeNode, NEW r \in BridgeRequest, TakeRequest(n, r) PROVE Counted(q)'
  <2>1. <<n, life[n]>> \notin heard[r] /\ ~Trying(n, r) /\ UNCHANGED <<effects, late>>
    BY <1>7, TakesOnce DEF TakeRequest
  <2>2. /\ \A m \in BridgeNode, x \in BridgeRequest : m # n \/ x # r => job'[m][x] = job[m][x]
        /\ job'[n][r]["first"] = 1
    BY <1>7, <2>1 DEF TakeRequest, Trying, Attempt, MemoryInv, BridgeTypeOK
  <2>3. CASE q = r
    <3>1. Busy(q)' = Busy(q) \cup {n} /\ n \notin Busy(q)
      BY <2>1, <2>2, <2>3 DEF Busy, Trying, Attempt
    <3>2. heard'[q] = heard[q] \cup {<<n, life[n]>>}
      BY <1>7, <2>3 DEF TakeRequest, MemoryInv, BridgeTypeOK
    <3>3. <<n, life[n]>> \notin heard[q] /\ effects' = effects /\ late' = late
      BY <2>1, <2>3
    <3>4. /\ IsFiniteSet(Busy(q) \cup {n}) /\ IsFiniteSet(heard[q] \cup {<<n, life[n]>>})
          /\ effects[q] + Cardinality(Busy(q) \cup {n})
               <= Cardinality(heard[q] \cup {<<n, life[n]>>}) + late[q]
      BY <1>1, <3>1, <3>3, Counts DEF Counted
    <3> QED BY <3>1, <3>2, <3>3, <3>4 DEF Counted
  <2>4. CASE q # r
    <3>1. Busy(q)' = Busy(q)
      BY <2>2, <2>4 DEF Busy, Trying
    <3>2. heard'[q] = heard[q]
      BY <1>7, <2>4 DEF TakeRequest, MemoryInv, BridgeTypeOK
    <3> QED BY <1>2, <2>1, <3>1, <3>2
  <2> QED BY <2>3, <2>4
<1>8. ASSUME NEW n \in BridgeNode, NEW r \in BridgeRequest, RefuseReplay(n, r) PROVE Counted(q)'
  BY <1>3, <1>8 DEF RefuseReplay
<1>9. ASSUME NEW n \in BridgeNode, NEW r \in BridgeRequest, TryFirst(n, r) \/ TrySecond(n, r)
      PROVE  Counted(q)'
  <2>1. heard' = heard /\ Trying(n, r)
    BY <1>9, TryResult DEF TryFirst, TrySecond
  <2>2. \A m \in BridgeNode, x \in BridgeRequest : m # n \/ x # r => job'[m][x] = job[m][x]
    BY <1>9, TryResult
  <2>3. CASE q # r
    <3>1. Busy(q)' = Busy(q)
      BY <2>2, <2>3 DEF Busy, Trying
    <3>2. effects'[q] = effects[q] /\ late'[q] = late[q]
      BY <1>9, <2>3 DEF TryFirst, TrySecond, MemoryInv, BridgeTypeOK
    <3> QED BY <1>2, <2>1, <3>1, <3>2
  <2>4. CASE q = r
    <3>a. effects \in [BridgeRequest -> Nat] /\ late \in [BridgeRequest -> Nat]
      BY DEF MemoryInv, BridgeTypeOK
    <3>b. n \in Busy(q)
      BY <2>1, <2>4 DEF Busy
    <3>c. effects' = effects \/ effects' = [effects EXCEPT ![r] = @ + 1]
      BY <1>9, TryResult
    <3>1. n \in Busy(q) /\ effects'[q] \in {effects[q], effects[q] + 1}
      BY <2>4, <3>a, <3>b, <3>c
    <3>2. CASE job'[n][r]["second"] = 0
      <4>1. late'[q] = late[q]
        BY <1>9, <2>4, <3>2, TryResult
      <4>2. Busy(q)' = Busy(q) \ {n}
        <5>1. \A a \in Attempt : job'[n][r][a] = 0
          BY <1>9, <3>2, TryResult DEF Attempt
        <5> QED BY <2>2, <2>4, <5>1 DEF Busy, Trying
      <4>3. CASE effects'[q] = effects[q]
        BY <1>2, <2>1, <4>1, <4>2, <4>3
      <4>4. CASE effects'[q] = effects[q] + 1
        BY <1>1, <2>1, <3>1, <4>1, <4>2, <4>4, Counts DEF Counted
      <4> QED BY <3>1, <4>3, <4>4
    <3>3. CASE job'[n][r]["second"] = 1
      <4>1. Busy(q)' = Busy(q)
        BY <2>1, <2>2, <2>4, <3>3 DEF Busy, Trying, Attempt
      <4>2. \/ effects'[q] = effects[q] /\ late'[q] = late[q]
            \/ effects'[q] = effects[q] + 1 /\ late'[q] = late[q] + 1
        <5>1. \/ UNCHANGED <<effects, late>>
              \/ /\ effects' = [effects EXCEPT ![r] = @ + 1]
                 /\ late' = [late EXCEPT ![r] = @ + 1]
          BY <1>9, <3>3, TryResult
        <5> QED BY <2>4, <3>a, <5>1
      <4>3. CASE effects'[q] = effects[q] /\ late'[q] = late[q]
        BY <1>2, <2>1, <4>1, <4>3
      <4>4. CASE effects'[q] = effects[q] + 1 /\ late'[q] = late[q] + 1
        BY <1>1, <2>1, <4>1, <4>4, Counts DEF Counted
      <4> QED BY <4>2, <4>3, <4>4
    <3> QED BY <1>9, <3>2, <3>3, TryResult
  <2> QED BY <2>3, <2>4
<1>10. CASE UNCHANGED bridgeVars
  BY <1>3, <1>10 DEF bridgeVars
<1> QED BY <1>4, <1>5, <1>6, <1>7, <1>8, <1>9, <1>10 DEF BridgeNext

(* A request runs once for each process that takes it, and once more for a
   first try that failed late, for any number of requests, nodes and restarts
   and any window. *)
THEOREM BridgeRunsOnce == BridgeSpec => []RequestRunsOnce
<1>1. MemoryInv /\ CountInv /\ [BridgeNext]_bridgeVars => MemoryInv' /\ CountInv'
  BY MemoryStep, CountStep DEF CountInv, Counted
<1>2. MemoryInv /\ CountInv => RequestRunsOnce
  <2> SUFFICES ASSUME MemoryInv, CountInv, NEW r \in BridgeRequest
               PROVE  effects[r] <= Cardinality(heard[r]) + late[r]
    BY DEF RequestRunsOnce
  <2>1. effects[r] \in Nat /\ late[r] \in Nat /\ Counted(r)
    BY DEF MemoryInv, BridgeTypeOK, CountInv, Counted
  <2>2. Cardinality(Busy(r)) \in Nat /\ Cardinality(heard[r]) \in Nat
    BY <2>1, FS_CardinalityType DEF Counted
  <2> QED BY <2>1, <2>2 DEF Counted
<1> QED BY <1>1, <1>2, BridgeStart, PTL DEF BridgeSpec

-----------------------------------------------------------------------------
(* The addresses of an AmneziaWG node. What a thread is doing: creating a
   peer, taking one away, putting one back, or adding a device slot. *)
Creating(w) == awgJob[w].at \in Created
Removing(w) == awgJob[w].at \in {"removing", "rewriting", "inactivate"}
Slotting(w) == awgJob[w].at \in {"slot", "slotLive", "slotConf"}
UnderLock(w) == awgJob[w].at \in Locked

(* An address whose loss nothing known excuses. *)
Clear(ip) == ip < SlotFloor /\ ip \notin disturbed

(* A key with whom and which address it was made for, and the places where
   such claims are found. *)
Claims ==
  {<<peerRow[s].key, s, peerRow[s].ip>> : s \in {t \in Subscriber : peerRow[t].key # NoKey}}
  \cup {<<awgJob[w].key, awgJob[w].sub, awgJob[w].ip>> : w \in {v \in AddressJob : awgJob[v].key # NoKey}}
FilePairs == conf \cup slots \cup UNION {awgJob[w].copy : w \in AddressJob}

RowKind == [key : Nat, ip : {0} \cup Address, active : BOOLEAN]
JobKind ==
  [at : Created \cup Locked \cup {"idle", "create", "remove", "readd", "slot"},
   sub : Subscriber \cup {"none"}, key : Nat, ip : {0} \cup Address, copy : SUBSET (Nat \X Address)]
AddressTypes ==
  /\ keysMade \in Nat
  /\ peerRow \in [Subscriber -> RowKind]
  /\ awgJob \in [AddressJob -> JobKind]
  /\ conf \subseteq Nat \X Address /\ slots \subseteq Nat \X Address
  /\ \A s \in Subscriber : peerRow[s].key = NoKey <=> peerRow[s].ip = 0
  /\ \A s \in Subscriber : peerRow[s].key = NoKey => ~peerRow[s].active
  /\ \A w \in AddressJob :
       /\ awgJob[w].at \in {"idle", "create", "remove", "readd"} <=> awgJob[w].key = NoKey
       /\ awgJob[w].at \notin {"idle", "slot", "slotLive", "slotConf"} => awgJob[w].sub \in Subscriber
       /\ awgJob[w].key # NoKey => awgJob[w].ip \in Address
       /\ awgJob[w].at = "readd" => peerRow[awgJob[w].sub].key # NoKey

(* A key is made once, for one subscription and one address; the one of a
   peer that is being created is nobody else's. *)
KeysInv ==
  /\ \A c, d \in Claims : c[1] = d[1] => c = d
  /\ \A c \in Claims : c[1] <= keysMade
  /\ \A p \in FilePairs : p[1] <= keysMade
  /\ \A p \in FilePairs, c \in Claims : p[1] = c[1] => p[2] = c[3]
  /\ \A w \in AddressJob : Creating(w) =>
       /\ \A s \in Subscriber : peerRow[s].key # awgJob[w].key
       /\ \A v \in AddressJob \ {w} : awgJob[v].key # awgJob[w].key

(* Two peers have different addresses, unless that is known. *)
IpsInv ==
  /\ \A s, t \in Subscriber : peerRow[s].ip = peerRow[t].ip /\ peerRow[s].ip # 0 => s = t
  /\ \A w, v \in AddressJob :
       Creating(w) /\ Creating(v) /\ awgJob[w].ip = awgJob[v].ip /\ w # v => awgJob[w].ip \in disturbed
  /\ \A w \in AddressJob, s \in Subscriber :
       Creating(w) /\ peerRow[s].ip = awgJob[w].ip => awgJob[w].ip \in disturbed
  /\ \A w \in AddressJob : Slotting(w) => awgJob[w].ip >= SlotFloor

(* The lock of the node; who restores a peer has its row's key, unless the row
   was replaced by a new peer. *)
LockInv ==
  /\ \A w, v \in AddressJob : UnderLock(w) /\ UnderLock(v) => w = v
  /\ \A w \in AddressJob : Restoring(w) =>
       LET row == peerRow[awgJob[w].sub] IN
       /\ awgJob[w].copy \subseteq conf
       /\ row.key = awgJob[w].key \/ (row.active /\ awgJob[w].ip \in disturbed)

(* Somebody is taking the peer away that the row names. *)
RowRemoved(s) ==
  \E w \in AddressJob : Removing(w) /\ awgJob[w].sub = s /\ awgJob[w].key = peerRow[s].key

(* What is already in the interface and in the file. *)
ServedInv ==
  /\ \A s \in Subscriber : peerRow[s].active /\ Clear(peerRow[s].ip) /\ ~RowRemoved(s) =>
       <<peerRow[s].key, peerRow[s].ip>> \in kernel \cap conf
  /\ \A w \in AddressJob : Clear(awgJob[w].ip) =>
       /\ awgJob[w].at \in {"persist", "insert", "append", "reactivate"} =>
            <<awgJob[w].key, awgJob[w].ip>> \in kernel
       /\ awgJob[w].at \in {"insert", "reactivate"} => <<awgJob[w].key, awgJob[w].ip>> \in conf

AddressInv == AddressTypes /\ KeysInv /\ IpsInv /\ LockInv /\ ServedInv

(* The rows and files that a step of a thread leaves to the others: what its
   job becomes, and which claims and blocks of the file that adds. *)
StepOf(w, j) ==
  /\ awgJob' = [awgJob EXCEPT ![w] = j]
  /\ peerRow' \in [Subscriber -> RowKind]
  /\ \A s \in Subscriber : /\ peerRow'[s].key = peerRow[s].key /\ peerRow'[s].ip = peerRow[s].ip
                           /\ peerRow[s].key = NoKey => ~peerRow'[s].active
  /\ keysMade' = keysMade /\ slots' = slots /\ disturbed \subseteq disturbed'
  /\ conf' \subseteq Nat \X Address
  /\ \A p \in conf' : p \in FilePairs \/ \E c \in Claims : p = <<c[1], c[3]>>

(* What its job may become. *)
JobAfter(w, j) ==
  /\ j \in JobKind
  /\ j.at \in {"idle", "create", "remove", "readd"} <=> j.key = NoKey
  /\ j.at \notin {"idle", "slot", "slotLive", "slotConf"} => j.sub \in Subscriber
  /\ j.at = "readd" => peerRow[j.sub].key # NoKey
  /\ j.key # NoKey =>
       /\ j.ip \in Address
       /\ \/ j.key = awgJob[w].key /\ j.sub = awgJob[w].sub /\ j.ip = awgJob[w].ip
          \/ j.sub \in Subscriber /\ j.key = peerRow[j.sub].key /\ j.ip = peerRow[j.sub].ip
  /\ j.at \in Created => Creating(w) /\ j.key = awgJob[w].key /\ j.ip = awgJob[w].ip
  /\ j.at \in {"slot", "slotLive", "slotConf"} => j.ip >= SlotFloor
  /\ j.copy \subseteq FilePairs

(* The claim of a row and of a thread. *)
LEMMA ClaimOf ==
  /\ \A s \in Subscriber : peerRow[s].key # NoKey => <<peerRow[s].key, s, peerRow[s].ip>> \in Claims
  /\ \A w \in AddressJob : awgJob[w].key # NoKey => <<awgJob[w].key, awgJob[w].sub, awgJob[w].ip>> \in Claims
BY DEF Claims

(* Two that claim one key claim the same address for the same subscription. *)
LEMMA ClaimsAgree ==
  ASSUME KeysInv
  PROVE  /\ \A s, t \in Subscriber : peerRow[s].key = peerRow[t].key /\ peerRow[s].key # NoKey => s = t
         /\ \A w \in AddressJob, s \in Subscriber : awgJob[w].key = peerRow[s].key /\ awgJob[w].key # NoKey =>
              awgJob[w].sub = s /\ awgJob[w].ip = peerRow[s].ip
         /\ \A w, v \in AddressJob : awgJob[w].key = awgJob[v].key /\ awgJob[w].key # NoKey =>
              awgJob[w].sub = awgJob[v].sub /\ awgJob[w].ip = awgJob[v].ip
<1>1. ASSUME NEW k, NEW a, NEW x, NEW b, NEW y, <<k, a, x>> \in Claims, <<k, b, y>> \in Claims
      PROVE  a = b /\ x = y
  <2>1. <<k, a, x>>[1] = <<k, b, y>>[1]
    OBVIOUS
  <2>2. <<k, a, x>> = <<k, b, y>>
    BY <1>1, <2>1 DEF KeysInv
  <2> QED BY <2>2
<1>2. ASSUME NEW s \in Subscriber, NEW t \in Subscriber, peerRow[s].key = peerRow[t].key, peerRow[s].key # NoKey
      PROVE  s = t
  <2>1. <<peerRow[s].key, s, peerRow[s].ip>> \in Claims /\ <<peerRow[t].key, t, peerRow[t].ip>> \in Claims
    BY <1>2, ClaimOf
  <2> QED BY <1>1, <1>2, <2>1
<1>3. ASSUME NEW w \in AddressJob, NEW s \in Subscriber, awgJob[w].key = peerRow[s].key, awgJob[w].key # NoKey
      PROVE  awgJob[w].sub = s /\ awgJob[w].ip = peerRow[s].ip
  <2>1. <<awgJob[w].key, awgJob[w].sub, awgJob[w].ip>> \in Claims /\ <<peerRow[s].key, s, peerRow[s].ip>> \in Claims
    BY <1>3, ClaimOf
  <2> QED BY <1>1, <1>3, <2>1
<1>4. ASSUME NEW w \in AddressJob, NEW v \in AddressJob, awgJob[w].key = awgJob[v].key, awgJob[w].key # NoKey
      PROVE  awgJob[w].sub = awgJob[v].sub /\ awgJob[w].ip = awgJob[v].ip
  <2>1. /\ <<awgJob[w].key, awgJob[w].sub, awgJob[w].ip>> \in Claims
        /\ <<awgJob[v].key, awgJob[v].sub, awgJob[v].ip>> \in Claims
    BY <1>4, ClaimOf
  <2> QED BY <1>1, <1>4, <2>1
<1> QED BY <1>2, <1>3, <1>4

(* A step of a thread keeps the types, the keys and the addresses. *)
LEMMA StepKeepsClaims ==
  ASSUME AddressTypes, KeysInv, IpsInv, NEW w \in AddressJob, NEW j, StepOf(w, j), JobAfter(w, j)
  PROVE  AddressTypes' /\ KeysInv' /\ IpsInv'
<1>1. /\ awgJob' \in [AddressJob -> JobKind] /\ awgJob'[w] = j
      /\ \A v \in AddressJob \ {w} : awgJob'[v] = awgJob[v]
  BY DEF StepOf, JobAfter, AddressTypes
<1>2. \A s \in Subscriber : peerRow'[s].key = peerRow[s].key /\ peerRow'[s].ip = peerRow[s].ip
  BY DEF StepOf
<1>3. AddressTypes'
  <2>1. /\ keysMade' \in Nat /\ conf' \subseteq Nat \X Address /\ slots' \subseteq Nat \X Address
        /\ peerRow' \in [Subscriber -> RowKind]
    BY DEF StepOf, AddressTypes
  <2>2. \A s \in Subscriber : (peerRow'[s].key = NoKey <=> peerRow'[s].ip = 0)
                              /\ (peerRow'[s].key = NoKey => ~peerRow'[s].active)
    BY DEF StepOf, AddressTypes
  <2>3. \A v \in AddressJob :
       /\ awgJob'[v].at \in {"idle", "create", "remove", "readd"} <=> awgJob'[v].key = NoKey
       /\ awgJob'[v].at \notin {"idle", "slot", "slotLive", "slotConf"} => awgJob'[v].sub \in Subscriber
       /\ awgJob'[v].key # NoKey => awgJob'[v].ip \in Address
    BY <1>1 DEF JobAfter, AddressTypes
  <2>4. \A v \in AddressJob : awgJob'[v].at = "readd" => peerRow'[awgJob'[v].sub].key # NoKey
    <3>1. CASE j.at = "readd"
      <4>1. j.sub \in Subscriber /\ peerRow[j.sub].key # NoKey
        BY <3>1 DEF JobAfter
      <4> QED BY <1>1, <1>2, <4>1 DEF AddressTypes
    <3>2. CASE j.at # "readd"
      BY <1>1, <1>2, <3>2 DEF AddressTypes
    <3> QED BY <3>1, <3>2
  <2> QED BY <1>1, <2>1, <2>2, <2>3, <2>4 DEF AddressTypes
<1>4. Claims' \subseteq Claims
  <2>1. \A s \in Subscriber : peerRow'[s].key # NoKey => <<peerRow'[s].key, s, peerRow'[s].ip>> \in Claims
    BY <1>2, ClaimOf
  <2>2. j.key # NoKey => <<j.key, j.sub, j.ip>> \in Claims
    BY ClaimOf DEF JobAfter
  <2>3. \A v \in AddressJob : awgJob'[v].key # NoKey => <<awgJob'[v].key, awgJob'[v].sub, awgJob'[v].ip>> \in Claims
    BY <1>1, <2>2, ClaimOf
  <2>4. Claims' = {<<peerRow'[s].key, s, peerRow'[s].ip>> : s \in {t \in Subscriber : peerRow'[t].key # NoKey}}
                  \cup {<<awgJob'[v].key, awgJob'[v].sub, awgJob'[v].ip>> : v \in {v \in AddressJob : awgJob'[v].key # NoKey}}
    BY DEF Claims
  <2> QED BY <2>1, <2>3, <2>4
<1>5. \A p \in FilePairs' : p \in FilePairs \/ \E c \in Claims : p = <<c[1], c[3]>>
  <2>1. \A v \in AddressJob : awgJob'[v].copy \subseteq FilePairs
    BY <1>1 DEF JobAfter, FilePairs
  <2>2. FilePairs' = conf' \cup slots' \cup UNION {awgJob'[v].copy : v \in AddressJob}
    BY DEF FilePairs
  <2>3. slots' \subseteq FilePairs
    BY DEF StepOf, FilePairs
  <2> QED BY <2>1, <2>2, <2>3 DEF StepOf
<1>6. KeysInv'
  <2>1. \A c, d \in Claims' : c[1] = d[1] => c = d
    BY <1>4 DEF KeysInv
  <2>2. \A c \in Claims' : c[1] <= keysMade'
    BY <1>4 DEF KeysInv, StepOf
  <2>3. ASSUME NEW p \in FilePairs'
        PROVE  p[1] <= keysMade' /\ \A c \in Claims' : p[1] = c[1] => p[2] = c[3]
    <3>1. CASE p \in FilePairs
      BY <1>4, <3>1 DEF KeysInv, StepOf
    <3>2. ASSUME NEW d \in Claims, p = <<d[1], d[3]>>
          PROVE  p[1] <= keysMade' /\ \A c \in Claims' : p[1] = c[1] => p[2] = c[3]
      <4>1. p[1] = d[1] /\ p[2] = d[3]
        BY <3>2
      <4> QED BY <1>4, <4>1 DEF KeysInv, StepOf
    <3> QED BY <1>5, <3>1, <3>2
  <2>4. ASSUME NEW v \in AddressJob, Creating(v)'
        PROVE  /\ \A s \in Subscriber : peerRow'[s].key # awgJob'[v].key
               /\ \A u \in AddressJob \ {v} : awgJob'[u].key # awgJob'[v].key
    <3>1. Creating(v) /\ awgJob'[v].key = awgJob[v].key
      <4>1. CASE v = w
        BY <1>1, <2>4, <4>1 DEF Creating, JobAfter
      <4>2. CASE v # w
        BY <1>1, <2>4, <4>2 DEF Creating
      <4> QED BY <4>1, <4>2
    <3>2. awgJob[v].key # NoKey
      BY <3>1 DEF Creating, Created, AddressTypes
    <3>3. /\ \A s \in Subscriber : peerRow[s].key # awgJob[v].key
          /\ \A u \in AddressJob \ {v} : awgJob[u].key # awgJob[v].key
      BY <3>1 DEF KeysInv
    <3>4. w # v => j.key # awgJob[v].key
      BY <3>2, <3>3 DEF JobAfter
    <3> QED BY <1>1, <1>2, <3>1, <3>3, <3>4
  <2> QED BY <2>1, <2>2, <2>3, <2>4 DEF KeysInv
<1>7. IpsInv'
  <2>1. \A v \in AddressJob : Creating(v)' => Creating(v) /\ awgJob'[v].ip = awgJob[v].ip
    BY <1>1 DEF Creating, JobAfter
  <2>2. \A v \in AddressJob : Slotting(v)' => awgJob'[v].ip >= SlotFloor
    BY <1>1 DEF Slotting, JobAfter, IpsInv
  <2>3. \A s, t \in Subscriber : peerRow'[s].ip = peerRow'[t].ip /\ peerRow'[s].ip # 0 => s = t
    BY <1>2 DEF IpsInv
  <2>4. \A u, v \in AddressJob :
       Creating(u)' /\ Creating(v)' /\ awgJob'[u].ip = awgJob'[v].ip /\ u # v => awgJob'[u].ip \in disturbed'
    BY <2>1 DEF IpsInv, StepOf
  <2>5. \A v \in AddressJob, s \in Subscriber :
       Creating(v)' /\ peerRow'[s].ip = awgJob'[v].ip => awgJob'[v].ip \in disturbed'
    BY <1>2, <2>1 DEF IpsInv, StepOf
  <2> QED BY <2>2, <2>3, <2>4, <2>5 DEF IpsInv
<1> QED BY <1>3, <1>6, <1>7

(* It keeps the lock's rules if it takes the lock only while it is free, and
   touches the file and the rows of peers being restored only under it. *)
LEMMA StepKeepsLock ==
  ASSUME AddressTypes, LockInv, NEW w \in AddressJob, NEW j, StepOf(w, j), JobAfter(w, j),
         j.at \in Locked => UnderLock(w) \/ NodeLockFree,
         UnderLock(w) \/ (conf \subseteq conf' /\ peerRow' = peerRow),
         j.at \in {"restoring", "append", "reactivate"} =>
           /\ j.copy \subseteq conf'
           /\ peerRow'[j.sub].key = j.key \/ (peerRow'[j.sub].active /\ j.ip \in disturbed')
  PROVE  LockInv'
<1>1. awgJob'[w] = j /\ \A v \in AddressJob \ {w} : awgJob'[v] = awgJob[v]
  BY DEF StepOf, AddressTypes
<1>2. ASSUME NEW u \in AddressJob, NEW v \in AddressJob, UnderLock(u)', UnderLock(v)', u # v
      PROVE  FALSE
  <2>1. \A x \in AddressJob \ {w} : UnderLock(x)' => UnderLock(x) /\ ~NodeLockFree
    BY <1>1 DEF UnderLock, NodeLockFree
  <2>2. UnderLock(w)' => UnderLock(w) \/ NodeLockFree
    BY <1>1 DEF UnderLock
  <2> QED BY <1>2, <2>1, <2>2 DEF LockInv
<1>3. ASSUME NEW v \in AddressJob, Restoring(v)'
      PROVE  /\ awgJob'[v].copy \subseteq conf'
             /\ peerRow'[awgJob'[v].sub].key = awgJob'[v].key
                \/ (peerRow'[awgJob'[v].sub].active /\ awgJob'[v].ip \in disturbed')
  <2>1. CASE v = w
    BY <1>1, <1>3, <2>1 DEF Restoring
  <2>2. CASE v # w
    <3>1. Restoring(v) /\ UnderLock(v) /\ awgJob'[v] = awgJob[v]
      BY <1>1, <1>3, <2>2 DEF Restoring, UnderLock, Locked
    <3>2. ~UnderLock(w)
      BY <2>2, <3>1 DEF LockInv
    <3> QED BY <3>1, <3>2 DEF LockInv, StepOf
  <2> QED BY <2>1, <2>2
<1> QED BY <1>2, <1>3 DEF LockInv

(* Routing a key to its address on the interface takes no address away from
   the peers of the rows, nor from those that are being made or restored. *)
LEMMA RoutingKeeps ==
  ASSUME AddressInv, NEW w \in AddressJob, awgJob[w].at \in {"live", "restoring", "slotLive"},
         kernel' = Routed(awgJob[w].key, awgJob[w].ip)
  PROVE  /\ <<awgJob[w].key, awgJob[w].ip>> \in kernel'
         /\ \A s \in Subscriber : LET pair == <<peerRow[s].key, peerRow[s].ip>> IN
              peerRow[s].active /\ Clear(peerRow[s].ip) /\ pair \in kernel => pair \in kernel'
         /\ \A v \in AddressJob \ {w} : LET pair == <<awgJob[v].key, awgJob[v].ip>> IN
              Clear(awgJob[v].ip) /\ awgJob[v].at \in {"persist", "insert", "append", "reactivate"} /\ pair \in kernel
                => pair \in kernel'
<1> DEFINE key == awgJob[w].key
           ip == awgJob[w].ip
<1>1. kernel' = {p \in kernel : p[1] # key /\ p[2] # ip} \cup {<<key, ip>>}
  BY DEF Routed
<1>2. /\ key # NoKey /\ ip \in Address /\ SlotFloor \in Nat /\ key = awgJob[w].key /\ ip = awgJob[w].ip
      /\ ip \in Int
      /\ Creating(w) <=> awgJob[w].at = "live"
      /\ Restoring(w) <=> awgJob[w].at = "restoring"
      /\ Slotting(w) <=> awgJob[w].at = "slotLive"
  BY AddressConstants DEF AddressInv, AddressTypes, Address, Creating, Created, Restoring, Slotting
<1>3. Restoring(w) => /\ awgJob[w].sub \in Subscriber
                      /\ \/ peerRow[awgJob[w].sub].key = key /\ peerRow[awgJob[w].sub].ip = ip
                         \/ ip \in disturbed
  <2>1. SUFFICES ASSUME Restoring(w), ip \notin disturbed
                 PROVE  /\ awgJob[w].sub \in Subscriber
                        /\ peerRow[awgJob[w].sub].key = key /\ peerRow[awgJob[w].sub].ip = ip
    BY DEF Restoring, AddressInv, AddressTypes
  <2>2. awgJob[w].sub \in Subscriber
    BY <2>1 DEF Restoring, AddressInv, AddressTypes
  <2>3. peerRow[awgJob[w].sub].key = key
    BY <2>1 DEF AddressInv, LockInv
  <2> QED BY <1>2, <2>2, <2>3, ClaimsAgree DEF AddressInv
<1>4. Slotting(w) => ~Clear(ip)
  BY <1>2 DEF AddressInv, IpsInv, Clear
<1> HIDE DEF key, ip
<1>5. ASSUME NEW s \in Subscriber, peerRow[s].active, Clear(peerRow[s].ip),
             <<peerRow[s].key, peerRow[s].ip>> \in kernel
      PROVE  <<peerRow[s].key, peerRow[s].ip>> \in kernel'
  <2>1. CASE peerRow[s].key = key
    <3>1. peerRow[s].ip = ip
      BY <1>2, <2>1, ClaimsAgree DEF AddressInv
    <3> QED BY <1>1, <2>1, <3>1
  <2>2. CASE peerRow[s].key # key
    <3>1. ASSUME peerRow[s].ip = ip
          PROVE  FALSE
      <4>1. CASE Creating(w)
        BY <1>2, <1>5, <3>1, <4>1 DEF AddressInv, IpsInv, Clear
      <4>2. CASE Restoring(w)
        <5>1. ip \notin disturbed
          BY <1>5, <3>1 DEF Clear
        <5>2. awgJob[w].sub \in Subscriber /\ peerRow[awgJob[w].sub].key = key /\ peerRow[awgJob[w].sub].ip = ip
          BY <1>3, <4>2, <5>1
        <5>3. ip # 0
          BY <1>2 DEF Address
        <5>4. awgJob[w].sub = s
          BY <3>1, <5>2, <5>3 DEF AddressInv, IpsInv
        <5> QED BY <2>2, <5>2, <5>4
      <4>3. CASE Slotting(w)
        BY <1>4, <1>5, <3>1, <4>3
      <4> QED BY <1>2, <4>1, <4>2, <4>3
    <3> QED BY <1>1, <1>5, <2>2, <3>1
  <2> QED BY <2>1, <2>2
<1>6. ASSUME NEW v \in AddressJob \ {w}, Clear(awgJob[v].ip),
             awgJob[v].at \in {"persist", "insert", "append", "reactivate"},
             <<awgJob[v].key, awgJob[v].ip>> \in kernel
      PROVE  <<awgJob[v].key, awgJob[v].ip>> \in kernel'
  <2>1. /\ awgJob[v].key # NoKey
        /\ Creating(v) \/ (Restoring(v) /\ UnderLock(v))
    BY <1>6 DEF AddressInv, AddressTypes, Creating, Created, Restoring, UnderLock, Locked
  <2>2. awgJob[v].key # key
    <3>1. CASE Creating(v)
      BY <1>2, <3>1 DEF AddressInv, KeysInv
    <3>2. CASE Restoring(v) /\ UnderLock(v)
      <4>1. ~UnderLock(w)
        BY <3>2 DEF AddressInv, LockInv
      <4>2. Creating(w)
        BY <1>2, <4>1 DEF UnderLock, Locked
      <4> QED BY <1>2, <4>2 DEF AddressInv, KeysInv
    <3> QED BY <2>1, <3>1, <3>2
  <2>3. ASSUME awgJob[v].ip = ip
        PROVE  FALSE
    <3>1. ip \notin disturbed
      BY <1>6, <2>3 DEF Clear
    <3>2. CASE Creating(v) /\ Creating(w)
      BY <1>2, <2>3, <3>1, <3>2 DEF AddressInv, IpsInv
    <3>3. CASE Creating(v) /\ Restoring(w)
      BY <1>2, <1>3, <2>3, <3>1, <3>3 DEF AddressInv, IpsInv
    <3>4. CASE Slotting(w)
      BY <1>4, <1>6, <2>3, <3>4
    <3>5. CASE Restoring(v) /\ UnderLock(v) /\ ~Slotting(w)
      <4>1. ~UnderLock(w)
        BY <3>5 DEF AddressInv, LockInv
      <4>2. Creating(w)
        BY <1>2, <4>1 DEF UnderLock, Locked
      <4>3. awgJob[v].sub \in Subscriber
        BY <3>5 DEF AddressInv, AddressTypes, Restoring
      <4>4. peerRow[awgJob[v].sub].key = awgJob[v].key
        BY <2>3, <3>1, <3>5 DEF AddressInv, LockInv
      <4>5. peerRow[awgJob[v].sub].ip = ip
        BY <2>1, <2>3, <4>3, <4>4, ClaimsAgree DEF AddressInv
      <4> QED BY <1>2, <3>1, <4>2, <4>3, <4>5 DEF AddressInv, IpsInv
    <3> QED BY <1>2, <2>1, <3>2, <3>3, <3>4, <3>5
  <2> QED BY <1>1, <1>6, <2>2, <2>3
<1> QED BY <1>1, <1>2, <1>5, <1>6

(* Taking a removed peer's key out of the interface or out of the file takes
   away nobody else's. *)
LEMMA RemovalKeeps ==
  ASSUME AddressInv, NEW w \in AddressJob, Removing(w)
  PROVE  /\ \A s \in Subscriber : peerRow[s].active /\ ~RowRemoved(s) => peerRow[s].key # awgJob[w].key
         /\ \A v \in AddressJob \ {w} :
              awgJob[v].at \in {"persist", "insert", "append", "reactivate"} => awgJob[v].key # awgJob[w].key
<1>1. awgJob[w].key # NoKey /\ UnderLock(w)
  BY DEF Removing, AddressInv, AddressTypes, UnderLock, Locked
<1>2. ASSUME NEW s \in Subscriber, ~RowRemoved(s), peerRow[s].key = awgJob[w].key
      PROVE  FALSE
  <2>1. awgJob[w].sub = s
    BY <1>1, <1>2, ClaimsAgree DEF AddressInv
  <2> QED BY <1>2, <2>1 DEF RowRemoved
<1>3. ASSUME NEW v \in AddressJob \ {w}, awgJob[v].at \in {"persist", "insert", "append", "reactivate"}
      PROVE  awgJob[v].key # awgJob[w].key
  <2>1. ~UnderLock(v)
    BY <1>1 DEF AddressInv, LockInv
  <2>2. Creating(v)
    BY <1>3, <2>1 DEF Creating, Created, UnderLock, Locked
  <2> QED BY <2>2 DEF AddressInv, KeysInv
<1> QED BY <1>2, <1>3

(* What has to be shown of a step of a thread for the service of the peers. *)
LEMMA StepKeepsService ==
  ASSUME AddressTypes, ServedInv, NEW w \in AddressJob, NEW j, StepOf(w, j), peerRow' = peerRow,
         Removing(w) /\ (j.at \notin {"removing", "rewriting", "inactivate"} \/ j.sub # awgJob[w].sub \/ j.key # awgJob[w].key)
           => \A s \in Subscriber : peerRow[s].key = awgJob[w].key => ~Clear(peerRow[s].ip)',
         \A s \in Subscriber : LET pair == <<peerRow[s].key, peerRow[s].ip>> IN
           peerRow[s].active /\ Clear(peerRow[s].ip)' /\ ~RowRemoved(s)' /\ pair \in kernel \cap conf
             => pair \in kernel' \cap conf',
         \A v \in AddressJob \ {w} : LET pair == <<awgJob[v].key, awgJob[v].ip>> IN
           Clear(awgJob[v].ip)' /\ awgJob[v].at \in {"persist", "insert", "append", "reactivate"} =>
             (pair \in kernel => pair \in kernel') /\ (pair \in conf => pair \in conf'),
         j.ip < SlotFloor /\ j.ip \notin disturbed' =>
           /\ j.at \in {"persist", "insert", "append", "reactivate"} => <<j.key, j.ip>> \in kernel'
           /\ j.at \in {"insert", "reactivate"} => <<j.key, j.ip>> \in conf'
  PROVE  ServedInv'
<1>1. awgJob'[w] = j /\ \A v \in AddressJob \ {w} : awgJob'[v] = awgJob[v]
  BY DEF StepOf, AddressTypes
<1>2. \A ip : (ip < SlotFloor /\ ip \notin disturbed') => Clear(ip)
  BY DEF StepOf, Clear
<1>3. ASSUME NEW s \in Subscriber, peerRow[s].active, peerRow[s].ip < SlotFloor, peerRow[s].ip \notin disturbed', ~RowRemoved(s)'
      PROVE  <<peerRow[s].key, peerRow[s].ip>> \in kernel' \cap conf'
  <2>1. Clear(peerRow[s].ip)'
    BY <1>3 DEF Clear
  <2>2. ~RowRemoved(s)
    <3>1. ASSUME NEW v \in AddressJob, Removing(v), awgJob[v].sub = s, awgJob[v].key = peerRow[s].key
          PROVE  FALSE
      <4>1. CASE v = w
        <5>1. j.at \in {"removing", "rewriting", "inactivate"} /\ j.sub = awgJob[w].sub /\ j.key = awgJob[w].key
          BY <2>1, <3>1, <4>1
        <5> QED BY <1>1, <1>3, <3>1, <4>1, <5>1 DEF RowRemoved, Removing
      <4>2. CASE v # w
        BY <1>1, <1>3, <3>1, <4>2 DEF RowRemoved, Removing
      <4> QED BY <4>1, <4>2
    <3> QED BY <3>1 DEF RowRemoved
  <2>3. <<peerRow[s].key, peerRow[s].ip>> \in kernel \cap conf
    BY <1>2, <1>3, <2>2 DEF ServedInv
  <2> QED BY <1>3, <2>1, <2>3
<1>4. ASSUME NEW v \in AddressJob, awgJob'[v].ip < SlotFloor, awgJob'[v].ip \notin disturbed'
      PROVE  /\ awgJob'[v].at \in {"persist", "insert", "append", "reactivate"} =>
                  <<awgJob'[v].key, awgJob'[v].ip>> \in kernel'
             /\ awgJob'[v].at \in {"insert", "reactivate"} => <<awgJob'[v].key, awgJob'[v].ip>> \in conf'
  <2>1. CASE v = w
    BY <1>1, <1>4, <2>1
  <2>2. CASE v # w
    <3>1. awgJob'[v] = awgJob[v] /\ Clear(awgJob[v].ip) /\ Clear(awgJob[v].ip)'
      BY <1>1, <1>2, <1>4, <2>2 DEF Clear
    <3> QED BY <2>2, <3>1 DEF ServedInv
  <2> QED BY <2>1, <2>2
<1> QED BY <1>3, <1>4 DEF ServedInv, Clear

(* The job that a thread takes up when it moves on, and its fields. *)
LEMMA MovesOn ==
  ASSUME AddressTypes, NEW w \in AddressJob,
         NEW at \in Created \cup Locked \cup {"idle", "create", "remove", "readd", "slot"}, Go(w, at)
  PROVE  \E j \in JobKind : /\ awgJob' = [awgJob EXCEPT ![w] = j]
                            /\ j.at = at /\ j.sub = awgJob[w].sub /\ j.key = awgJob[w].key
                            /\ j.ip = awgJob[w].ip /\ j.copy = awgJob[w].copy
<1>1. awgJob[w] \in JobKind /\ awgJob' = [awgJob EXCEPT ![w] = [awgJob[w] EXCEPT !.at = at]]
  BY DEF Go, AddressTypes
<1>2. /\ [awgJob[w] EXCEPT !.at = at] \in JobKind
      /\ [awgJob[w] EXCEPT !.at = at].at = at
      /\ [awgJob[w] EXCEPT !.at = at].sub = awgJob[w].sub
      /\ [awgJob[w] EXCEPT !.at = at].key = awgJob[w].key
      /\ [awgJob[w] EXCEPT !.at = at].ip = awgJob[w].ip
      /\ [awgJob[w] EXCEPT !.at = at].copy = awgJob[w].copy
  BY <1>1 DEF JobKind
<1> QED BY <1>1, <1>2

(* A thread that has ended claims nothing. *)
LEMMA IdleAfter ==
  ASSUME NEW w \in AddressJob
  PROVE  JobAfter(w, IdleJob) /\ IdleJob.at = "idle" /\ IdleJob.key = NoKey
<1>1. /\ IdleJob.at = "idle" /\ IdleJob.sub = "none" /\ IdleJob.key = NoKey /\ IdleJob.ip = 0
      /\ IdleJob.copy = {}
  BY DEF IdleJob
<1>2. IdleJob \in JobKind
  BY DEF IdleJob, JobKind, NoKey
<1> QED BY <1>1, <1>2 DEF JobAfter, Created

(* A thread that moves on keeps its claim. *)
LEMMA SameClaimAfter ==
  ASSUME AddressTypes, NEW w \in AddressJob, NEW j \in JobKind,
         j.sub = awgJob[w].sub, j.key = awgJob[w].key, j.ip = awgJob[w].ip, j.copy = awgJob[w].copy,
         j.key # NoKey, j.at \notin {"idle", "create", "remove", "readd"},
         j.at \in {"slot", "slotLive", "slotConf"} => j.ip >= SlotFloor,
         j.at \notin {"slot", "slotLive", "slotConf"} => awgJob[w].at \notin {"slot", "slotLive", "slotConf"},
         j.at \in Created => Creating(w)
  PROVE  JobAfter(w, j)
<1>1. j.ip \in Address
  BY DEF AddressTypes
<1>2. j.at \notin {"idle", "slot", "slotLive", "slotConf"} => j.sub \in Subscriber
  BY DEF AddressTypes
<1>3. j.copy \subseteq FilePairs
  BY DEF FilePairs
<1> QED BY <1>1, <1>2, <1>3 DEF JobAfter

(* A step that leaves the rows, the interface and the file alone. *)
LEMMA QuietStep ==
  ASSUME AddressInv, NEW w \in AddressJob, NEW j, JobAfter(w, j), awgJob' = [awgJob EXCEPT ![w] = j],
         UNCHANGED <<peerRow, slots, kernel, conf, keysMade, disturbed>>,
         ~Removing(w), j.at \notin {"persist", "insert", "append", "reactivate"},
         j.at \in Locked => UnderLock(w) \/ NodeLockFree,
         j.at = "restoring" => j.copy = conf /\ peerRow[j.sub].key = j.key
  PROVE  AddressInv'
<1>1. StepOf(w, j)
  <2>1. \A p \in conf' : p \in FilePairs
    BY DEF FilePairs
  <2> QED BY <2>1 DEF StepOf, AddressInv, AddressTypes
<1>2. AddressTypes' /\ KeysInv' /\ IpsInv'
  BY <1>1, StepKeepsClaims DEF AddressInv
<1>3. LockInv'
  BY <1>1, StepKeepsLock DEF AddressInv
<1>4. ServedInv'
  BY <1>1, StepKeepsService DEF AddressInv
<1> QED BY <1>2, <1>3, <1>4 DEF AddressInv

(* Somebody asks for a peer, or the reconciliation finds one that is not as
   it should be; a call that has nothing to do ends. *)
LEMMA AskingSteps ==
  ASSUME AddressInv, NEW w \in AddressJob,
         \E s \in Subscriber : AskForPeer(w, s) \/ ReconcilePeer(w, s)
  PROVE  AddressInv'
<1>1. PICK s \in Subscriber : AskForPeer(w, s) \/ ReconcilePeer(w, s)
  OBVIOUS
<1>2. PICK at \in {"create", "remove", "readd"} :
        /\ awgJob' = [awgJob EXCEPT ![w].at = at, ![w].sub = s]
        /\ at = "readd" => peerRow[s].key # NoKey
  BY <1>1 DEF AskForPeer, ReconcilePeer
<1>3. awgJob[w] \in JobKind /\ awgJob[w].at = "idle" /\ awgJob[w].key = NoKey
  BY <1>1 DEF AddressInv, AddressTypes, AskForPeer, ReconcilePeer
<1>4. PICK j : j = [awgJob[w] EXCEPT !.at = at, !.sub = s]
  OBVIOUS
<1>5. /\ j \in JobKind /\ j.at = at /\ j.sub = s /\ j.key = NoKey /\ j.copy = awgJob[w].copy
      /\ awgJob' = [awgJob EXCEPT ![w] = j]
  <2>1. j \in JobKind /\ j.at = at /\ j.sub = s /\ j.key = NoKey /\ j.copy = awgJob[w].copy
    BY <1>3, <1>4 DEF JobKind
  <2> QED BY <1>2, <1>4, <2>1
<1>6. JobAfter(w, j)
  BY <1>2, <1>5 DEF JobAfter, FilePairs, Created
<1>7. UNCHANGED <<peerRow, slots, kernel, conf, keysMade, disturbed>>
  BY <1>1 DEF AskForPeer, ReconcilePeer
<1> QED BY <1>2, <1>3, <1>5, <1>6, <1>7, QuietStep DEF Removing, Locked

(* A thread takes the lock: to remove a peer, to restore one, or for a slot. *)
LEMMA LockingSteps ==
  ASSUME AddressInv, NEW w \in AddressJob, LockToRemove(w) \/ LockToRestore(w) \/ LockForSlot(w)
  PROVE  AddressInv'
<1>1. UNCHANGED <<peerRow, slots, kernel, conf, keysMade, disturbed>> /\ NodeLockFree
      /\ awgJob[w] \in JobKind /\ ~Removing(w) /\ conf \subseteq Nat \X Address
      /\ awgJob[w].at \in {"remove", "readd", "slot"}
  BY DEF LockToRemove, LockToRestore, LockForSlot, AddressInv, AddressTypes, Removing
<1>2. ASSUME NEW at \in {"removing", "restoring"}, awgJob[w].at \in {"remove", "readd"},
             peerRow[awgJob[w].sub].key # NoKey,
             awgJob' = [awgJob EXCEPT ![w].at = at, ![w].key = peerRow[awgJob[w].sub].key,
                                      ![w].ip = peerRow[awgJob[w].sub].ip, ![w].copy = conf]
      PROVE  AddressInv'
  <2>1. awgJob[w].sub \in Subscriber
    BY <1>2 DEF AddressInv, AddressTypes
  <2>2. PICK row \in RowKind : row = peerRow[awgJob[w].sub]
    BY <2>1 DEF AddressInv, AddressTypes
  <2>3. row.key \in Nat /\ row.key # NoKey /\ row.ip \in Address
    BY <1>2, <2>1, <2>2 DEF AddressInv, AddressTypes, RowKind
  <2>4. PICK j : j = [awgJob[w] EXCEPT !.at = at, !.key = row.key, !.ip = row.ip, !.copy = conf]
    OBVIOUS
  <2>5. at \in Created \cup Locked \cup {"idle", "create", "remove", "readd", "slot"}
    BY DEF Locked
  <2>6. /\ j \in JobKind /\ j.at = at /\ j.sub = awgJob[w].sub /\ j.key = row.key /\ j.ip = row.ip
        /\ j.copy = conf
    BY <1>1, <2>3, <2>4, <2>5 DEF JobKind
  <2>7. awgJob' = [awgJob EXCEPT ![w] = j]
    BY <1>2, <2>2, <2>4
  <2>8. JobAfter(w, j)
    BY <2>1, <2>2, <2>3, <2>6 DEF JobAfter, FilePairs, Created
  <2> QED BY <1>1, <2>2, <2>6, <2>7, <2>8, QuietStep
<1>3. CASE LockToRemove(w)
  <2>1. CASE peerRow[awgJob[w].sub].active
    <3>1. awgJob[w].sub \in Subscriber /\ peerRow[awgJob[w].sub].key # NoKey
      BY <1>3, <2>1 DEF LockToRemove, AddressInv, AddressTypes
    <3> QED BY <1>2, <1>3, <2>1, <3>1 DEF LockToRemove
  <2>2. CASE ~peerRow[awgJob[w].sub].active
    <3>1. awgJob' = [awgJob EXCEPT ![w] = IdleJob]
      BY <1>3, <2>2 DEF LockToRemove, Stop
    <3> QED BY <1>1, <3>1, IdleAfter, QuietStep DEF Locked
  <2> QED BY <2>1, <2>2
<1>4. CASE LockToRestore(w)
  <2>1. peerRow[awgJob[w].sub].key # NoKey
    BY <1>4 DEF LockToRestore, AddressInv, AddressTypes
  <2> QED BY <1>2, <1>4, <2>1 DEF LockToRestore
<1>5. CASE LockForSlot(w)
  <2>1. PICK j \in JobKind :
          /\ awgJob' = [awgJob EXCEPT ![w] = j]
          /\ j.at = "slotLive" /\ j.sub = awgJob[w].sub /\ j.key = awgJob[w].key
          /\ j.ip = awgJob[w].ip /\ j.copy = awgJob[w].copy
    BY <1>5, MovesOn DEF LockForSlot, AddressInv, Locked
  <2>2. j.ip >= SlotFloor /\ j.key # NoKey
    BY <1>5, <2>1 DEF LockForSlot, AddressInv, IpsInv, Slotting, AddressTypes
  <2>3. JobAfter(w, j)
    BY <2>1, <2>2, SameClaimAfter DEF AddressInv, Created
  <2> QED BY <1>1, <2>1, <2>3, QuietStep
<1> QED BY <1>3, <1>4, <1>5

(* The steps on the interface. *)
LEMMA RoutingSteps ==
  ASSUME AddressInv, NEW w \in AddressJob, AddLive(w) \/ RestoreLive(w) \/ AddSlotLive(w)
  PROVE  AddressInv'
<1>1. /\ UNCHANGED <<peerRow, slots, conf, keysMade, disturbed>> /\ awgJob[w] \in JobKind /\ ~Removing(w)
      /\ awgJob[w].at \in {"live", "restoring", "slotLive"} /\ awgJob[w].key # NoKey
  BY DEF AddLive, RestoreLive, AddSlotLive, AddressInv, AddressTypes, Removing
<1>2. \/ kernel' = kernel /\ awgJob' = [awgJob EXCEPT ![w] = IdleJob]
      \/ /\ kernel' = Routed(awgJob[w].key, awgJob[w].ip)
         /\ \/ awgJob[w].at = "live" /\ Go(w, "persist")
            \/ awgJob[w].at = "restoring" /\ Go(w, "append")
            \/ awgJob[w].at = "slotLive" /\ Go(w, "slotConf")
  BY DEF AddLive, RestoreLive, AddSlotLive, Stop
<1>3. CASE kernel' = kernel /\ awgJob' = [awgJob EXCEPT ![w] = IdleJob]
  BY <1>1, <1>3, IdleAfter, QuietStep DEF Locked
<1>4. ASSUME kernel' = Routed(awgJob[w].key, awgJob[w].ip), NEW at \in {"persist", "append", "slotConf"},
             Go(w, at), awgJob[w].at = "live" <=> at = "persist", awgJob[w].at = "slotLive" <=> at = "slotConf"
      PROVE  AddressInv'
  <2>1. PICK j \in JobKind :
          /\ awgJob' = [awgJob EXCEPT ![w] = j]
          /\ j.at = at /\ j.sub = awgJob[w].sub /\ j.key = awgJob[w].key
          /\ j.ip = awgJob[w].ip /\ j.copy = awgJob[w].copy
    <3>1. at \in Created \cup Locked \cup {"idle", "create", "remove", "readd", "slot"}
      BY DEF Locked, Created
    <3> QED BY <1>4, <3>1, MovesOn DEF AddressInv
  <2>2. JobAfter(w, j)
    <3>1. j.at \in {"slot", "slotLive", "slotConf"} => j.ip >= SlotFloor
      BY <1>4, <2>1 DEF AddressInv, IpsInv, Slotting
    <3> QED BY <1>1, <1>4, <2>1, <3>1, SameClaimAfter DEF AddressInv, Created, Creating
  <2>3. StepOf(w, j)
    <3>1. \A p \in conf' : p \in FilePairs
      BY <1>1 DEF FilePairs
    <3> QED BY <1>1, <2>1, <3>1 DEF StepOf, AddressInv, AddressTypes
  <2>4. AddressTypes' /\ KeysInv' /\ IpsInv'
    BY <2>2, <2>3, StepKeepsClaims DEF AddressInv
  <2>5. LockInv'
    <3>1. j.at \in Locked => UnderLock(w)
      BY <1>1, <1>4, <2>1 DEF UnderLock, Locked
    <3>2. j.at \in {"restoring", "append", "reactivate"} =>
           /\ j.copy \subseteq conf'
           /\ peerRow'[j.sub].key = j.key \/ (peerRow'[j.sub].active /\ j.ip \in disturbed')
      <4>1. j.at \in {"restoring", "append", "reactivate"} => Restoring(w)
        BY <1>1, <1>4, <2>1 DEF Restoring
      <4> QED BY <1>1, <2>1, <4>1 DEF AddressInv, LockInv
    <3> QED BY <1>1, <2>2, <2>3, <3>1, <3>2, StepKeepsLock DEF AddressInv
  <2>6. ServedInv'
    <3>1. /\ <<awgJob[w].key, awgJob[w].ip>> \in kernel'
          /\ \A s \in Subscriber : LET pair == <<peerRow[s].key, peerRow[s].ip>> IN
               peerRow[s].active /\ Clear(peerRow[s].ip) /\ pair \in kernel => pair \in kernel'
          /\ \A v \in AddressJob \ {w} : LET pair == <<awgJob[v].key, awgJob[v].ip>> IN
               Clear(awgJob[v].ip) /\ awgJob[v].at \in {"persist", "insert", "append", "reactivate"} /\ pair \in kernel
                 => pair \in kernel'
      BY <1>1, <1>4, RoutingKeeps
    <3>2. \A v \in AddressJob \ {w} : awgJob'[v] = awgJob[v]
      BY <2>1 DEF AddressInv, AddressTypes
    <3>3. \A s \in Subscriber : Clear(peerRow[s].ip)' => Clear(peerRow[s].ip)
      BY <1>1 DEF Clear
    <3>4. \A v \in AddressJob \ {w} : Clear(awgJob[v].ip)' => Clear(awgJob[v].ip)
      BY <1>1, <3>2 DEF Clear
    <3> QED BY <1>1, <1>4, <2>1, <2>3, <3>1, <3>3, <3>4, StepKeepsService DEF AddressInv
  <2> QED BY <2>4, <2>5, <2>6 DEF AddressInv
<1> QED BY <1>1, <1>2, <1>3, <1>4

(* The steps that add a block to the file. *)
LEMMA FileSteps ==
  ASSUME AddressInv, NEW w \in AddressJob, AddToFile(w) \/ RestoreInFile(w) \/ AddSlotToFile(w)
  PROVE  AddressInv'
<1> DEFINE pair == <<awgJob[w].key, awgJob[w].ip>>
<1>1. /\ UNCHANGED <<peerRow, slots, kernel, keysMade, disturbed>> /\ awgJob[w] \in JobKind /\ ~Removing(w)
      /\ awgJob[w].at \in {"persist", "append", "slotConf"} /\ awgJob[w].key # NoKey
      /\ conf \subseteq Nat \X Address /\ pair \in Nat \X Address
  <2>1. awgJob[w].at \in {"persist", "append", "slotConf"} /\ UNCHANGED <<peerRow, slots, kernel, keysMade, disturbed>>
    BY DEF AddToFile, RestoreInFile, AddSlotToFile
  <2>2. awgJob[w] \in JobKind /\ awgJob[w].key # NoKey /\ awgJob[w].ip \in Address /\ conf \subseteq Nat \X Address
    BY <2>1 DEF AddressInv, AddressTypes
  <2>3. awgJob[w].key \in Nat
    BY <2>2 DEF JobKind
  <2> QED BY <2>1, <2>2, <2>3 DEF Removing
<1>2. ASSUME NEW j, JobAfter(w, j), awgJob' = [awgJob EXCEPT ![w] = j], conf' \in {conf, conf \cup {pair}},
             j.at \in {"idle", "insert", "reactivate"},
             j.at \in Locked => UnderLock(w),
             j.at = "reactivate" => awgJob[w].at = "append" /\ j.copy = awgJob[w].copy,
             j.at # "idle" => j.sub = awgJob[w].sub /\ j.key = awgJob[w].key /\ j.ip = awgJob[w].ip /\ pair \in conf'
      PROVE  AddressInv'
  <2>1. StepOf(w, j)
    <3>1. <<awgJob[w].key, awgJob[w].sub, awgJob[w].ip>> \in Claims
      BY <1>1, ClaimOf
    <3>2. \A p \in conf' : p \in FilePairs \/ \E c \in Claims : p = <<c[1], c[3]>>
      <4>1. \E c \in Claims : pair = <<c[1], c[3]>>
        BY <3>1
      <4>2. conf \subseteq FilePairs
        BY DEF FilePairs
      <4> HIDE DEF pair
      <4> QED BY <1>2, <4>1, <4>2
    <3>3. conf' \subseteq Nat \X Address
      BY <1>1, <1>2
    <3> QED BY <1>1, <1>2, <3>2, <3>3 DEF StepOf, AddressInv, AddressTypes
  <2>2. AddressTypes' /\ KeysInv' /\ IpsInv'
    BY <1>2, <2>1, StepKeepsClaims DEF AddressInv
  <2>3. LockInv'
    <3>1. j.at \in {"restoring", "append", "reactivate"} =>
           /\ j.copy \subseteq conf'
           /\ peerRow'[j.sub].key = j.key \/ (peerRow'[j.sub].active /\ j.ip \in disturbed')
      <4>1. j.at \in {"restoring", "append", "reactivate"} => Restoring(w) /\ j.at = "reactivate"
        BY <1>2 DEF Restoring
      <4>2. conf \subseteq conf'
        BY <1>2
      <4> QED BY <1>1, <1>2, <4>1, <4>2 DEF AddressInv, LockInv
    <3> QED BY <1>1, <1>2, <2>1, <3>1, StepKeepsLock DEF AddressInv
  <2>4. ServedInv'
    <3>1. j.ip < SlotFloor /\ j.ip \notin disturbed' =>
            /\ j.at \in {"persist", "insert", "append", "reactivate"} => <<j.key, j.ip>> \in kernel'
            /\ j.at \in {"insert", "reactivate"} => <<j.key, j.ip>> \in conf'
      <4>1. j.at # "idle" => awgJob[w].at \in {"persist", "append"}
        BY <1>1, <1>2 DEF JobAfter, Created, Creating
      <4> QED BY <1>1, <1>2, <4>1 DEF AddressInv, ServedInv, Clear
    <3> QED BY <1>1, <1>2, <2>1, <3>1, StepKeepsService DEF AddressInv
  <2> QED BY <2>2, <2>3, <2>4 DEF AddressInv
<1>3. \/ conf' \in {conf, conf \cup {pair}} /\ awgJob' = [awgJob EXCEPT ![w] = IdleJob]
      \/ awgJob[w].at = "persist" /\ Go(w, "insert") /\ conf' = conf \cup {pair}
      \/ /\ awgJob[w].at = "append" /\ Go(w, "reactivate")
         /\ conf' = IF \E p \in awgJob[w].copy : p[1] = awgJob[w].key THEN conf ELSE conf \cup {pair}
  BY DEF AddToFile, RestoreInFile, AddSlotToFile, Stop
<1> HIDE DEF pair
<1>4. CASE conf' \in {conf, conf \cup {pair}} /\ awgJob' = [awgJob EXCEPT ![w] = IdleJob]
  BY <1>2, <1>4, IdleAfter DEF Locked
<1>5. CASE awgJob[w].at = "persist" /\ Go(w, "insert") /\ conf' = conf \cup {pair}
  <2>1. PICK j \in JobKind :
          /\ awgJob' = [awgJob EXCEPT ![w] = j]
          /\ j.at = "insert" /\ j.sub = awgJob[w].sub /\ j.key = awgJob[w].key
          /\ j.ip = awgJob[w].ip /\ j.copy = awgJob[w].copy
    BY <1>5, MovesOn DEF AddressInv, Created
  <2>2. JobAfter(w, j)
    BY <1>1, <1>5, <2>1, SameClaimAfter DEF AddressInv, Created, Creating
  <2> QED BY <1>2, <1>5, <2>1, <2>2 DEF Locked
<1>6. CASE /\ awgJob[w].at = "append" /\ Go(w, "reactivate")
           /\ conf' = IF \E p \in awgJob[w].copy : p[1] = awgJob[w].key THEN conf ELSE conf \cup {pair}
  <2>1. PICK j \in JobKind :
          /\ awgJob' = [awgJob EXCEPT ![w] = j]
          /\ j.at = "reactivate" /\ j.sub = awgJob[w].sub /\ j.key = awgJob[w].key
          /\ j.ip = awgJob[w].ip /\ j.copy = awgJob[w].copy
    BY <1>6, MovesOn DEF AddressInv, Locked
  <2>2. JobAfter(w, j)
    BY <1>1, <1>6, <2>1, SameClaimAfter DEF AddressInv, Created, Creating
  <2>3. pair \in conf'
    <3>1. ASSUME NEW p \in awgJob[w].copy, p[1] = awgJob[w].key
          PROVE  pair \in conf
      <4>1. p \in conf
        BY <1>6 DEF AddressInv, LockInv, Restoring
      <4>2. p \in FilePairs /\ <<awgJob[w].key, awgJob[w].sub, awgJob[w].ip>> \in Claims
        BY <1>1, <4>1, ClaimOf DEF FilePairs
      <4>3. \A c \in Claims : p[1] = c[1] => p[2] = c[3]
        BY <4>2 DEF AddressInv, KeysInv
      <4>4. p[2] = awgJob[w].ip
        BY <3>1, <4>2, <4>3
      <4>5. p = <<p[1], p[2]>>
        BY <1>1, <4>1
      <4> QED BY <3>1, <4>1, <4>4, <4>5 DEF pair
    <3> QED BY <1>6, <3>1
  <2> QED BY <1>2, <1>6, <2>1, <2>2, <2>3 DEF UnderLock, Locked
<1> QED BY <1>3, <1>4, <1>5, <1>6

(* A peer is taken out of the interface. *)
LEMMA RemoveLiveStep ==
  ASSUME AddressInv, NEW w \in AddressJob, RemoveLive(w)
  PROVE  AddressInv'
<1>1. /\ UNCHANGED <<peerRow, slots, conf, keysMade, disturbed>> /\ awgJob[w] \in JobKind
      /\ awgJob[w].at = "removing" /\ awgJob[w].key # NoKey /\ Removing(w) /\ Go(w, "rewriting")
      /\ kernel' \in {kernel, Without(kernel, awgJob[w].key)}
  BY DEF RemoveLive, AddressInv, AddressTypes, Removing
<1>2. PICK j \in JobKind :
        /\ awgJob' = [awgJob EXCEPT ![w] = j]
        /\ j.at = "rewriting" /\ j.sub = awgJob[w].sub /\ j.key = awgJob[w].key
        /\ j.ip = awgJob[w].ip /\ j.copy = awgJob[w].copy
  BY <1>1, MovesOn DEF AddressInv, Locked
<1>3. JobAfter(w, j)
  BY <1>1, <1>2, SameClaimAfter DEF AddressInv, Created, Creating
<1>4. StepOf(w, j)
  <2>1. \A p \in conf' : p \in FilePairs
    BY <1>1 DEF FilePairs
  <2> QED BY <1>1, <1>2, <2>1 DEF StepOf, AddressInv, AddressTypes
<1>5. AddressTypes' /\ KeysInv' /\ IpsInv'
  BY <1>3, <1>4, StepKeepsClaims DEF AddressInv
<1>6. LockInv'
  BY <1>1, <1>2, <1>3, <1>4, StepKeepsLock DEF AddressInv, UnderLock, Locked
<1>7. ServedInv'
  <2>1. /\ \A s \in Subscriber : peerRow[s].active /\ ~RowRemoved(s) => peerRow[s].key # awgJob[w].key
        /\ \A v \in AddressJob \ {w} :
             awgJob[v].at \in {"persist", "insert", "append", "reactivate"} => awgJob[v].key # awgJob[w].key
    BY <1>1, RemovalKeeps
  <2>2. \A key, ip : key # awgJob[w].key /\ <<key, ip>> \in kernel => <<key, ip>> \in kernel'
    BY <1>1 DEF Without
  <2>3. \A s \in Subscriber : ~RowRemoved(s)' => ~RowRemoved(s)
    <3>1. awgJob'[w] = j /\ \A v \in AddressJob \ {w} : awgJob'[v] = awgJob[v]
      BY <1>2 DEF AddressInv, AddressTypes
    <3> QED BY <1>1, <1>2, <3>1 DEF RowRemoved, Removing
  <2>4. \A s \in Subscriber : LET pair == <<peerRow[s].key, peerRow[s].ip>> IN
          peerRow[s].active /\ Clear(peerRow[s].ip)' /\ ~RowRemoved(s)' /\ pair \in kernel \cap conf
            => pair \in kernel' \cap conf'
    BY <1>1, <2>1, <2>2, <2>3
  <2>5. \A v \in AddressJob \ {w} : LET pair == <<awgJob[v].key, awgJob[v].ip>> IN
          Clear(awgJob[v].ip)' /\ awgJob[v].at \in {"persist", "insert", "append", "reactivate"} =>
            (pair \in kernel => pair \in kernel') /\ (pair \in conf => pair \in conf')
    BY <1>1, <2>1, <2>2
  <2> QED BY <1>2, <1>4, <1>1, <2>4, <2>5, StepKeepsService DEF AddressInv
<1> QED BY <1>5, <1>6, <1>7 DEF AddressInv

(* The file is rewritten from the copy that was read under the lock. *)
LEMMA RewriteStep ==
  ASSUME AddressInv, NEW w \in AddressJob, RewriteFile(w)
  PROVE  AddressInv'
<1>1. /\ UNCHANGED <<peerRow, slots, kernel, keysMade>> /\ awgJob[w] \in JobKind
      /\ awgJob[w].at = "rewriting" /\ awgJob[w].key # NoKey /\ Removing(w) /\ UnderLock(w)
      /\ awgJob[w].copy \subseteq FilePairs /\ awgJob[w].copy \subseteq Nat \X Address /\ conf \subseteq Nat \X Address
  <2>1. awgJob[w].at = "rewriting" /\ UNCHANGED <<peerRow, slots, kernel, keysMade>>
    BY DEF RewriteFile
  <2>2. awgJob[w] \in JobKind /\ awgJob[w].key # NoKey /\ conf \subseteq Nat \X Address
    BY <2>1 DEF AddressInv, AddressTypes
  <2>3. awgJob[w].copy \subseteq Nat \X Address
    BY <2>2 DEF JobKind
  <2> QED BY <2>1, <2>2, <2>3 DEF Removing, UnderLock, Locked, FilePairs
<1>2. ASSUME NEW j, JobAfter(w, j), StepOf(w, j), j.at \in {"inactivate", "idle"},
             j.at = "inactivate" => j.sub = awgJob[w].sub /\ j.key = awgJob[w].key,
             j.at = "idle" => awgJob[w].ip \in disturbed',
             \A key, ip : key # awgJob[w].key /\ ip \notin disturbed' /\ <<key, ip>> \in conf => <<key, ip>> \in conf'
      PROVE  AddressInv'
  <2>1. AddressTypes' /\ KeysInv' /\ IpsInv'
    BY <1>2, StepKeepsClaims DEF AddressInv
  <2>2. LockInv'
    BY <1>1, <1>2, StepKeepsLock DEF AddressInv, UnderLock, Locked
  <2>3. ServedInv'
    <3>1. /\ \A s \in Subscriber : peerRow[s].active /\ ~RowRemoved(s) => peerRow[s].key # awgJob[w].key
          /\ \A v \in AddressJob \ {w} :
               awgJob[v].at \in {"persist", "insert", "append", "reactivate"} => awgJob[v].key # awgJob[w].key
      BY <1>1, RemovalKeeps
    <3>2. \A s \in Subscriber : peerRow[s].key = awgJob[w].key => peerRow[s].ip = awgJob[w].ip
      BY <1>1, ClaimsAgree DEF AddressInv
    <3>3. Removing(w) /\ (j.at \notin {"removing", "rewriting", "inactivate"} \/ j.sub # awgJob[w].sub \/ j.key # awgJob[w].key)
            => \A s \in Subscriber : peerRow[s].key = awgJob[w].key => ~Clear(peerRow[s].ip)'
      BY <1>1, <1>2, <3>2 DEF Clear
    <3>4. ASSUME NEW s \in Subscriber, peerRow[s].active, Clear(peerRow[s].ip)', ~RowRemoved(s)',
                 <<peerRow[s].key, peerRow[s].ip>> \in kernel \cap conf
          PROVE  <<peerRow[s].key, peerRow[s].ip>> \in kernel' \cap conf'
      <4>1. peerRow[s].ip \notin disturbed'
        BY <1>1, <3>4 DEF Clear
      <4>2. peerRow[s].key # awgJob[w].key
        <5>1. ASSUME peerRow[s].key = awgJob[w].key
              PROVE  FALSE
          <6>1. awgJob[w].sub = s /\ peerRow[s].ip = awgJob[w].ip
            BY <1>1, <5>1, ClaimsAgree DEF AddressInv
          <6>2. j.at = "inactivate"
            BY <1>2, <4>1, <6>1
          <6>3. awgJob'[w] = j
            BY <1>2 DEF StepOf, AddressInv, AddressTypes
          <6> QED BY <1>1, <1>2, <3>4, <5>1, <6>1, <6>2, <6>3 DEF RowRemoved, Removing
        <5> QED BY <5>1
      <4> QED BY <1>1, <1>2, <3>4, <4>1, <4>2
    <3>5. ASSUME NEW v \in AddressJob \ {w}, Clear(awgJob[v].ip)',
                 awgJob[v].at \in {"persist", "insert", "append", "reactivate"}
          PROVE  /\ <<awgJob[v].key, awgJob[v].ip>> \in kernel => <<awgJob[v].key, awgJob[v].ip>> \in kernel'
                 /\ <<awgJob[v].key, awgJob[v].ip>> \in conf => <<awgJob[v].key, awgJob[v].ip>> \in conf'
      <4>1. awgJob'[v] = awgJob[v]
        BY <1>2 DEF StepOf, AddressInv, AddressTypes
      <4>2. awgJob[v].ip \notin disturbed'
        BY <3>5, <4>1 DEF Clear
      <4> QED BY <1>1, <1>2, <3>1, <3>5, <4>2
    <3> QED BY <1>1, <1>2, <3>3, <3>4, <3>5, StepKeepsService DEF AddressInv
  <2> QED BY <2>1, <2>2, <2>3 DEF AddressInv
<1>3. CASE /\ conf' = Without(awgJob[w].copy, awgJob[w].key)
           /\ disturbed' = disturbed \cup Ips(conf \ awgJob[w].copy)
           /\ Go(w, "inactivate")
  <2>1. PICK j \in JobKind :
          /\ awgJob' = [awgJob EXCEPT ![w] = j]
          /\ j.at = "inactivate" /\ j.sub = awgJob[w].sub /\ j.key = awgJob[w].key
          /\ j.ip = awgJob[w].ip /\ j.copy = awgJob[w].copy
    BY <1>3, MovesOn DEF AddressInv, Locked
  <2>2. JobAfter(w, j)
    BY <1>1, <2>1, SameClaimAfter DEF AddressInv, Created, Creating
  <2>3. StepOf(w, j)
    <3>1. conf' \subseteq awgJob[w].copy
      BY <1>3 DEF Without
    <3>2. conf' \subseteq FilePairs /\ conf' \subseteq Nat \X Address
      BY <1>1, <3>1
    <3> QED BY <1>1, <1>3, <2>1, <3>2 DEF StepOf, AddressInv, AddressTypes
  <2>4. ASSUME NEW key, NEW ip, key # awgJob[w].key, ip \notin disturbed', <<key, ip>> \in conf
        PROVE  <<key, ip>> \in conf'
    <3>1. <<key, ip>> \in awgJob[w].copy
      <4>1. SUFFICES ASSUME <<key, ip>> \in conf \ awgJob[w].copy
                     PROVE  FALSE
        BY <2>4
      <4>2. <<key, ip>>[2] \in Ips(conf \ awgJob[w].copy)
        BY <4>1 DEF Ips
      <4> QED BY <1>3, <2>4, <4>2
    <3> QED BY <1>3, <2>4, <3>1 DEF Without
  <2> QED BY <1>2, <2>1, <2>2, <2>3, <2>4
<1>4. CASE disturbed' = disturbed \cup {awgJob[w].ip} /\ Stop(w) /\ UNCHANGED conf
  <2>1. awgJob' = [awgJob EXCEPT ![w] = IdleJob] /\ UNCHANGED conf
    BY <1>4 DEF Stop
  <2>2. StepOf(w, IdleJob)
    <3>1. \A p \in conf' : p \in FilePairs
      BY <2>1 DEF FilePairs
    <3> QED BY <1>1, <1>4, <2>1, <3>1 DEF StepOf, AddressInv, AddressTypes
  <2> QED BY <1>2, <1>4, <2>1, <2>2, IdleAfter
<1> QED BY <1>3, <1>4 DEF RewriteFile

(* The end of a removal and of a restoration: the row's flag. *)
LEMMA FlagSteps ==
  ASSUME AddressInv, NEW w \in AddressJob, Inactivate(w) \/ Reactivate(w)
  PROVE  AddressInv'
<1>1. /\ UNCHANGED <<slots, kernel, conf, keysMade, disturbed>>
      /\ awgJob' = [awgJob EXCEPT ![w] = IdleJob]
      /\ awgJob[w].at \in {"inactivate", "reactivate"} /\ awgJob[w].key # NoKey
      /\ awgJob[w].sub \in Subscriber /\ UnderLock(w) /\ NoKey = 0
  BY DEF Inactivate, Reactivate, Stop, AddressInv, AddressTypes, UnderLock, Locked, NoKey
<1>2. PICK s \in Subscriber : s = awgJob[w].sub
  BY <1>1
<1>3. PICK on \in BOOLEAN : /\ peerRow' = [peerRow EXCEPT ![s].active = on]
                            /\ awgJob[w].at = "reactivate" <=> on
  BY <1>2 DEF Inactivate, Reactivate
<1>4. /\ peerRow' \in [Subscriber -> RowKind]
      /\ \A t \in Subscriber : peerRow'[t].key = peerRow[t].key /\ peerRow'[t].ip = peerRow[t].ip
      /\ peerRow'[s].active = on
      /\ \A t \in Subscriber \ {s} : peerRow'[t] = peerRow[t]
  <2>1. peerRow \in [Subscriber -> RowKind]
    BY DEF AddressInv, AddressTypes
  <2>2. \A r \in RowKind : /\ [r EXCEPT !.active = on] \in RowKind /\ [r EXCEPT !.active = on].active = on
                           /\ [r EXCEPT !.active = on].key = r.key /\ [r EXCEPT !.active = on].ip = r.ip
    BY DEF RowKind
  <2>3. PICK r \in RowKind : r = [peerRow[s] EXCEPT !.active = on]
    BY <2>1, <2>2
  <2>4. peerRow' = [peerRow EXCEPT ![s] = r] /\ r.key = peerRow[s].key /\ r.ip = peerRow[s].ip /\ r.active = on
    BY <1>3, <2>1, <2>2, <2>3
  <2> QED BY <2>1, <2>4
<1>5. on => peerRow[s].key # NoKey
  <2>1. on => peerRow[s].key = awgJob[w].key \/ peerRow[s].active
    BY <1>1, <1>2, <1>3 DEF AddressInv, LockInv, Restoring
  <2> QED BY <1>1, <2>1 DEF AddressInv, AddressTypes
<1>6. StepOf(w, IdleJob)
  <2>1. \A p \in conf' : p \in FilePairs
    BY <1>1 DEF FilePairs
  <2>2. \A t \in Subscriber : peerRow[t].key = NoKey => ~peerRow'[t].active
    <3>1. \A t \in Subscriber : peerRow[t].key = NoKey => ~peerRow[t].active
      BY DEF AddressInv, AddressTypes
    <3> QED BY <1>4, <1>5, <3>1
  <2> QED BY <1>1, <1>4, <2>1, <2>2 DEF StepOf, AddressInv, AddressTypes
<1>7. AddressTypes' /\ KeysInv' /\ IpsInv'
  BY <1>6, IdleAfter, StepKeepsClaims DEF AddressInv
<1>8. LockInv'
  BY <1>1, <1>6, IdleAfter, StepKeepsLock DEF AddressInv, Locked
<1>9. ServedInv'
  <2>1. awgJob'[w] = IdleJob /\ IdleJob.at = "idle" /\ \A v \in AddressJob \ {w} : awgJob'[v] = awgJob[v]
    BY <1>1, IdleAfter DEF AddressInv, AddressTypes
  <2>2. \A ip : Clear(ip)' <=> Clear(ip)
    BY <1>1 DEF Clear
  <2>3. ASSUME NEW t \in Subscriber, peerRow'[t].active, Clear(peerRow[t].ip), ~RowRemoved(t)'
        PROVE  <<peerRow[t].key, peerRow[t].ip>> \in kernel \cap conf
    <3>1. ASSUME NEW v \in AddressJob, v # w, Removing(v), awgJob[v].sub = t, awgJob[v].key = peerRow[t].key
          PROVE  FALSE
      BY <1>4, <2>1, <2>3, <3>1 DEF RowRemoved, Removing
    <3>2. CASE peerRow[t].active /\ ~(Removing(w) /\ awgJob[w].sub = t)
      <4>1. ~RowRemoved(t)
        BY <3>1, <3>2 DEF RowRemoved
      <4> QED BY <2>3, <3>2, <4>1 DEF AddressInv, ServedInv
    <3>3. CASE ~(peerRow[t].active /\ ~(Removing(w) /\ awgJob[w].sub = t))
      <4>1. t = s /\ on
        BY <1>2, <1>4, <2>3, <3>3
      <4>2. ~Removing(w) /\ ~peerRow[s].active /\ Restoring(w)
        BY <1>1, <1>3, <3>3, <4>1 DEF Removing, Restoring
      <4>3. peerRow[s].key = awgJob[w].key
        BY <1>2, <4>2 DEF AddressInv, LockInv
      <4>4. peerRow[s].ip = awgJob[w].ip
        BY <1>1, <4>3, ClaimsAgree DEF AddressInv
      <4> QED BY <1>3, <2>3, <4>1, <4>3, <4>4 DEF AddressInv, ServedInv
    <3> QED BY <3>2, <3>3
  <2>4. ASSUME NEW v \in AddressJob, Clear(awgJob'[v].ip)
        PROVE  /\ awgJob'[v].at \in {"persist", "insert", "append", "reactivate"} =>
                    <<awgJob'[v].key, awgJob'[v].ip>> \in kernel'
               /\ awgJob'[v].at \in {"insert", "reactivate"} => <<awgJob'[v].key, awgJob'[v].ip>> \in conf'
    <3>1. CASE v = w
      BY <2>1, <3>1
    <3>2. CASE v # w
      BY <1>1, <2>1, <2>4, <3>2 DEF AddressInv, ServedInv
    <3> QED BY <3>1, <3>2
  <2>5. \A t \in Subscriber : peerRow'[t].active /\ Clear(peerRow[t].ip)' /\ ~RowRemoved(t)' =>
          <<peerRow'[t].key, peerRow'[t].ip>> \in kernel' \cap conf'
    BY <1>1, <1>4, <2>2, <2>3
  <2>6. \A v \in AddressJob : Clear(awgJob[v].ip)' => Clear(awgJob'[v].ip)
    BY <2>2
  <2> QED BY <2>4, <2>5, <2>6 DEF ServedInv
<1> QED BY <1>7, <1>8, <1>9 DEF AddressInv

(* The row of a new peer is written, or refused as its address is taken. *)
LEMMA InsertStep ==
  ASSUME AddressInv, NEW w \in AddressJob, InsertPeer(w)
  PROVE  AddressInv'
<1>1. /\ UNCHANGED <<slots, kernel, conf, keysMade>> /\ disturbed \subseteq disturbed'
      /\ awgJob' = [awgJob EXCEPT ![w] = IdleJob]
      /\ awgJob[w].at = "insert" /\ Creating(w) /\ ~Removing(w) /\ ~UnderLock(w)
      /\ awgJob[w].key # NoKey /\ awgJob[w].key \in Nat /\ awgJob[w].ip \in Address /\ awgJob[w].sub \in Subscriber
  BY DEF InsertPeer, Stop, AddressInv, AddressTypes, JobKind, Creating, Created, Removing, UnderLock, Locked
<1>2. PICK s \in Subscriber : s = awgJob[w].sub
  BY <1>1
<1>3. awgJob'[w] = IdleJob /\ IdleJob.at = "idle" /\ \A v \in AddressJob \ {w} : awgJob'[v] = awgJob[v]
  BY <1>1, IdleAfter DEF AddressInv, AddressTypes
<1>4. CASE peerRow' = peerRow
  <2>1. StepOf(w, IdleJob)
    <3>1. \A p \in conf' : p \in FilePairs
      BY <1>1 DEF FilePairs
    <3> QED BY <1>1, <1>4, <3>1 DEF StepOf, AddressInv, AddressTypes
  <2>2. AddressTypes' /\ KeysInv' /\ IpsInv'
    BY <2>1, IdleAfter, StepKeepsClaims DEF AddressInv
  <2>3. LockInv'
    BY <1>1, <1>4, <2>1, IdleAfter, StepKeepsLock DEF AddressInv, Locked
  <2>4. ServedInv'
    BY <1>1, <1>4, <2>1, IdleAfter, StepKeepsService DEF AddressInv
  <2> QED BY <2>2, <2>3, <2>4 DEF AddressInv
<1>5. CASE /\ peerRow' = [peerRow EXCEPT ![s] = [key |-> awgJob[w].key, ip |-> awgJob[w].ip, active |-> TRUE]]
           /\ \A t \in Subscriber \ {s} : peerRow[t].ip # awgJob[w].ip
  <2>1. /\ peerRow' \in [Subscriber -> RowKind]
        /\ peerRow'[s].key = awgJob[w].key /\ peerRow'[s].ip = awgJob[w].ip /\ peerRow'[s].active
        /\ \A t \in Subscriber \ {s} : peerRow'[t] = peerRow[t]
    <3>1. [key |-> awgJob[w].key, ip |-> awgJob[w].ip, active |-> TRUE] \in RowKind
      BY <1>1 DEF RowKind
    <3> QED BY <1>5, <3>1 DEF AddressInv, AddressTypes
  <2>2. AddressTypes'
    <3>1. awgJob' \in [AddressJob -> JobKind]
      BY <1>1, IdleAfter DEF JobAfter, AddressInv, AddressTypes
    <3>2. \A t \in Subscriber : /\ peerRow'[t].key = NoKey <=> peerRow'[t].ip = 0
                                /\ peerRow'[t].key = NoKey => ~peerRow'[t].active
      <4>1. awgJob[w].ip # 0
        BY <1>1 DEF Address
      <4> QED BY <1>1, <2>1, <4>1 DEF AddressInv, AddressTypes
    <3>3. \A v \in AddressJob :
       /\ awgJob'[v].at \in {"idle", "create", "remove", "readd"} <=> awgJob'[v].key = NoKey
       /\ awgJob'[v].at \notin {"idle", "slot", "slotLive", "slotConf"} => awgJob'[v].sub \in Subscriber
       /\ awgJob'[v].key # NoKey => awgJob'[v].ip \in Address
       /\ awgJob'[v].at = "readd" => peerRow'[awgJob'[v].sub].key # NoKey
      <4>1. IdleJob.key = NoKey
        BY IdleAfter
      <4> QED BY <1>1, <1>3, <2>1, <4>1 DEF AddressInv, AddressTypes
    <3> QED BY <1>1, <2>1, <3>1, <3>2, <3>3 DEF AddressInv, AddressTypes
  <2>3. Claims' \subseteq Claims
    <3>1. \A t \in Subscriber : peerRow'[t].key # NoKey => <<peerRow'[t].key, t, peerRow'[t].ip>> \in Claims
      BY <1>1, <1>2, <2>1, ClaimOf
    <3>2. \A v \in AddressJob : awgJob'[v].key # NoKey => <<awgJob'[v].key, awgJob'[v].sub, awgJob'[v].ip>> \in Claims
      BY <1>3, IdleAfter, ClaimOf
    <3>3. Claims' = {<<peerRow'[t].key, t, peerRow'[t].ip>> : t \in {t \in Subscriber : peerRow'[t].key # NoKey}}
                    \cup {<<awgJob'[v].key, awgJob'[v].sub, awgJob'[v].ip>> : v \in {v \in AddressJob : awgJob'[v].key # NoKey}}
      BY DEF Claims
    <3> QED BY <3>1, <3>2, <3>3
  <2>4. FilePairs' \subseteq FilePairs
    <3>1. IdleJob.copy = {}
      BY DEF IdleJob
    <3>2. \A v \in AddressJob : awgJob'[v].copy \subseteq awgJob[v].copy
      BY <1>3, <3>1
    <3>3. FilePairs' = conf \cup slots \cup UNION {awgJob'[v].copy : v \in AddressJob}
      BY <1>1 DEF FilePairs
    <3> QED BY <3>2, <3>3 DEF FilePairs
  <2>5. KeysInv'
    <3>1. ASSUME NEW v \in AddressJob, Creating(v)'
          PROVE  /\ \A t \in Subscriber : peerRow'[t].key # awgJob'[v].key
                 /\ \A u \in AddressJob \ {v} : awgJob'[u].key # awgJob'[v].key
      <4>1. v # w /\ Creating(v) /\ awgJob'[v] = awgJob[v]
        BY <1>3, <3>1 DEF Creating, Created
      <4>2. awgJob[v].key # NoKey /\ IdleJob.key = NoKey
        BY <4>1, IdleAfter DEF Creating, Created, AddressInv, AddressTypes
      <4>3. /\ \A t \in Subscriber : peerRow[t].key # awgJob[v].key
            /\ \A u \in AddressJob \ {v} : awgJob[u].key # awgJob[v].key
        BY <4>1 DEF AddressInv, KeysInv
      <4> QED BY <1>3, <2>1, <4>1, <4>2, <4>3
    <3>2. /\ \A c, d \in Claims' : c[1] = d[1] => c = d
          /\ \A c \in Claims' : c[1] <= keysMade'
          /\ \A p \in FilePairs' : p[1] <= keysMade'
          /\ \A p \in FilePairs', c \in Claims' : p[1] = c[1] => p[2] = c[3]
      BY <1>1, <2>3, <2>4 DEF AddressInv, KeysInv
    <3> QED BY <3>1, <3>2 DEF KeysInv
  <2>6. IpsInv'
    <3>1. \A v \in AddressJob : /\ Creating(v)' => v # w /\ Creating(v) /\ awgJob'[v] = awgJob[v]
                                /\ Slotting(v)' => Slotting(v) /\ awgJob'[v] = awgJob[v]
      BY <1>3 DEF Creating, Created, Slotting
    <3>2. \A u, t \in Subscriber : peerRow'[u].ip = peerRow'[t].ip /\ peerRow'[u].ip # 0 => u = t
      BY <1>5, <2>1 DEF AddressInv, IpsInv
    <3>3. \A v \in AddressJob, t \in Subscriber :
            Creating(v)' /\ peerRow'[t].ip = awgJob'[v].ip => awgJob'[v].ip \in disturbed'
      BY <1>1, <2>1, <3>1 DEF AddressInv, IpsInv
    <3>4. \A u, v \in AddressJob :
            Creating(u)' /\ Creating(v)' /\ awgJob'[u].ip = awgJob'[v].ip /\ u # v => awgJob'[u].ip \in disturbed'
      BY <1>1, <3>1 DEF AddressInv, IpsInv
    <3>5. \A v \in AddressJob : Slotting(v)' => awgJob'[v].ip >= SlotFloor
      BY <3>1 DEF AddressInv, IpsInv
    <3> QED BY <3>2, <3>3, <3>4, <3>5 DEF IpsInv
  <2>7. LockInv'
    <3>1. \A v \in AddressJob : UnderLock(v)' => UnderLock(v)
      BY <1>3 DEF UnderLock, Locked
    <3>2. ASSUME NEW v \in AddressJob, Restoring(v)'
          PROVE  /\ awgJob'[v].copy \subseteq conf'
                 /\ peerRow'[awgJob'[v].sub].key = awgJob'[v].key
                    \/ (peerRow'[awgJob'[v].sub].active /\ awgJob'[v].ip \in disturbed')
      <4>1. v # w /\ Restoring(v) /\ awgJob'[v] = awgJob[v]
        BY <1>3, <3>2 DEF Restoring
      <4>2. awgJob[v].sub \in Subscriber
        BY <4>1 DEF Restoring, AddressInv, AddressTypes
      <4>3. CASE awgJob[v].sub = s
        <5>1. awgJob[v].ip \in disturbed'
          BY <1>2, <4>1, <4>3 DEF InsertPeer
        <5> QED BY <1>1, <2>1, <4>1, <4>3, <5>1 DEF AddressInv, LockInv
      <4>4. CASE awgJob[v].sub # s
        BY <1>1, <2>1, <4>1, <4>2, <4>4 DEF AddressInv, LockInv
      <4> QED BY <4>3, <4>4
    <3> QED BY <3>1, <3>2 DEF AddressInv, LockInv
  <2>8. ServedInv'
    <3>1. \A ip : Clear(ip)' => Clear(ip)
      BY <1>1 DEF Clear
    <3>2. ASSUME NEW t \in Subscriber, peerRow'[t].active, Clear(peerRow'[t].ip), ~RowRemoved(t)'
          PROVE  <<peerRow'[t].key, peerRow'[t].ip>> \in kernel' \cap conf'
      <4>1. CASE t = s
        BY <1>1, <2>1, <3>2, <4>1 DEF AddressInv, ServedInv
      <4>2. CASE t # s
        <5>1. peerRow'[t] = peerRow[t]
          BY <2>1, <4>2
        <5>2. ~RowRemoved(t)
          BY <1>1, <1>3, <3>2, <5>1 DEF RowRemoved, Removing
        <5> QED BY <1>1, <3>2, <5>1, <5>2 DEF AddressInv, ServedInv
      <4> QED BY <4>1, <4>2
    <3>3. ASSUME NEW v \in AddressJob, Clear(awgJob'[v].ip)
          PROVE  /\ awgJob'[v].at \in {"persist", "insert", "append", "reactivate"} =>
                      <<awgJob'[v].key, awgJob'[v].ip>> \in kernel'
                 /\ awgJob'[v].at \in {"insert", "reactivate"} => <<awgJob'[v].key, awgJob'[v].ip>> \in conf'
      <4>1. CASE v = w
        BY <1>3, <4>1
      <4>2. CASE v # w
        BY <1>1, <1>3, <3>3, <4>2 DEF AddressInv, ServedInv
      <4> QED BY <4>1, <4>2
    <3>4. /\ \A t \in Subscriber : Clear(peerRow[t].ip)' => Clear(peerRow'[t].ip)
          /\ \A v \in AddressJob : Clear(awgJob[v].ip)' => Clear(awgJob'[v].ip)
      BY <3>1
    <3> QED BY <3>2, <3>3, <3>4 DEF ServedInv
  <2> QED BY <2>2, <2>5, <2>6, <2>7, <2>8 DEF AddressInv
<1>6. \/ peerRow' = peerRow
      \/ /\ peerRow' = [peerRow EXCEPT ![s] = [key |-> awgJob[w].key, ip |-> awgJob[w].ip, active |-> TRUE]]
         /\ \A t \in Subscriber \ {s} : peerRow[t].ip # awgJob[w].ip
  BY <1>2 DEF InsertPeer
<1> QED BY <1>4, <1>5, <1>6

(* The first free address: a set of natural numbers has a least element. *)
LEMMA FirstAddress ==
  ASSUME NEW S, S \subseteq Nat, S # {}
  PROVE  Min(S) \in S
<1> DEFINE R == {ss \in Nat \X Nat : ss[1] < ss[2]}
<1>1. IsWellFoundedOn(R, Nat)
  BY NatLessThanWellFounded DEF OpToRel
<1>2. PICK x \in S : \A y \in S : ~(<<y, x>> \in R)
  BY <1>1, WFMin
<1>3. ASSUME NEW y \in S
      PROVE  x <= y
  <2>1. x \in Nat /\ y \in Nat /\ ~(y < x)
    BY <1>2
  <2> QED BY <2>1
<1> QED BY <1>3 DEF Min

(* A new key, for a peer or for a slot, is nobody else's. *)
LEMMA FreshKeyStep ==
  ASSUME AddressInv, NEW w \in AddressJob, NEW j \in JobKind,
         awgJob[w].key = NoKey, awgJob' = [awgJob EXCEPT ![w] = j],
         keysMade' = keysMade + 1, j.key = keysMade + 1, j.ip \in Address,
         j.at = "live" \/ j.at = "slot", j.copy \subseteq FilePairs,
         j.at = "live" =>
           /\ j.sub \in Subscriber
           /\ \A s \in Subscriber : peerRow[s].ip = j.ip => j.ip \in disturbed'
           /\ \A v \in AddressJob : Creating(v) /\ awgJob[v].ip = j.ip => j.ip \in disturbed',
         j.at = "slot" => j.ip >= SlotFloor,
         UNCHANGED <<peerRow, kernel, conf>>, slots' \in {slots, slots \cup {<<j.key, j.ip>>}},
         disturbed \subseteq disturbed'
  PROVE  AddressInv'
<1>1. /\ awgJob'[w] = j /\ \A v \in AddressJob \ {w} : awgJob'[v] = awgJob[v]
      /\ awgJob' \in [AddressJob -> JobKind]
      /\ keysMade \in Nat /\ j.key # NoKey /\ j.key \in Nat
      /\ ~Creating(w) /\ ~Removing(w) /\ ~UnderLock(w) /\ awgJob[w].at \in {"idle", "create", "remove", "readd"}
  <2>1. awgJob[w].at \in {"idle", "create", "remove", "readd"} /\ keysMade \in Nat
    BY DEF AddressInv, AddressTypes
  <2>2. j.key \in Nat /\ j.key # NoKey
    BY <2>1 DEF NoKey
  <2> QED BY <2>1, <2>2 DEF AddressInv, AddressTypes, Creating, Created, Removing, UnderLock, Locked
<1>2. \A s \in Subscriber : peerRow[s].key \in Nat
  BY DEF AddressInv, AddressTypes, RowKind
<1>3. \A v \in AddressJob : awgJob[v].key \in Nat
  BY DEF AddressInv, AddressTypes, JobKind
<1>4. AddressTypes'
  <2>1. slots' \subseteq Nat \X Address
    BY <1>1 DEF AddressInv, AddressTypes
  <2>2. \A v \in AddressJob :
       /\ awgJob'[v].at \in {"idle", "create", "remove", "readd"} <=> awgJob'[v].key = NoKey
       /\ awgJob'[v].at \notin {"idle", "slot", "slotLive", "slotConf"} => awgJob'[v].sub \in Subscriber
       /\ awgJob'[v].key # NoKey => awgJob'[v].ip \in Address
       /\ awgJob'[v].at = "readd" => peerRow[awgJob'[v].sub].key # NoKey
    BY <1>1 DEF AddressInv, AddressTypes
  <2> QED BY <1>1, <2>1, <2>2 DEF AddressInv, AddressTypes
<1> DEFINE new == <<j.key, j.sub, j.ip>>
<1>5. Claims' \subseteq Claims \cup {new}
  <2>1. \A v \in AddressJob : awgJob'[v].key # NoKey =>
          <<awgJob'[v].key, awgJob'[v].sub, awgJob'[v].ip>> \in Claims \cup {new}
    BY <1>1, ClaimOf
  <2>2. Claims' = {<<peerRow[t].key, t, peerRow[t].ip>> : t \in {t \in Subscriber : peerRow[t].key # NoKey}}
                  \cup {<<awgJob'[v].key, awgJob'[v].sub, awgJob'[v].ip>> : v \in {v \in AddressJob : awgJob'[v].key # NoKey}}
    BY DEF Claims
  <2> HIDE DEF new
  <2> QED BY <2>1, <2>2, ClaimOf
<1>6. FilePairs' \subseteq FilePairs \cup {<<j.key, j.ip>>}
  <2>1. \A v \in AddressJob : awgJob'[v].copy \subseteq FilePairs
    BY <1>1 DEF FilePairs
  <2>2. FilePairs' = conf \cup slots' \cup UNION {awgJob'[v].copy : v \in AddressJob}
    BY DEF FilePairs
  <2>3. conf \subseteq FilePairs /\ slots' \subseteq FilePairs \cup {<<j.key, j.ip>>}
    BY DEF FilePairs
  <2> QED BY <2>1, <2>2, <2>3
<1>7. /\ \A c \in Claims : c[1] \in Nat /\ c[1] <= keysMade
      /\ \A p \in FilePairs : p[1] \in Nat /\ p[1] <= keysMade
      /\ new[1] = keysMade + 1 /\ new[3] = j.ip
      /\ <<j.key, j.ip>>[1] = keysMade + 1 /\ <<j.key, j.ip>>[2] = j.ip
  <2>1. \A c \in Claims : c[1] \in Nat
    BY <1>2, <1>3 DEF Claims
  <2>2. FilePairs \subseteq Nat \X Address
    <3>1. \A v \in AddressJob : awgJob[v].copy \subseteq Nat \X Address
      BY DEF AddressInv, AddressTypes, JobKind
    <3> QED BY <3>1 DEF FilePairs, AddressInv, AddressTypes
  <2> QED BY <2>1, <2>2 DEF AddressInv, KeysInv
<1> HIDE DEF new
<1>8. KeysInv'
  <2>1. \A c, d \in Claims' : c[1] = d[1] => c = d
    <3>1. \A c \in Claims : c[1] # new[1]
      BY <1>1, <1>7
    <3> QED BY <1>5, <3>1 DEF AddressInv, KeysInv
  <2>2. \A c \in Claims' : c[1] <= keysMade'
    BY <1>1, <1>5, <1>7
  <2>3. \A p \in FilePairs' : p[1] <= keysMade'
    <3>1. \A p \in FilePairs : p[1] <= keysMade + 1
      BY <1>1, <1>7
    <3> QED BY <1>1, <1>6, <1>7, <3>1
  <2>4. ASSUME NEW p \in FilePairs', NEW c \in Claims', p[1] = c[1]
        PROVE  p[2] = c[3]
    <3>1. CASE p \in FilePairs /\ c \in Claims
      BY <2>4, <3>1 DEF AddressInv, KeysInv
    <3>2. CASE p \in FilePairs /\ c = new
      BY <1>1, <1>7, <2>4, <3>2
    <3>3. CASE p = <<j.key, j.ip>> /\ c \in Claims
      BY <1>1, <1>7, <2>4, <3>3
    <3>4. CASE p = <<j.key, j.ip>> /\ c = new
      BY <1>7, <3>4
    <3> QED BY <1>5, <1>6, <3>1, <3>2, <3>3, <3>4
  <2>5. \A s \in Subscriber : peerRow[s].key # j.key
    <3>1. \A s \in Subscriber : peerRow[s].key # NoKey => peerRow[s].key <= keysMade
      <4>1. \A s \in Subscriber : <<peerRow[s].key, s, peerRow[s].ip>>[1] = peerRow[s].key
        OBVIOUS
      <4> QED BY <1>7, <4>1, ClaimOf
    <3> QED BY <1>1, <1>2, <3>1
  <2>6. \A v \in AddressJob : awgJob[v].key # j.key
    <3>1. \A v \in AddressJob : awgJob[v].key # NoKey => awgJob[v].key <= keysMade
      <4>1. \A v \in AddressJob : <<awgJob[v].key, awgJob[v].sub, awgJob[v].ip>>[1] = awgJob[v].key
        OBVIOUS
      <4> QED BY <1>7, <4>1, ClaimOf
    <3> QED BY <1>1, <1>3, <3>1
  <2>7. ASSUME NEW v \in AddressJob, Creating(v)'
        PROVE  /\ \A s \in Subscriber : peerRow'[s].key # awgJob'[v].key
               /\ \A u \in AddressJob \ {v} : awgJob'[u].key # awgJob'[v].key
    <3>1. CASE v = w
      BY <1>1, <2>5, <2>6, <3>1
    <3>2. CASE v # w
      <4>1. Creating(v) /\ awgJob'[v] = awgJob[v]
        BY <1>1, <2>7, <3>2 DEF Creating
      <4>2. /\ \A s \in Subscriber : peerRow[s].key # awgJob[v].key
            /\ \A u \in AddressJob \ {v} : awgJob[u].key # awgJob[v].key
        BY <4>1 DEF AddressInv, KeysInv
      <4> QED BY <1>1, <2>6, <3>2, <4>1, <4>2
    <3> QED BY <3>1, <3>2
  <2> QED BY <2>1, <2>2, <2>3, <2>4, <2>7 DEF KeysInv
<1>9. IpsInv'
  <2>1. \A v \in AddressJob \ {w} : /\ Creating(v)' => Creating(v) /\ awgJob'[v] = awgJob[v]
                                    /\ Slotting(v)' => Slotting(v) /\ awgJob'[v] = awgJob[v]
    BY <1>1 DEF Creating, Slotting
  <2>2. Creating(w)' => /\ j.at = "live" /\ \A s \in Subscriber : (peerRow[s].ip = j.ip => j.ip \in disturbed')
                        /\ \A v \in AddressJob : Creating(v) /\ awgJob[v].ip = j.ip => j.ip \in disturbed'
    BY <1>1 DEF Creating, Created
  <2>3. Slotting(w)' => j.ip >= SlotFloor
    BY <1>1 DEF Slotting
  <2>4. \A s, t \in Subscriber : peerRow'[s].ip = peerRow'[t].ip /\ peerRow'[s].ip # 0 => s = t
    BY DEF AddressInv, IpsInv
  <2>5. ASSUME NEW u \in AddressJob, NEW v \in AddressJob, Creating(u)', Creating(v)',
               awgJob'[u].ip = awgJob'[v].ip, u # v
        PROVE  awgJob'[u].ip \in disturbed'
    <3>1. CASE u = w
      BY <1>1, <2>1, <2>2, <2>5, <3>1
    <3>2. CASE v = w
      BY <1>1, <2>1, <2>2, <2>5, <3>2
    <3>3. CASE u # w /\ v # w
      BY <1>1, <2>1, <2>5, <3>3 DEF AddressInv, IpsInv
    <3> QED BY <3>1, <3>2, <3>3
  <2>6. ASSUME NEW v \in AddressJob, NEW s \in Subscriber, Creating(v)', peerRow'[s].ip = awgJob'[v].ip
        PROVE  awgJob'[v].ip \in disturbed'
    BY <1>1, <2>1, <2>2, <2>6 DEF AddressInv, IpsInv
  <2>7. \A v \in AddressJob : Slotting(v)' => awgJob'[v].ip >= SlotFloor
    BY <1>1, <2>1, <2>3 DEF AddressInv, IpsInv
  <2> QED BY <2>4, <2>5, <2>6, <2>7 DEF IpsInv
<1>10. LockInv'
  <2>1. \A v \in AddressJob : /\ UnderLock(v)' => UnderLock(v)
                              /\ Restoring(v)' => Restoring(v) /\ awgJob'[v] = awgJob[v]
    BY <1>1 DEF UnderLock, Locked, Restoring
  <2> QED BY <2>1 DEF AddressInv, LockInv
<1>11. ServedInv'
  <2>1. \A ip : Clear(ip)' => Clear(ip)
    BY DEF Clear
  <2>2. \A s \in Subscriber : RowRemoved(s) => RowRemoved(s)'
    BY <1>1 DEF RowRemoved, Removing
  <2>3. \A s \in Subscriber : peerRow'[s].active /\ Clear(peerRow[s].ip)' /\ ~RowRemoved(s)' =>
          <<peerRow'[s].key, peerRow'[s].ip>> \in kernel' \cap conf'
    <3>1. \A s \in Subscriber : Clear(peerRow[s].ip)' => Clear(peerRow[s].ip)
      BY <2>1
    <3> QED BY <2>2, <3>1 DEF AddressInv, ServedInv
  <2>4. ASSUME NEW v \in AddressJob, Clear(awgJob[v].ip)'
        PROVE  /\ awgJob'[v].at \in {"persist", "insert", "append", "reactivate"} =>
                    <<awgJob'[v].key, awgJob'[v].ip>> \in kernel'
               /\ awgJob'[v].at \in {"insert", "reactivate"} => <<awgJob'[v].key, awgJob'[v].ip>> \in conf'
    <3>1. CASE v = w
      BY <1>1, <3>1
    <3>2. CASE v # w
      <4>1. awgJob'[v] = awgJob[v] /\ Clear(awgJob[v].ip)
        BY <1>1, <2>1, <2>4, <3>2
      <4> QED BY <3>2, <4>1 DEF AddressInv, ServedInv
    <3> QED BY <3>1, <3>2
  <2> QED BY <2>3, <2>4 DEF ServedInv
<1> QED BY <1>4, <1>8, <1>9, <1>10, <1>11 DEF AddressInv

(* An address is picked, for a peer or for a slot. *)
LEMMA PickingSteps ==
  ASSUME AddressInv, NEW w \in AddressJob, PickAddress(w) \/ CreateSlot(w)
  PROVE  AddressInv'
<1>1. MaxAddress \in Nat /\ SlotFloor \in Nat /\ SlotFloor > 2 /\ NoKey = 0
  BY AddressConstants DEF NoKey
<1>2. /\ awgJob[w].key = NoKey /\ ~Removing(w) /\ ~UnderLock(w) /\ keysMade + 1 \in Nat
      /\ awgJob[w] \in JobKind /\ awgJob[w].copy \subseteq FilePairs
      /\ PickAddress(w) => awgJob[w].at = "create" /\ awgJob[w].sub \in Subscriber
  <2>1. awgJob[w].at \in {"create", "idle"} /\ (PickAddress(w) => awgJob[w].at = "create")
    BY DEF PickAddress, CreateSlot
  <2> QED BY <2>1 DEF AddressInv, AddressTypes, Removing, UnderLock, Locked, FilePairs
<1>3. ASSUME NEW ip \in Address, NEW at \in {"live", "slot"}
      PROVE  \E j \in JobKind : /\ j.at = at /\ j.key = keysMade + 1 /\ j.ip = ip /\ j.sub = awgJob[w].sub
                                /\ j.copy = awgJob[w].copy
                                /\ j = [awgJob[w] EXCEPT !.at = at, !.key = keysMade + 1, !.ip = ip]
  <2>1. PICK j : j = [awgJob[w] EXCEPT !.at = at, !.key = keysMade + 1, !.ip = ip]
    OBVIOUS
  <2> QED BY <1>2, <2>1 DEF JobKind, Created
<1>4. CASE PickAddress(w)
  <2>1. PICK readable \in BOOLEAN :
          LET free == Address \ (IF readable THEN UsedIps ELSE Ips(conf))
              pickedToo == {awgJob[v].ip : v \in {v \in AddressJob : awgJob[v].at \in Created}}
              unread == IF readable THEN {} ELSE {peerRow[t].ip : t \in Subscriber}
          IN IF peerRow[awgJob[w].sub].active \/ free = {}
             THEN Stop(w) /\ UNCHANGED <<keysMade, disturbed>>
             ELSE /\ keysMade < MaxKeys /\ keysMade' = keysMade + 1
                  /\ awgJob' = [awgJob EXCEPT ![w].at = "live", ![w].key = keysMade + 1, ![w].ip = Min(free)]
                  /\ disturbed' = disturbed \cup ({Min(free)} \cap (pickedToo \cup unread))
    BY <1>4 DEF PickAddress
  <2> DEFINE free == Address \ (IF readable THEN UsedIps ELSE Ips(conf))
             pickedToo == {awgJob[v].ip : v \in {v \in AddressJob : awgJob[v].at \in Created}}
             unread == IF readable THEN {} ELSE {peerRow[t].ip : t \in Subscriber}
  <2>2. CASE awgJob' = [awgJob EXCEPT ![w] = IdleJob] /\ UNCHANGED <<peerRow, slots, kernel, conf, keysMade, disturbed>>
    BY <1>2, <2>2, IdleAfter, QuietStep DEF Locked
  <2>3. CASE /\ free # {} /\ keysMade' = keysMade + 1
             /\ awgJob' = [awgJob EXCEPT ![w].at = "live", ![w].key = keysMade + 1, ![w].ip = Min(free)]
             /\ disturbed' = disturbed \cup ({Min(free)} \cap (pickedToo \cup unread))
    <3>1. free \subseteq Nat
      BY <1>1 DEF Address
    <3>2. PICK ip \in Address : ip = Min(free) /\ ip \in free
      <4> HIDE DEF free
      <4>1. Min(free) \in free
        BY <2>3, <3>1, FirstAddress
      <4> QED BY <4>1 DEF free
    <3>3. PICK j \in JobKind : /\ j.at = "live" /\ j.key = keysMade + 1 /\ j.ip = ip /\ j.sub = awgJob[w].sub
                               /\ j.copy = awgJob[w].copy
                               /\ j = [awgJob[w] EXCEPT !.at = "live", !.key = keysMade + 1, !.ip = ip]
      BY <1>3
    <3>4. awgJob' = [awgJob EXCEPT ![w] = j]
      BY <2>3, <3>2, <3>3
    <3>5. \A s \in Subscriber : peerRow[s].ip = ip => ip \in disturbed'
      <4>1. CASE readable
        BY <3>2, <4>1 DEF UsedIps
      <4>2. CASE ~readable
        BY <2>3, <3>2, <4>2
      <4> QED BY <4>1, <4>2
    <3>6. \A v \in AddressJob : Creating(v) /\ awgJob[v].ip = ip => ip \in disturbed'
      <4>1. ASSUME NEW v \in AddressJob, Creating(v), awgJob[v].ip = ip PROVE ip \in pickedToo
        BY <4>1 DEF Creating
      <4> HIDE DEF free, pickedToo, unread
      <4> QED BY <2>3, <3>2, <4>1
    <3>7. UNCHANGED <<peerRow, slots, kernel, conf>> /\ disturbed \subseteq disturbed'
      BY <1>4, <2>3 DEF PickAddress
    <3>8. /\ j.at = "live" \/ j.at = "slot"
          /\ j.at = "slot" => j.ip >= SlotFloor
          /\ j.at = "live" =>
               /\ j.sub \in Subscriber
               /\ \A s \in Subscriber : peerRow[s].ip = j.ip => j.ip \in disturbed'
               /\ \A v \in AddressJob : Creating(v) /\ awgJob[v].ip = j.ip => j.ip \in disturbed'
      BY <1>2, <1>4, <3>3, <3>5, <3>6
    <3>9. j.ip \in Address /\ j.key = keysMade + 1 /\ j.copy \subseteq FilePairs
          /\ slots' \in {slots, slots \cup {<<j.key, j.ip>>}}
      BY <1>2, <3>3, <3>7
    <3>10. awgJob[w].key = NoKey /\ keysMade' = keysMade + 1
      BY <1>2, <2>3
    <3> QED BY <3>4, <3>7, <3>8, <3>9, <3>10, FreshKeyStep
  <2>4. UNCHANGED <<peerRow, slots, kernel, conf>>
    BY <1>4 DEF PickAddress
  <2>5. \/ Stop(w) /\ UNCHANGED <<keysMade, disturbed>>
        \/ /\ free # {} /\ keysMade' = keysMade + 1
           /\ awgJob' = [awgJob EXCEPT ![w].at = "live", ![w].key = keysMade + 1, ![w].ip = Min(free)]
           /\ disturbed' = disturbed \cup ({Min(free)} \cap (pickedToo \cup unread))
    BY <2>1
  <2> QED BY <2>2, <2>3, <2>4, <2>5 DEF Stop
<1>5. CASE CreateSlot(w)
  <2>1. PICK free : free = (SlotFloor..MaxAddress) \ Ips(slots)
    OBVIOUS
  <2>2. /\ free # {} /\ keysMade' = keysMade + 1 /\ slots' = slots \cup {<<keysMade + 1, Min(free)>>}
        /\ awgJob' = [awgJob EXCEPT ![w].at = "slot", ![w].key = keysMade + 1, ![w].ip = Min(free)]
        /\ UNCHANGED <<peerRow, kernel, conf, disturbed>>
    BY <1>5, <2>1 DEF CreateSlot, InsertSlot
  <2>3. free \subseteq Nat
    BY <1>1, <2>1
  <2>4. PICK ip \in Address : ip = Min(free) /\ ip >= SlotFloor
    <3>1. Min(free) \in SlotFloor..MaxAddress
      BY <2>1, <2>2, <2>3, FirstAddress
    <3> QED BY <1>1, <3>1 DEF Address
  <2>5. PICK j \in JobKind : /\ j.at = "slot" /\ j.key = keysMade + 1 /\ j.ip = ip /\ j.sub = awgJob[w].sub
                             /\ j.copy = awgJob[w].copy
                             /\ j = [awgJob[w] EXCEPT !.at = "slot", !.key = keysMade + 1, !.ip = ip]
    BY <1>3
  <2>6. awgJob' = [awgJob EXCEPT ![w] = j]
    BY <2>2, <2>4, <2>5
  <2>7. /\ j.at = "live" \/ j.at = "slot"
        /\ j.at = "slot" => j.ip >= SlotFloor
        /\ j.at = "live" =>
             /\ j.sub \in Subscriber
             /\ \A s \in Subscriber : peerRow[s].ip = j.ip => j.ip \in disturbed'
             /\ \A v \in AddressJob : Creating(v) /\ awgJob[v].ip = j.ip => j.ip \in disturbed'
    BY <2>4, <2>5
  <2>8. j.ip \in Address /\ j.key = keysMade + 1 /\ j.copy \subseteq FilePairs
        /\ slots' \in {slots, slots \cup {<<j.key, j.ip>>}}
    BY <1>2, <2>2, <2>4, <2>5
  <2>9. UNCHANGED <<peerRow, kernel, conf>> /\ disturbed \subseteq disturbed' /\ keysMade' = keysMade + 1
    BY <2>2
  <2> QED BY <1>2, <2>6, <2>7, <2>8, <2>9, FreshKeyStep
<1> QED BY <1>4, <1>5

(* The peers are swept away for the slots. *)
LEMMA SweepStep ==
  ASSUME AddressInv, SweepPeers
  PROVE  AddressInv'
<1>1. UNCHANGED <<peerRow, slots, keysMade, awgJob>> /\ conf' = slots /\ kernel' = slots /\ disturbed' = Address
      /\ NodeLockFree
  BY DEF SweepPeers
<1>2. AddressTypes'
  BY <1>1 DEF AddressInv, AddressTypes
<1>3. Claims' = Claims
  BY <1>1 DEF Claims
<1>4. FilePairs' \subseteq FilePairs
  BY <1>1 DEF FilePairs
<1>5. KeysInv'
  <2>1. /\ \A c, d \in Claims' : c[1] = d[1] => c = d
        /\ \A c \in Claims' : c[1] <= keysMade'
        /\ \A p \in FilePairs' : p[1] <= keysMade'
        /\ \A p \in FilePairs', c \in Claims' : p[1] = c[1] => p[2] = c[3]
    BY <1>1, <1>3, <1>4 DEF AddressInv, KeysInv
  <2>2. \A v \in AddressJob : Creating(v)' =>
          /\ \A s \in Subscriber : peerRow'[s].key # awgJob'[v].key
          /\ \A u \in AddressJob \ {v} : awgJob'[u].key # awgJob'[v].key
    BY <1>1 DEF AddressInv, KeysInv, Creating
  <2> QED BY <2>1, <2>2 DEF KeysInv
<1>6. \A v \in AddressJob : awgJob[v].at \in Created \cup {"append", "reactivate"} => awgJob[v].ip \in disturbed'
  <2>1. \A v \in AddressJob : awgJob[v].at \in Created \cup {"append", "reactivate"} => awgJob[v].key # NoKey
    BY DEF AddressInv, AddressTypes, Created
  <2> QED BY <1>1, <2>1 DEF AddressInv, AddressTypes
<1>7. IpsInv'
  BY <1>1, <1>6 DEF AddressInv, IpsInv, Creating, Slotting
<1>8. LockInv'
  <2>1. \A v \in AddressJob : ~UnderLock(v)' /\ ~Restoring(v)'
    BY <1>1 DEF NodeLockFree, UnderLock, Restoring, Locked
  <2> QED BY <2>1 DEF LockInv
<1>9. ServedInv'
  <2>1. \A s \in Subscriber : peerRow[s].active => peerRow[s].ip \in disturbed'
    <3>1. \A s \in Subscriber : peerRow[s].active => peerRow[s].ip # 0
      BY DEF AddressInv, AddressTypes
    <3>2. \A s \in Subscriber : peerRow[s].ip \in {0} \cup Address
      BY DEF AddressInv, AddressTypes, RowKind
    <3> QED BY <1>1, <3>1, <3>2
  <2>2. \A s \in Subscriber : peerRow'[s].active => ~Clear(peerRow[s].ip)'
    BY <1>1, <2>1 DEF Clear
  <2>3. \A v \in AddressJob : awgJob'[v].at \in {"persist", "insert", "append", "reactivate"} => ~Clear(awgJob[v].ip)'
    BY <1>1, <1>6 DEF Clear, Created
  <2>4. \A v \in AddressJob : awgJob'[v].at \in {"insert", "reactivate"} =>
          awgJob'[v].at \in {"persist", "insert", "append", "reactivate"}
    OBVIOUS
  <2> QED BY <2>2, <2>3, <2>4 DEF ServedInv
<1> QED BY <1>2, <1>5, <1>7, <1>8, <1>9 DEF AddressInv

(* ActivePeerServed: the interface and the file serve a peer whose row says
   active, unless one of the known disturbances took its address (create_peer,
   remove_peer, readd_peer, ensure_awg_slot, reconcile_awg_peers), for any
   number of subscriptions, threads, addresses and keys. *)
THEOREM ActivePeerIsServed == AddressSpec => []ActivePeerServed
<1>1. AddressInit => AddressInv
  <2> SUFFICES ASSUME AddressInit
               PROVE  AddressInv
    OBVIOUS
  <2>1. /\ \A s \in Subscriber : peerRow[s].key = NoKey /\ peerRow[s].ip = 0 /\ ~peerRow[s].active
        /\ peerRow \in [Subscriber -> RowKind] /\ conf = {} /\ slots = {} /\ keysMade = 0
    BY DEF AddressInit, RowKind, NoKey
  <2>2. /\ awgJob \in [AddressJob -> JobKind]
        /\ \A w \in AddressJob : awgJob[w].at = "idle" /\ awgJob[w].key = NoKey /\ awgJob[w].copy = {}
    <3>1. awgJob = [w \in AddressJob |-> IdleJob] /\ IdleJob.copy = {}
      BY DEF AddressInit, IdleJob
    <3>2. AddressJob # {} => IdleJob \in JobKind /\ IdleJob.at = "idle" /\ IdleJob.key = NoKey
      BY IdleAfter DEF JobAfter
    <3> QED BY <3>1, <3>2
  <2>3. Claims = {} /\ FilePairs = {}
    BY <2>1, <2>2 DEF Claims, FilePairs
  <2>4. AddressTypes
    BY <2>1, <2>2 DEF AddressTypes
  <2>5. KeysInv
    BY <2>2, <2>3 DEF KeysInv, Creating, Created
  <2>6. IpsInv
    BY <2>1, <2>2 DEF IpsInv, Creating, Created, Slotting
  <2>7. LockInv
    BY <2>2 DEF LockInv, UnderLock, Locked, Restoring
  <2>8. ServedInv
    BY <2>1, <2>2 DEF ServedInv
  <2> QED BY <2>4, <2>5, <2>6, <2>7, <2>8 DEF AddressInv
<1>2. AddressInv /\ [AddressNext]_addressVars => AddressInv'
  <2> SUFFICES ASSUME AddressInv, [AddressNext]_addressVars
               PROVE  AddressInv'
    OBVIOUS
  <2>1. CASE UNCHANGED addressVars
    BY <2>1 DEF addressVars, AddressInv, AddressTypes, KeysInv, Claims, FilePairs, IpsInv, LockInv, ServedInv,
                RowRemoved, Removing, Creating, Restoring, Slotting, UnderLock, Clear
  <2>2. CASE SweepPeers
    BY <2>2, SweepStep
  <2>3. ASSUME NEW w \in AddressJob, AddressStep(w)
        PROVE  AddressInv'
    BY <2>3, AskingSteps, LockingSteps, RoutingSteps, FileSteps, RemoveLiveStep, RewriteStep, FlagSteps,
       InsertStep, PickingSteps DEF AddressStep
  <2> QED BY <2>1, <2>2, <2>3 DEF AddressNext
<1>3. AddressInv => ActivePeerServed
  <2> SUFFICES ASSUME AddressInv, NEW s \in Subscriber, peerRow[s].active, peerRow[s].ip < SlotFloor,
                      peerRow[s].ip \notin disturbed, ~BeingRemoved(s)
               PROVE  <<peerRow[s].key, peerRow[s].ip>> \in kernel /\ <<peerRow[s].key, peerRow[s].ip>> \in conf
    BY DEF ActivePeerServed
  <2>1. ~RowRemoved(s)
    BY DEF RowRemoved, BeingRemoved, Removing
  <2> QED BY <2>1 DEF AddressInv, ServedInv, Clear
<1> QED BY <1>1, <1>2, <1>3, PTL DEF AddressSpec

-----------------------------------------------------------------------------
(* The bot's chats. A trial row that may be claimed anew stands for no trial
   that was made and kept, and neither does one that is just being made. *)
TrialInv ==
  /\ trial \in [row : {"none", "claimed", "delivered", "failed"}, made : Nat, lost : Nat]
  /\ trial.made <= 1 + trial.lost
  /\ trial.row \in {"none", "failed"} => trial.made <= trial.lost
  /\ work.at = "trial" => trial.row = "claimed" /\ trial.made <= trial.lost
  /\ "at" \in DOMAIN work

(* At most one order of the chat is open. *)
ChatOrderKind ==
  [kind : Buying, status : {"waiting", "auto", "provisioning", "delivered", "failed", "cancelled"}, aged : BOOLEAN]
OneOpenInv ==
  /\ chatOrders \in Seq(ChatOrderKind)
  /\ \A o, p \in Open(chatOrders) : o = p

(* Orders whose status is left alone or closed leave at most one open. *)
LEMMA OrdersClosed ==
  ASSUME OneOpenInv, NEW orders, orders \in Seq(ChatOrderKind), DOMAIN orders = DOMAIN chatOrders,
         \A o \in DOMAIN orders :
           orders[o].status = chatOrders[o].status \/ orders[o].status \notin {"waiting", "auto"}
  PROVE  Open(orders) \subseteq Open(chatOrders) /\ \A o, p \in Open(orders) : o = p
<1>1. Open(orders) \subseteq Open(chatOrders)
  BY DEF Open
<1> QED BY <1>1 DEF OneOpenInv

(* One order's status is set. *)
LEMMA OneClosed ==
  ASSUME OneOpenInv, NEW o, NEW s \in {"provisioning", "delivered", "failed", "cancelled"},
         chatOrders' = [chatOrders EXCEPT ![o].status = s]
  PROVE  OneOpenInv'
<1>1. chatOrders \in Seq(ChatOrderKind) /\ DOMAIN chatOrders = 1..Len(chatOrders) /\ Len(chatOrders) \in Nat
      /\ \A p \in DOMAIN chatOrders : chatOrders[p] \in ChatOrderKind
  BY DEF OneOpenInv
<1>2. \A x \in ChatOrderKind : [x EXCEPT !.status = s] \in ChatOrderKind /\ [x EXCEPT !.status = s].status = s
  BY DEF ChatOrderKind
<1>3. CASE o \in DOMAIN chatOrders
  <2>1. PICK x \in ChatOrderKind : x = [chatOrders[o] EXCEPT !.status = s] /\ x.status = s
    BY <1>1, <1>2, <1>3
  <2>2. chatOrders' = [chatOrders EXCEPT ![o] = x]
    BY <2>1
  <2>3. chatOrders' \in Seq(ChatOrderKind) /\ DOMAIN chatOrders' = DOMAIN chatOrders
    BY <1>1, <1>3, <2>1, <2>2
  <2>4. \A p \in DOMAIN chatOrders' : chatOrders'[p].status = chatOrders[p].status \/ chatOrders'[p].status = s
    BY <1>1, <1>3, <2>1, <2>2
  <2> QED BY <2>3, <2>4, OrdersClosed DEF OneOpenInv
<1>4. CASE o \notin DOMAIN chatOrders
  <2>1. chatOrders' = chatOrders
    BY <1>1, <1>4
  <2> QED BY <2>1 DEF OneOpenInv
<1> QED BY <1>3, <1>4

(* Old orders are cancelled, or those that wait. *)
LEMMA SomeCancelled ==
  ASSUME OneOpenInv, NEW S
  PROVE  LET orders == [o \in DOMAIN chatOrders |->
                          IF o \in S THEN [chatOrders[o] EXCEPT !.status = "cancelled"] ELSE chatOrders[o]]
         IN /\ orders \in Seq(ChatOrderKind)
            /\ Open(orders) \subseteq Open(chatOrders) /\ \A o, p \in Open(orders) : o = p
<1> DEFINE orders == [o \in DOMAIN chatOrders |->
                        IF o \in S THEN [chatOrders[o] EXCEPT !.status = "cancelled"] ELSE chatOrders[o]]
<1>1. chatOrders \in Seq(ChatOrderKind) /\ DOMAIN chatOrders = 1..Len(chatOrders) /\ Len(chatOrders) \in Nat
      /\ \A p \in DOMAIN chatOrders : chatOrders[p] \in ChatOrderKind
  BY DEF OneOpenInv
<1>2. \A x \in ChatOrderKind :
        [x EXCEPT !.status = "cancelled"] \in ChatOrderKind /\ [x EXCEPT !.status = "cancelled"].status = "cancelled"
  BY DEF ChatOrderKind
<1>3. DOMAIN orders = DOMAIN chatOrders
  OBVIOUS
<1>4. \A o \in DOMAIN chatOrders :
        /\ orders[o] \in ChatOrderKind
        /\ orders[o].status = chatOrders[o].status \/ orders[o].status = "cancelled"
  BY <1>1, <1>2
<1>5. orders \in [1..Len(chatOrders) -> ChatOrderKind]
  BY <1>1, <1>4
<1>6. orders \in Seq(ChatOrderKind)
  BY <1>1, <1>5
<1> HIDE DEF orders
<1>7. Open(orders) \subseteq Open(chatOrders) /\ \A o, p \in Open(orders) : o = p
  BY <1>3, <1>4, <1>6, OrdersClosed
<1> QED BY <1>6, <1>7 DEF orders

(* The orders once old ones have expired. *)
LEMMA FreshKeepsOne ==
  ASSUME OneOpenInv
  PROVE  /\ FreshOrders \in Seq(ChatOrderKind) /\ \A o, p \in Open(FreshOrders) : o = p
         /\ chatOrders' = FreshOrders => OneOpenInv'
<1>1. FreshOrders \in Seq(ChatOrderKind) /\ \A o, p \in Open(FreshOrders) : o = p
  BY SomeCancelled DEF FreshOrders
<1> QED BY <1>1 DEF OneOpenInv

(* A new order is opened only while none is. *)
LEMMA OneCreated ==
  ASSUME OneOpenInv, CreateOrder
  PROVE  OneOpenInv'
<1>1. FreshOrders \in Seq(ChatOrderKind) /\ \A o, p \in Open(FreshOrders) : o = p
  BY FreshKeepsOne
<1>2. NewOrder \in ChatOrderKind
  BY DEF CreateOrder, NewOrder, ChatOrderKind
<1>3. chatOrders' = Append(FreshOrders, NewOrder) /\ ActiveOrder = 0
  BY DEF CreateOrder
<1>4. Open(FreshOrders) = {}
  <2>1. SUFFICES ASSUME Open(FreshOrders) # {}
                 PROVE  FALSE
    OBVIOUS
  <2>2. PICK o \in Open(FreshOrders) : TRUE
    BY <2>1
  <2>3. o \in Nat /\ o > 0
    BY <1>1 DEF Open
  <2>4. \A p \in Open(FreshOrders) : p <= o
    BY <1>1, <2>3
  <2>5. Latest(Open(FreshOrders)) \in Open(FreshOrders)
    BY <2>4 DEF Latest
  <2>6. Latest(Open(FreshOrders)) = o
    BY <1>1, <2>5
  <2> QED BY <1>3, <2>1, <2>3, <2>6 DEF ActiveOrder
<1>5. /\ chatOrders' \in Seq(ChatOrderKind) /\ DOMAIN chatOrders' = 1..Len(FreshOrders) + 1
      /\ \A o \in 1..Len(FreshOrders) : chatOrders'[o] = FreshOrders[o]
      /\ Len(FreshOrders) \in Nat /\ DOMAIN FreshOrders = 1..Len(FreshOrders)
  BY <1>1, <1>2, <1>3
<1>6. Open(chatOrders') \subseteq {Len(FreshOrders) + 1}
  BY <1>4, <1>5 DEF Open
<1> QED BY <1>5, <1>6 DEF OneOpenInv

(* The other steps close orders or leave them alone. *)
LEMMA OneOpenStep ==
  ASSUME OneOpenInv, [ChatNext]_chatVars
  PROVE  OneOpenInv'
<1>1. ASSUME UNCHANGED chatOrders
      PROVE  OneOpenInv'
  BY <1>1 DEF OneOpenInv
<1>2. CASE UNCHANGED chatVars
  BY <1>1, <1>2 DEF chatVars
<1>3. CASE FetchClicks \/ TakeClick \/ Conflict \/ BotCrash \/ \E c \in DOMAIN guards : GuardAges(c)
  BY <1>1, <1>3 DEF FetchClicks, TakeClick, Conflict, BotCrash, GuardAges
<1>4. ASSUME NEW again \in BOOLEAN, Raise(again)
      PROVE  OneOpenInv'
  <2>1. chatOrders' = chatOrders \/ chatOrders' = [chatOrders EXCEPT ![work.order].status = "failed"]
    BY <1>4 DEF Raise
  <2> QED BY <1>1, <2>1, OneClosed
<1>5. ASSUME NEW kind \in ClickKind, NEW o \in {0} \cup DOMAIN chatOrders, ClickMade(kind, o)
      PROVE  OneOpenInv'
  BY <1>1, <1>5 DEF ClickMade
<1>6. ASSUME NEW o \in DOMAIN chatOrders, PayOrder(o) \/ \E outcome \in {"delivered", "failed"} : RecoverOrder(o, outcome)
      PROVE  OneOpenInv'
  <2>1. PICK s \in {"delivered", "failed"} : chatOrders' = [chatOrders EXCEPT ![o].status = s]
    BY <1>6 DEF PayOrder, RecoverOrder
  <2> QED BY <2>1, OneClosed
<1>7. ASSUME NEW o \in DOMAIN chatOrders, OrderAges(o)
      PROVE  OneOpenInv'
  <2>1. chatOrders \in Seq(ChatOrderKind) /\ DOMAIN chatOrders = 1..Len(chatOrders) /\ Len(chatOrders) \in Nat
        /\ \A p \in DOMAIN chatOrders : chatOrders[p] \in ChatOrderKind
    BY DEF OneOpenInv
  <2>2. PICK x : x = [chatOrders[o] EXCEPT !.aged = TRUE]
    OBVIOUS
  <2>3. x \in ChatOrderKind /\ x.status = chatOrders[o].status
    BY <2>1, <2>2 DEF ChatOrderKind
  <2>4. chatOrders' = [chatOrders EXCEPT ![o] = x]
    BY <1>7, <2>2 DEF OrderAges
  <2>5. chatOrders' \in Seq(ChatOrderKind) /\ DOMAIN chatOrders' = DOMAIN chatOrders
    BY <2>1, <2>3, <2>4
  <2>6. \A p \in DOMAIN chatOrders' : chatOrders'[p].status = chatOrders[p].status
    BY <2>1, <2>3, <2>4
  <2> QED BY <2>5, <2>6, OrdersClosed DEF OneOpenInv
<1>8. CASE ChatStep
  <2>1. CASE CreateOrder
    BY <2>1, OneCreated
  <2>2. CASE CancelWaiting
    <3>1. PICK S : S = {o \in DOMAIN chatOrders : chatOrders[o].status = "waiting"}
      OBVIOUS
    <3>2. chatOrders' = [o \in DOMAIN chatOrders |->
                           IF o \in S THEN [chatOrders[o] EXCEPT !.status = "cancelled"] ELSE chatOrders[o]]
      BY <2>2, <3>1 DEF CancelWaiting
    <3> QED BY <3>2, SomeCancelled DEF OneOpenInv
  <2>3. CASE SettleOrder
    <3>1. \/ chatOrders' = chatOrders
          \/ chatOrders' = [chatOrders EXCEPT ![work.order].status = "provisioning"]
      BY <2>3 DEF SettleOrder
    <3> QED BY <1>1, <3>1, OneClosed
  <2>4. CASE HandOver
    BY <2>4, OneClosed DEF HandOver
  <2>5. CASE RevokeOrder
    <3>1. \/ chatOrders' = chatOrders
          \/ chatOrders' = [chatOrders EXCEPT ![work.order].status = "cancelled"]
      BY <2>5 DEF RevokeOrder
    <3> QED BY <1>1, <3>1, OneClosed
  <2>6. CASE AlreadyInFlight \/ ResumeResult \/ ResumeOrder \/ ClaimAction \/ ReuseOrder
             \/ ReadAndClaim \/ ShowMenu \/ ShowWhereWeAre
    <3>1. chatOrders' = chatOrders \/ chatOrders' = FreshOrders
      BY <2>6 DEF AlreadyInFlight, ResumeResult, ResumeOrder, ClaimAction, ReuseOrder, ReadAndClaim, ShowMenu,
                  ShowWhereWeAre, Expire
    <3> QED BY <1>1, <3>1, FreshKeepsOne
  <2>7. CASE AnnounceOrder \/ SettleRefused \/ TellCustomer \/ FinishHandler \/ IssueThing \/ AnnounceThing
             \/ ConfirmOrder \/ FinishDecision \/ ForgetWaiting \/ ClaimTrial \/ MakeTrial
             \/ MarkTrialDelivered \/ SendTrial
    BY <1>1, <2>7 DEF AnnounceOrder, SettleRefused, TellCustomer, FinishHandler, IssueThing, AnnounceThing,
                  ConfirmOrder, FinishDecision, ForgetWaiting, ClaimTrial, MakeTrial, MarkTrialDelivered, SendTrial
  <2> QED BY <1>8, <2>1, <2>2, <2>3, <2>4, <2>5, <2>6, <2>7 DEF ChatStep
<1> QED BY <1>2, <1>3, <1>4, <1>5, <1>6, <1>7, <1>8 DEF ChatNext

(* The handler's record: where it goes on. *)
LEMMA GoesOn ==
  ASSUME "at" \in DOMAIN work
  PROVE  /\ \A step : Proceed(step) => "at" \in DOMAIN work' /\ work'.at = step
         /\ \A step : \A o : work' = [work EXCEPT !.at = step, !.order = o] =>
              "at" \in DOMAIN work' /\ work'.at = step
         /\ \A step, order, read : work' = [work EXCEPT !.at = step, !.order = order, !.read = read] =>
              "at" \in DOMAIN work' /\ work'.at = step
         /\ "at" \in DOMAIN Idle /\ Idle.at = "idle"
BY DEF Proceed, Idle

(* A trial is claimed, made and marked by the one thread of the loop. *)
LEMMA TrialStep ==
  ASSUME TrialInv, [ChatNext]_chatVars
  PROVE  TrialInv'
<1>1. /\ trial \in [row : {"none", "claimed", "delivered", "failed"}, made : Nat, lost : Nat]
      /\ trial.made \in Nat /\ trial.lost \in Nat /\ "at" \in DOMAIN work
  BY DEF TrialInv
<1>2. ASSUME UNCHANGED trial, work'.at = "trial" => work.at = "trial", "at" \in DOMAIN work'
      PROVE  TrialInv'
  BY <1>2 DEF TrialInv
<1>3. CASE UNCHANGED <<trial, work>>
  BY <1>2, <1>3 DEF TrialInv
<1>4. CASE UNCHANGED trial /\ work' = Idle
  BY <1>1, <1>2, <1>4, GoesOn
<1>5. ASSUME NEW step, UNCHANGED trial, Proceed(step), step # "trial"
      PROVE  TrialInv'
  BY <1>1, <1>2, <1>5, GoesOn
<1>6. CASE UNCHANGED chatVars
  BY <1>3, <1>6 DEF chatVars
<1>7. CASE FetchClicks \/ Conflict \/ \E c \in DOMAIN guards : GuardAges(c)
  BY <1>3, <1>7 DEF FetchClicks, Conflict, GuardAges
<1>8. CASE TakeClick
  <2>1. "at" \in DOMAIN work' /\ work'.at = "begin"
    BY <1>8 DEF TakeClick, Idle
  <2> QED BY <1>2, <1>8, <2>1 DEF TakeClick
<1>9. CASE BotCrash
  BY <1>4, <1>9 DEF BotCrash
<1>10. ASSUME NEW again \in BOOLEAN, Raise(again)
       PROVE  TrialInv'
  <2>1. work' = Idle
    BY <1>10 DEF Raise, Answered
  <2>2. CASE work.at \notin {"trial", "trialMade", "trialSent"}
    BY <1>4, <1>10, <2>1, <2>2 DEF Raise
  <2>3. CASE work.at \in {"trial", "trialMade", "trialSent"}
    <3>1. PICK more \in Nat : /\ trial' = [trial EXCEPT !.row = "failed", !.lost = trial.lost + more]
                              /\ more = 0 <=> work.at = "trial"
      <4>1. PICK n \in Nat : n = IF work.at = "trial" THEN 0 ELSE 1
        OBVIOUS
      <4>2. trial' = [trial EXCEPT !.row = "failed", !.lost = trial.lost + n]
        BY <1>10, <2>3, <4>1 DEF Raise, AtStep
      <4>3. n = 0 <=> work.at = "trial"
        BY <4>1
      <4> QED BY <4>2, <4>3
    <3>2. trial.lost + more \in Nat /\ trial.made <= trial.lost + more
      BY <1>1, <3>1 DEF TrialInv
    <3>3. /\ trial' \in [row : {"none", "claimed", "delivered", "failed"}, made : Nat, lost : Nat]
          /\ trial'.made = trial.made /\ trial'.lost = trial.lost + more
      BY <1>1, <3>1, <3>2
    <3>4. trial'.made <= 1 + trial'.lost
      BY <1>1, <3>1, <3>2, <3>3
    <3> QED BY <1>1, <2>1, <3>2, <3>3, <3>4, GoesOn DEF TrialInv
  <2> QED BY <2>2, <2>3
<1>11. CASE \/ \E kind \in ClickKind, o \in {0} \cup DOMAIN chatOrders : ClickMade(kind, o)
            \/ \E o \in DOMAIN chatOrders :
                 \/ PayOrder(o) \/ OrderAges(o)
                 \/ \E outcome \in {"delivered", "failed"} : RecoverOrder(o, outcome)
  BY <1>3, <1>11 DEF ClickMade, PayOrder, OrderAges, RecoverOrder
<1>12. CASE ChatStep
  <2>1. CASE ClaimTrial
    <3>1. CASE trial.row \in {"none", "failed"}
      <4>1. trial' = [trial EXCEPT !.row = "claimed"] /\ Proceed("trial")
        BY <2>1, <3>1 DEF ClaimTrial
      <4>2. /\ trial' \in [row : {"none", "claimed", "delivered", "failed"}, made : Nat, lost : Nat]
            /\ trial'.made = trial.made /\ trial'.lost = trial.lost /\ trial'.row = "claimed"
        BY <1>1, <4>1
      <4> QED BY <1>1, <3>1, <4>1, <4>2, GoesOn DEF TrialInv
    <3>2. CASE trial.row \notin {"none", "failed"}
      BY <1>5, <2>1, <3>2 DEF ClaimTrial
    <3> QED BY <3>1, <3>2
  <2>2. CASE MakeTrial
    <3>1. trial' = [trial EXCEPT !.made = trial.made + 1] /\ Proceed("trialMade") /\ work.at = "trial"
      BY <2>2 DEF MakeTrial, AtStep
    <3>2. trial.made <= trial.lost /\ trial.made + 1 \in Nat
      BY <1>1, <3>1 DEF TrialInv
    <3>3. /\ trial' \in [row : {"none", "claimed", "delivered", "failed"}, made : Nat, lost : Nat]
          /\ trial'.made = trial.made + 1 /\ trial'.lost = trial.lost /\ trial'.row = trial.row
      BY <1>1, <3>1, <3>2
    <3>4. trial.row \notin {"none", "failed"}
      BY <3>1 DEF TrialInv
    <3>5. trial'.made <= 1 + trial'.lost
      BY <1>1, <3>2, <3>3
    <3>6. "at" \in DOMAIN work' /\ work'.at = "trialMade"
      BY <1>1, <3>1, GoesOn
    <3>7. work'.at # "trial" /\ trial'.row \notin {"none", "failed"}
      BY <3>3, <3>4, <3>6
    <3> QED BY <3>3, <3>5, <3>6, <3>7 DEF TrialInv
  <2>3. CASE MarkTrialDelivered
    <3>1. trial' = [trial EXCEPT !.row = "delivered"] /\ Proceed("trialSent")
      BY <2>3 DEF MarkTrialDelivered
    <3>2. /\ trial' \in [row : {"none", "claimed", "delivered", "failed"}, made : Nat, lost : Nat]
          /\ trial'.made = trial.made /\ trial'.lost = trial.lost /\ trial'.row = "delivered"
      BY <1>1, <3>1
    <3>3. "at" \in DOMAIN work' /\ work'.at = "trialSent"
      BY <1>1, <3>1, GoesOn
    <3>4. trial'.made <= 1 + trial'.lost
      BY <1>1, <3>2 DEF TrialInv
    <3>5. work'.at # "trial" /\ trial'.row \notin {"none", "failed"}
      BY <3>2, <3>3
    <3> QED BY <3>2, <3>3, <3>4, <3>5 DEF TrialInv
  <2>4. CASE AlreadyInFlight \/ SettleRefused \/ FinishHandler \/ SendTrial
    BY <1>4, <2>4 DEF AlreadyInFlight, SettleRefused, FinishHandler, SendTrial, Kept, Answered
  <2>5. CASE ReuseOrder \/ CreateOrder
    <3>1. UNCHANGED trial
      BY <2>5 DEF ReuseOrder, CreateOrder, Kept
    <3>2. \/ Proceed("send")
          \/ \E step \in {"settle", "announce"} : \E o : work' = [work EXCEPT !.at = step, !.order = o]
      <4>1. CASE ReuseOrder
        BY <4>1 DEF ReuseOrder
      <4>2. CASE CreateOrder
        <5>1. work' = [work EXCEPT !.at = IF Click.kind = "promo" THEN "settle" ELSE "announce",
                                   !.order = Len(chatOrders) + 1]
          BY <4>2 DEF CreateOrder
        <5> QED BY <5>1
      <4> QED BY <2>5, <4>1, <4>2
    <3>3. "at" \in DOMAIN work' /\ work'.at # "trial"
      <4>1. CASE Proceed("send")
        <5>1. "at" \in DOMAIN work' /\ work'.at = "send"
          BY <1>1, <4>1, GoesOn
        <5> QED BY <5>1
      <4>2. ASSUME NEW step \in {"settle", "announce"}, NEW o, work' = [work EXCEPT !.at = step, !.order = o]
            PROVE  "at" \in DOMAIN work' /\ work'.at # "trial"
        <5>1. "at" \in DOMAIN work' /\ work'.at = step
          BY <1>1, <4>2, GoesOn
        <5> QED BY <5>1
      <4> QED BY <3>2, <4>1, <4>2
    <3> QED BY <1>2, <3>1, <3>3
  <2>6. CASE ReadAndClaim
    <3>1. work' = [work EXCEPT !.at = "claimed", !.order = Click.order, !.read = FreshOrders[Click.order].status]
          /\ UNCHANGED trial
      BY <2>6 DEF ReadAndClaim, Kept
    <3>2. "at" \in DOMAIN work' /\ work'.at = "claimed"
      BY <1>1, <3>1, GoesOn
    <3> QED BY <1>2, <3>1, <3>2
  <2>7. CASE SettleOrder \/ ConfirmOrder
    <3>1. UNCHANGED trial
      BY <2>7 DEF SettleOrder, ConfirmOrder, Kept
    <3>2. \E step \in {"finish", "provision", "settle"} : Proceed(step)
      BY <2>7 DEF SettleOrder, ConfirmOrder
    <3> QED BY <1>5, <3>1, <3>2
  <2>8. CASE ResumeResult \/ ResumeOrder \/ ClaimAction \/ AnnounceOrder \/ HandOver \/ TellCustomer
             \/ IssueThing \/ AnnounceThing \/ RevokeOrder \/ FinishDecision \/ ShowMenu \/ ShowWhereWeAre
             \/ CancelWaiting \/ ForgetWaiting
    <3>1. UNCHANGED trial
      BY <2>8 DEF ResumeResult, ResumeOrder, ClaimAction, AnnounceOrder, HandOver, TellCustomer, IssueThing,
                  AnnounceThing, RevokeOrder, FinishDecision, ShowMenu, ShowWhereWeAre, CancelWaiting,
                  ForgetWaiting, Kept
    <3>2. \E step \in {"resend", "send", "claimed", "tell", "finish", "announce", "forget"} : Proceed(step)
      BY <2>8 DEF ResumeResult, ResumeOrder, ClaimAction, AnnounceOrder, HandOver, TellCustomer, IssueThing,
                  AnnounceThing, RevokeOrder, FinishDecision, ShowMenu, ShowWhereWeAre, CancelWaiting,
                  ForgetWaiting
    <3> QED BY <1>5, <3>1, <3>2
  <2> QED BY <1>12, <2>1, <2>2, <2>3, <2>4, <2>5, <2>6, <2>7, <2>8 DEF ChatStep
<1> QED BY <1>6, <1>7, <1>8, <1>9, <1>10, <1>11, <1>12 DEF ChatNext

(* NoDuplicates: one open order of the chat and one trial, however often a
   button is pressed, a click redelivered or a handler broken off
   (create_order, _fresh_active_order_for_chat, claim_trial_redemption), for
   any number of clicks, deaths and failures. *)
THEOREM NothingIsDuplicated == ChatSpec => []NoDuplicates
<1> DEFINE Inv == OneOpenInv /\ TrialInv
<1>1. ChatInit => Inv
  <2> SUFFICES ASSUME ChatInit
               PROVE  OneOpenInv /\ TrialInv
    OBVIOUS
  <2>1. OneOpenInv
    <3>1. chatOrders = <<>> /\ DOMAIN chatOrders = {}
      BY DEF ChatInit
    <3> QED BY <3>1 DEF OneOpenInv, Open
  <2>2. TrialInv
    <3>1. trial = [row |-> "none", made |-> 0, lost |-> 0] /\ work = Idle
      BY DEF ChatInit
    <3> QED BY <3>1 DEF TrialInv, Idle
  <2> QED BY <2>1, <2>2
<1>2. Inv /\ [ChatNext]_chatVars => Inv'
  BY OneOpenStep, TrialStep
<1>3. Inv => NoDuplicates
  <2> SUFFICES ASSUME OneOpenInv, TrialInv
               PROVE  NoDuplicates
    OBVIOUS
  <2>1. Cardinality(Open(chatOrders)) <= 1
    <3>1. CASE Open(chatOrders) = {}
      <4>1. Cardinality(Open(chatOrders)) = 0
        BY <3>1, FS_EmptySet
      <4> QED BY <4>1
    <3>2. CASE Open(chatOrders) # {}
      <4>1. PICK o : Open(chatOrders) = {o}
        BY <3>2 DEF OneOpenInv
      <4>2. Cardinality(Open(chatOrders)) = 1
        BY <4>1, FS_Singleton
      <4> QED BY <4>2
    <3> QED BY <3>1, <3>2
  <2> QED BY <2>1 DEF NoDuplicates, TrialInv
<1> QED BY <1>1, <1>2, <1>3, PTL DEF ChatSpec
=============================================================================
