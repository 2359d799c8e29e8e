---------------------------- MODULE ReferralLedger ----------------------------
(***************************************************************************)
(* The referral programme: who is attributed to whom, what a delivered     *)
(* order earns its referrer, and what an administrator pays out.           *)
(* Orders come from the web shop (with the code of a link) and from chats; *)
(* their commissions are booked by whatever thread delivers them, also     *)
(* between the moment an administrator's balance is read and the payout.   *)
(***************************************************************************)
EXTENDS Integers, Sequences, FiniteSetsExt

CONSTANTS
  Customer,    \* chat ids and e-mail addresses
  Referrer,    \* active rows of referrers
  NoReferrer,
  MaxOrders,   \* bound on the orders created
  MaxPayouts,  \* bound on the payouts
  Stamp        \* what the clocks of the nodes show when a commission is booked

ASSUME ReferralAssumption ==
  /\ NoReferrer \notin Referrer
  /\ MaxOrders \in Nat
  /\ MaxPayouts \in Nat
  /\ Stamp \subseteq Nat

VARIABLES
  attribution, \* referral_attributions: the referrer of each customer
  shopOrder,   \* orders, in the order of their ids
  ledger,      \* referral_ledger, in the order of id
  paidOut,     \* sum of referral_payouts of each referrer
  pressed,     \* the payout an administrator has confirmed: amount and referrer
  payouts,
  misdated         \* whose commission was stamped before one he had: the clocks differ

referralVars == <<attribution, shopOrder, ledger, paidOut, pressed, payouts, misdated>>

AnyReferrer == Referrer \cup {NoReferrer}
OrderState == {"waiting", "delivered", "cancelled"}
BookState == {"none", "due", "done"} \* of the commission of an order

(* A discounted purchase and a renewal earn different commissions. *)
Commission(o) == IF shopOrder[o].renews = 0 THEN 2 ELSE 1

Rows(r) == {i \in DOMAIN ledger : ledger[i].referrer = r}
Amounts == [i \in DOMAIN ledger |-> ledger[i].amount]
Earned(r) == SumFunctionOnSet(Amounts, Rows(r))
MarkedPaid(r) == SumFunctionOnSet(Amounts, {i \in Rows(r) : ledger[i].marked})
Balance(r) == Max({0, Earned(r) - paidOut[r]})

ReferralTypeOK ==
  /\ attribution \in [Customer -> AnyReferrer]
  /\ shopOrder \in Seq([customer : Customer, ref : AnyReferrer, renews : 0..MaxOrders,
                        brought : AnyReferrer, state : OrderState, books : BookState])
  /\ Len(shopOrder) <= MaxOrders
  /\ ledger \in Seq([referrer : Referrer, order : 1..MaxOrders, amount : {1, 2},
                     at : Stamp, marked : BOOLEAN])
  /\ paidOut \in [Referrer -> 0..(2 * MaxOrders)]
  /\ pressed \in [referrer : AnyReferrer, amount : 0..(2 * MaxOrders)]
  /\ payouts \in 0..MaxPayouts
  /\ misdated \subseteq Referrer

NoPress == [referrer |-> NoReferrer, amount |-> 0]

ReferralInit ==
  /\ attribution = [c \in Customer |-> NoReferrer]
  /\ shopOrder = <<>>
  /\ ledger = <<>>
  /\ paidOut = [r \in Referrer |-> 0]
  /\ pressed = NoPress
  /\ payouts = 0
  /\ misdated = {}

OrdersOf(c) == {o \in DOMAIN shopOrder : shopOrder[o].customer = c}
Delivered(o) == shopOrder[o].state = "delivered"

(* attach_referral: the first link counts, and only for a customer with no
   order that is delivered or waiting for its payment; a refunded one is neither. *)
Attach(c, r) ==
  IF \E o \in OrdersOf(c) : Delivered(o) \/ shopOrder[o].state = "waiting"
    THEN attribution
    ELSE [attribution EXCEPT ![c] = IF @ = NoReferrer THEN r ELSE @]

(* /start ref_... in a chat. *)
FollowLink(c, r) ==
  /\ attribution' = Attach(c, r)
  /\ UNCHANGED <<shopOrder, ledger, paidOut, pressed, payouts, misdated>>

(* create_order of the web shop and of the bot: whoever has no delivered order
   gets the discount of the link, or of the attribution, and the order then
   names its referrer; a web order attaches the customer first. `brought' is the
   customer's attribution at that time: no column, it is kept to be compared. *)
NewOrder(c, ref, first, brought) ==
  [customer |-> c, ref |-> ref, renews |-> first, brought |-> brought,
   state |-> "waiting", books |-> "none"]

PlaceOrder(c, r) ==
  /\ Len(shopOrder) < MaxOrders
  /\ LET ref == IF \E o \in OrdersOf(c) : Delivered(o) THEN NoReferrer ELSE r
     IN /\ attribution' = IF ref = NoReferrer THEN attribution ELSE Attach(c, ref)
        /\ shopOrder' = Append(shopOrder, NewOrder(c, ref, 0, attribution'[c]))
  /\ UNCHANGED <<ledger, paidOut, pressed, payouts, misdated>>

(* Anyone may renew the profile of a delivered purchase. *)
PlaceRenewal(c, first) ==
  /\ Len(shopOrder) < MaxOrders
  /\ shopOrder[first].renews = 0
  /\ Delivered(first)
  /\ shopOrder' = Append(shopOrder, NewOrder(c, NoReferrer, first, attribution[c]))
  /\ UNCHANGED <<attribution, ledger, paidOut, pressed, payouts, misdated>>

(* An order is delivered, also one that a late payment found cancelled, or it is
   cancelled, also a delivered one that is refunded. The thread that delivers it
   books its commission afterwards, whatever becomes of the order meanwhile. *)
CloseOrder(o, s) ==
  /\ shopOrder[o].state # s
  /\ LET books == IF s = "delivered" /\ shopOrder[o].books = "none" THEN "due"
                 ELSE shopOrder[o].books
     IN shopOrder' = [shopOrder EXCEPT ![o].state = s, ![o].books = books]
  /\ UNCHANGED <<attribution, ledger, paidOut, pressed, payouts, misdated>>

(* The referrer a commission goes to: the customer's attribution, the one the
   order names, and for a renewal those of the profile's first order. *)
ReferrerOf(o) ==
  LET first == IF shopOrder[o].renews = 0 THEN o ELSE shopOrder[o].renews
      asked == <<attribution[shopOrder[o].customer], shopOrder[o].ref,
                 attribution[shopOrder[first].customer], shopOrder[first].ref>>
      found == {k \in 1..4 : asked[k] # NoReferrer}
  IN IF found = {} THEN NoReferrer ELSE asked[Min(found)]

(* Does row j of a referrer come no later than row i, in ORDER BY created_at, id? *)
NoLater(j, i) == ledger[j].at < ledger[i].at \/ (ledger[j].at = ledger[i].at /\ j <= i)

(* create_referral_ledger_for_order, in a transaction of its own after the
   delivery; order_public_id is unique. The row is stamped by the clock of the
   node that books it. *)
BookCommission(o) ==
  /\ shopOrder[o].books = "due"
  /\ LET r == ReferrerOf(o)
     IN \/ /\ r = NoReferrer
           /\ shopOrder' = [shopOrder EXCEPT ![o].books = "none"]
           /\ UNCHANGED <<ledger, misdated>>
        \/ /\ r # NoReferrer
           /\ shopOrder' = [shopOrder EXCEPT ![o].books = "done"]
           /\ \E at \in Stamp :
                /\ ledger' = Append(ledger, [referrer |-> r, order |-> o, amount |-> Commission(o),
                                            at |-> at, marked |-> FALSE])
                /\ misdated' = IF \E i \in Rows(r) : ledger[i].at > at THEN misdated \cup {r} ELSE misdated
  /\ UNCHANGED <<attribution, paidOut, pressed, payouts>>

(* execute_referral_payout up to the payout: the amount of a button, which may
   be old, or all of the debt it reads now. *)
PressPayout(r, amount) ==
  /\ pressed = NoPress
  /\ payouts < MaxPayouts
  /\ Balance(r) > 0
  /\ pressed' = [referrer |-> r, amount |-> Min({amount, Balance(r)})]
  /\ UNCHANGED <<attribution, shopOrder, ledger, paidOut, payouts, misdated>>

(* Is row i covered once `sum' has been paid, the oldest rows first? *)
Covered(r, sum, i) ==
  SumFunctionOnSet(Amounts, {j \in Rows(r) : NoLater(j, i)}) <= sum

(* Faulty variant of the next definition: the amount pressed is paid. *)
_PayAgain ==
  /\ pressed # NoPress
  /\ paidOut' = [paidOut EXCEPT ![pressed.referrer] = @ + pressed.amount]
  /\ pressed' = IF payouts < MaxPayouts - 1 THEN pressed ELSE NoPress
  /\ payouts' = payouts + 1
  /\ UNCHANGED <<attribution, shopOrder, ledger, misdated>>

(* create_referral_payout: at most the debt, which is read again. *)
CreatePayout ==
  /\ pressed # NoPress
  /\ LET r == pressed.referrer
         amount == Min({pressed.amount, Balance(r)})
     IN /\ paidOut' = [paidOut EXCEPT ![r] = @ + amount]
        /\ ledger' = [i \in DOMAIN ledger |->
             [ledger[i] EXCEPT !.marked =
                @ \/ (i \in Rows(r) /\ Covered(r, paidOut[r] + amount, i))]]
  /\ pressed' = NoPress
  /\ payouts' = payouts + 1
  /\ UNCHANGED <<attribution, shopOrder, misdated>>

ReferralNext ==
  \/ \E c \in Customer :
       \/ \E r \in Referrer : FollowLink(c, r)
       \/ \E r \in AnyReferrer : PlaceOrder(c, r)
       \/ \E o \in DOMAIN shopOrder : PlaceRenewal(c, o)
  \/ \E o \in DOMAIN shopOrder :
       \/ \E s \in {"delivered", "cancelled"} : CloseOrder(o, s)
       \/ BookCommission(o)
  \/ \E r \in Referrer, amount \in 1..(2 * MaxOrders) : PressPayout(r, amount)
  \/ CreatePayout

ReferralSpec == ReferralInit /\ [][ReferralNext]_referralVars
-----------------------------------------------------------------------------
(* Who brought a customer is settled once: what he orders from then on earns for
   that referrer, whatever link it was ordered through, whenever it is delivered,
   refunded or booked, and whatever links he follows after a refund. *)
AttributionSticks ==
  \A i \in DOMAIN ledger :
    LET o == shopOrder[ledger[i].order]
    IN o.brought # NoReferrer => ledger[i].referrer = o.brought /\ attribution[o.customer] = o.brought

(* The books of each referrer agree whatever is booked between two payouts:
   they hold the sales of his own customers, what was paid out was earned
   before, none stays pending once the debt was paid in full, and the rows
   marked paid are covered by payouts. The last is not so for whoever got a row
   stamped before one he had: the older ones are paid first, and a row that
   turns up among them leaves one marked that was. *)
BooksAgree ==
  /\ AttributionSticks
  /\ \A r \in Referrer :
       /\ paidOut[r] <= Earned(r)
       /\ paidOut[r] = Earned(r) => MarkedPaid(r) = Earned(r)
       /\ r \notin misdated => MarkedPaid(r) <= paidOut[r]
=============================================================================
