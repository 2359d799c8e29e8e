------------------------------ MODULE BotChat ------------------------------
(***************************************************************************)
(* The bot's side of one customer's chat and of the administrator's: a     *)
(* loop that fetches clicks from Telegram and handles one after the other, *)
(* while webhooks pay orders and time passes. Telegram keeps a click until *)
(* the loop asks for a later one, so a process that dies gets the clicks   *)
(* it was handling again; a guard kept in the chat's session answers a     *)
(* repeated click. Calls of Telegram or of the store may fail anywhere.    *)
(* The promo code's uses, the settling of an order by other processes and  *)
(* the race of chat-wide cancellations are in CheckoutIntake and           *)
(* OrderLifecycle.                                                         *)
(***************************************************************************)
EXTENDS Naturals, Sequences, FiniteSets

CONSTANTS
  MaxClicks,      \* bound: clicks of both
  MaxBotMishaps,  \* bound: deaths of the bot's process and failing calls
  ClickKind       \* the kinds of clicks to consider

Buying == {"buy", "renew", "promo"}   \* create_standard_, _renewal_ and _promo_order
Issuing == {"issue"}                  \* an invite, a promo code or a profile of the administrator
Deciding == {"confirm", "revoke"}     \* the administrator's buttons under an order
Looking == {"menu", "look", "cancel", "trial"}

ASSUME ChatAssumption ==
  /\ MaxClicks \in Nat /\ MaxBotMishaps \in Nat
  /\ ClickKind \subseteq Buying \cup Issuing \cup Deciding \cup Looking

VARIABLES
  clicks,      \* what was clicked, in Telegram's order: kind, order, and whether such an order had been delivered
  confirmed,   \* the clicks Telegram has forgotten
  lastTaken,   \* the loop's offset; 0 after a start
  batch,       \* fetched, not yet taken
  work,        \* the click in the handler: its number, the step, its order, the status it read
  polling,     \* FALSE once another program fetches the clicks (409)
  handled,     \* clicks whose handler has ended, by an answer or by its own failure
  guards,      \* ACTION_GUARD_KEY in the sessions of the customer and of the administrator
  screen,      \* the state of the customer's session
  shown,       \* order_public_id in it
  chatOrders,  \* the customer's orders: kind, status, whether older than six hours
  trial,       \* trial_redemptions: the row, profiles made, and failures after one was made
  botMishaps   \* deaths and failures so far

chatVars == <<clicks, confirmed, lastTaken, batch, work, polling, handled, guards, screen, shown,
              chatOrders, trial, botMishaps>>

loopVars == <<clicks, confirmed, lastTaken, batch, polling>>
sessionVars == <<guards, screen, shown>>

Idle == [click |-> 0, at |-> "idle", order |-> 0, read |-> "none"]
NoGuard == [key |-> [kind |-> "none", order |-> 0], status |-> "none", shows |-> "nothing", old |-> FALSE]

Click == clicks[work.click]
Key == [kind |-> Click.kind, order |-> Click.order]
Chat == IF Click.kind \in Issuing \cup Deciding THEN "admin" ELSE "customer"
Matches == guards[Chat].key = Key

-----------------------------------------------------------------------------
(* What the handlers share. *)

(* _expire_stale_waiting_orders: orders that waited for six hours are
   cancelled, and the session forgets the guard if it was about them. *)
Stale == {o \in DOMAIN chatOrders : chatOrders[o].status = "waiting" /\ chatOrders[o].aged}
FreshOrders ==
  [o \in DOMAIN chatOrders |-> IF o \in Stale THEN [chatOrders[o] EXCEPT !.status = "cancelled"] ELSE chatOrders[o]]
Forgets == Stale # {} /\ (shown \in Stale \/ screen = "waiting")
FreshGuards == IF Forgets THEN [guards EXCEPT !["customer"] = NoGuard] ELSE guards
FreshScreen == IF Forgets THEN "menu" ELSE screen
FreshShown == IF Forgets THEN 0 ELSE shown

(* _fresh_active_order_for_chat, after that: the latest that is open. *)
Open(orders) == {o \in DOMAIN orders : orders[o].status \in {"waiting", "auto"}}
Latest(s) == CHOOSE o \in s : \A p \in s : p <= o
ActiveOrder == IF Open(FreshOrders) = {} THEN 0 ELSE Latest(Open(FreshOrders))

InFlight(g) == [NoGuard EXCEPT !.key = g, !.status = "in_flight"]
Completed(g, shows) == [NoGuard EXCEPT !.key = g, !.status = "completed", !.shows = shows]
OrderKey(o) == [kind |-> chatOrders[o].kind, order |-> 0]

(* _clear_action_if_matches. *)
Cleared == IF Matches /\ guards[Chat].status = "in_flight" THEN [guards EXCEPT ![Chat] = NoGuard] ELSE guards

(* _send_existing_public_order. *)
ShowExisting(o) ==
  IF FreshOrders[o].status = "waiting"
    THEN screen' = "waiting" /\ shown' = o
    ELSE screen' = FreshScreen /\ shown' = FreshShown

Expire == chatOrders' = FreshOrders /\ guards' = FreshGuards /\ screen' = FreshScreen /\ shown' = FreshShown

Proceed(step) == work' = [work EXCEPT !.at = step]
AtStep(step) == work.at = step
Answered == work' = Idle /\ handled' = handled \cup {work.click}
Kept == UNCHANGED <<loopVars, trial, botMishaps>>

-----------------------------------------------------------------------------
(* The loop. *)

(* get_updates(offset): Telegram forgets what is before the offset. *)
FetchClicks ==
  /\ polling /\ work = Idle /\ batch = <<>>
  /\ confirmed' = IF lastTaken > confirmed THEN lastTaken ELSE confirmed
  /\ batch' = [i \in 1..(Len(clicks) - confirmed') |-> confirmed' + i]
  /\ batch' # <<>> \/ confirmed' # confirmed
  /\ UNCHANGED <<clicks, lastTaken, work, polling, handled, sessionVars, chatOrders, trial, botMishaps>>

(* As a faulty variant: the offset of the whole batch is remembered at once. *)
_TakeClick ==
  /\ work = Idle /\ batch # <<>>
  /\ lastTaken' = batch[Len(batch)] /\ batch' = Tail(batch)
  /\ work' = [Idle EXCEPT !.click = Head(batch), !.at = "begin"]
  /\ UNCHANGED <<clicks, confirmed, polling, handled, sessionVars, chatOrders, trial, botMishaps>>
(* The offset is moved before the click is handled. *)
TakeClick ==
  /\ work = Idle /\ batch # <<>>
  /\ lastTaken' = Head(batch) /\ batch' = Tail(batch)
  /\ work' = [Idle EXCEPT !.click = Head(batch), !.at = "begin"]
  /\ UNCHANGED <<clicks, confirmed, polling, handled, sessionVars, chatOrders, trial, botMishaps>>

(* Another program asks for the clicks: this one goes on with the periodic
   tasks only. *)
Conflict ==
  /\ polling /\ work = Idle /\ batch = <<>>
  /\ polling' = FALSE
  /\ UNCHANGED <<clicks, confirmed, lastTaken, batch, work, handled, sessionVars, chatOrders, trial, botMishaps>>

(* A call fails. Orders and issued things clear their guard, a trial is marked
   failed, the administrator's decisions keep theirs. The apology may fail as
   well (again), and the commands typed as text have none: then the exception
   ends the batch, the rest of which is fetched anew. *)
Raise(again) ==
  /\ work # Idle /\ botMishaps < MaxBotMishaps
  /\ botMishaps' = botMishaps + 1
  /\ batch' = IF again THEN <<>> ELSE batch
  /\ guards' = IF Click.kind \in Buying \cup Issuing /\ ~AtStep("begin") THEN Cleared ELSE guards
  /\ chatOrders' = IF AtStep("provision") THEN [chatOrders EXCEPT ![work.order].status = "failed"] ELSE chatOrders
  /\ trial' = IF work.at \in {"trial", "trialMade", "trialSent"}
                THEN [trial EXCEPT !.row = "failed", !.lost = @ + (IF AtStep("trial") THEN 0 ELSE 1)]
                ELSE trial
  /\ Answered
  /\ UNCHANGED <<clicks, confirmed, lastTaken, polling, screen, shown>>

(* The process dies and is started again. *)
BotCrash ==
  /\ botMishaps < MaxBotMishaps
  /\ botMishaps' = botMishaps + 1
  /\ work' = Idle /\ batch' = <<>> /\ lastTaken' = 0 /\ polling' = TRUE
  /\ UNCHANGED <<clicks, confirmed, handled, sessionVars, chatOrders, trial>>

-----------------------------------------------------------------------------
(* The guard. *)

(* A click on what is being done, and one on what was done: the order is shown
   again if it is still open, the subscription or the thing issued is sent
   again. *)
AlreadyInFlight ==
  /\ AtStep("begin") /\ Click.kind \in Buying \cup Issuing \cup Deciding
  /\ Matches /\ guards[Chat].status = "in_flight" /\ ~guards[Chat].old
  /\ IF Click.kind \in Deciding THEN Expire ELSE UNCHANGED <<sessionVars, chatOrders>>
  /\ Answered
  /\ Kept

ResumeResult ==
  /\ AtStep("begin") /\ Matches /\ guards[Chat].status = "completed" /\ guards[Chat].shows # "order"
  /\ IF Click.kind \in Deciding
       THEN Expire
       ELSE /\ screen' = IF Chat = "customer" THEN "menu" ELSE screen
            /\ UNCHANGED <<guards, shown, chatOrders>>
  /\ Proceed("resend")
  /\ Kept /\ UNCHANGED handled

ResumeOrder ==
  /\ AtStep("begin") /\ Matches /\ guards[Chat].shows = "order" /\ ActiveOrder # 0
  /\ chatOrders' = FreshOrders /\ guards' = FreshGuards /\ ShowExisting(ActiveOrder)
  /\ Proceed("send")
  /\ Kept /\ UNCHANGED handled

(* _claim_action. Whoever found an order shown before to be gone has expired
   old ones meanwhile. *)
ClaimAction ==
  /\ AtStep("begin") /\ Click.kind \in Buying \cup Issuing
  /\ IF Matches /\ guards[Chat].status = "completed"
       THEN /\ guards[Chat].shows = "order" /\ ActiveOrder = 0
            /\ chatOrders' = FreshOrders /\ shown' = FreshShown /\ screen' = FreshScreen
       ELSE /\ Matches => guards[Chat].old
            /\ UNCHANGED <<chatOrders, shown, screen>>
  /\ guards' = [guards EXCEPT ![Chat] = InFlight(Key)]
  /\ Proceed("claimed")
  /\ Kept /\ UNCHANGED handled

-----------------------------------------------------------------------------
(* Orders. *)

(* An order of the chat is open: it is shown, or settled if it is the same
   free one. *)
ReuseOrder ==
  /\ AtStep("claimed") /\ Click.kind \in Buying /\ ActiveOrder # 0
  /\ chatOrders' = FreshOrders
  /\ IF Click.kind = "promo" /\ FreshOrders[ActiveOrder].status = "auto"
       THEN /\ work' = [work EXCEPT !.at = "settle", !.order = ActiveOrder]
            /\ guards' = FreshGuards /\ shown' = FreshShown /\ screen' = FreshScreen
       ELSE /\ Proceed("send") /\ guards' = (IF Forgets THEN FreshGuards ELSE Cleared) /\ ShowExisting(ActiveOrder)
  /\ Kept /\ UNCHANGED handled

NewOrder == [kind |-> Click.kind, status |-> IF Click.kind = "promo" THEN "auto" ELSE "waiting", aged |-> FALSE]

(* As a faulty variant: only orders that wait for a payment count as open. *)
_CreateOrder ==
  /\ AtStep("claimed") /\ Click.kind \in Buying /\ \A o \in DOMAIN chatOrders : FreshOrders[o].status # "waiting"
  /\ chatOrders' = Append(FreshOrders, NewOrder)
  /\ guards' = FreshGuards /\ shown' = FreshShown /\ screen' = FreshScreen
  /\ work' = [work EXCEPT !.at = IF Click.kind = "promo" THEN "settle" ELSE "announce",
                          !.order = Len(chatOrders) + 1]
  /\ Kept /\ UNCHANGED handled
CreateOrder ==
  /\ AtStep("claimed") /\ Click.kind \in Buying /\ ActiveOrder = 0
  /\ chatOrders' = Append(FreshOrders, NewOrder)
  /\ guards' = FreshGuards /\ shown' = FreshShown /\ screen' = FreshScreen
  /\ work' = [work EXCEPT !.at = IF Click.kind = "promo" THEN "settle" ELSE "announce",
                          !.order = Len(chatOrders) + 1]
  /\ Kept /\ UNCHANGED handled

(* _complete_action, before the customer and the administrators are told. *)
AnnounceOrder ==
  /\ AtStep("announce") /\ Click.kind \in Buying
  /\ guards' = [guards EXCEPT !["customer"] = Completed(Key, "order")]
  /\ screen' = "waiting" /\ shown' = work.order
  /\ Proceed("send")
  /\ Kept /\ UNCHANGED <<handled, chatOrders>>

(* complete_order claims the order; one delivered meanwhile is left as it is. *)
SettleOrder ==
  /\ AtStep("settle")
  /\ IF chatOrders[work.order].status = "delivered"
       THEN Proceed("finish") /\ UNCHANGED chatOrders
       ELSE /\ chatOrders[work.order].status # "provisioning"
            /\ chatOrders' = [chatOrders EXCEPT ![work.order].status = "provisioning"]
            /\ Proceed("provision")
  /\ Kept /\ UNCHANGED <<handled, sessionVars>>

(* Somebody else is provisioning it: OrderStateError, the click is dropped. *)
SettleRefused ==
  /\ AtStep("settle") /\ chatOrders[work.order].status = "provisioning"
  /\ guards' = IF Click.kind \in Buying THEN Cleared ELSE guards
  /\ Answered
  /\ Kept /\ UNCHANGED <<screen, shown, chatOrders>>

HandOver ==
  /\ AtStep("provision")
  /\ chatOrders' = [chatOrders EXCEPT ![work.order].status = "delivered"]
  /\ Proceed("tell")
  /\ Kept /\ UNCHANGED <<handled, sessionVars>>

(* The end of complete_order: the customer's guard is completed with the
   subscription, whoever completed the order. *)
TellDelivered(o) ==
  /\ guards' = [guards EXCEPT !["customer"] = Completed(OrderKey(o), "subscription")]
  /\ screen' = "menu" /\ shown' = o

TellCustomer ==
  /\ AtStep("tell")
  /\ TellDelivered(work.order)
  /\ Proceed("finish")
  /\ Kept /\ UNCHANGED <<handled, chatOrders>>

(* The last messages. *)
FinishHandler ==
  /\ AtStep("send") \/ AtStep("resend") \/ (AtStep("finish") /\ Click.kind \notin Deciding)
  /\ Answered
  /\ Kept /\ UNCHANGED <<sessionVars, chatOrders>>

-----------------------------------------------------------------------------
(* The administrator. *)

(* Something is made that the shop has no other record of by which a second
   one could be refused. *)
IssueThing ==
  /\ AtStep("claimed") /\ Click.kind \in Issuing
  /\ Proceed("announce")
  /\ Kept /\ UNCHANGED <<handled, sessionVars, chatOrders>>

AnnounceThing ==
  /\ AtStep("announce") /\ Click.kind \in Issuing
  /\ guards' = [guards EXCEPT !["admin"] = Completed(Key, "thing")]
  /\ Proceed("send")
  /\ Kept /\ UNCHANGED <<handled, screen, shown, chatOrders>>

(* admin:confirm and admin:cancel read the order after old ones have expired,
   then claim; what they do depends on what they have read. *)
ReadAndClaim ==
  /\ AtStep("begin") /\ Click.kind \in Deciding
  /\ Matches => guards[Chat].status = "in_flight" /\ guards[Chat].old
  /\ chatOrders' = FreshOrders /\ shown' = FreshShown /\ screen' = FreshScreen
  /\ guards' = [FreshGuards EXCEPT !["admin"] = InFlight(Key)]
  /\ work' = [work EXCEPT !.at = "claimed", !.order = Click.order, !.read = FreshOrders[Click.order].status]
  /\ Kept /\ UNCHANGED handled

ConfirmOrder ==
  /\ AtStep("claimed") /\ Click.kind = "confirm"
  /\ Proceed(IF work.read \in {"cancelled", "delivered"} THEN "finish" ELSE "settle")
  /\ Kept /\ UNCHANGED <<handled, sessionVars, chatOrders>>

(* The status is overwritten, and the customer's session is told. *)
RevokeOrder ==
  /\ AtStep("claimed") /\ Click.kind = "revoke"
  /\ IF work.read \in {"cancelled", "delivered"}
       THEN UNCHANGED <<chatOrders, sessionVars>>
       ELSE /\ chatOrders' = [chatOrders EXCEPT ![work.order].status = "cancelled"]
            /\ guards' = [guards EXCEPT !["customer"] = NoGuard] /\ screen' = "menu" /\ shown' = 0
  /\ Proceed("finish")
  /\ Kept /\ UNCHANGED handled

FinishDecision ==
  /\ AtStep("finish") /\ Click.kind \in Deciding
  /\ guards' = [guards EXCEPT !["admin"] = Completed(Key, "state")]
  /\ Proceed("send")
  /\ Kept /\ UNCHANGED <<handled, screen, shown, chatOrders>>

-----------------------------------------------------------------------------
(* Other buttons of the customer. *)

(* show_public_menu. *)
ShowMenu ==
  /\ AtStep("begin") /\ Click.kind = "menu"
  /\ chatOrders' = FreshOrders /\ guards' = FreshGuards /\ screen' = "menu" /\ shown' = FreshShown
  /\ Proceed("send")
  /\ Kept /\ UNCHANGED handled

(* /start, /pay, the promo pages: back to the open order, to what was done
   last, or to the menu. *)
ShowWhereWeAre ==
  /\ AtStep("begin") /\ Click.kind = "look"
  /\ chatOrders' = FreshOrders /\ guards' = FreshGuards
  /\ IF ActiveOrder # 0 THEN ShowExisting(ActiveOrder) ELSE screen' = "menu" /\ shown' = FreshShown
  /\ Proceed("send")
  /\ Kept /\ UNCHANGED handled

(* cancel_waiting and promo_switch_confirm: all orders of the chat that wait
   are cancelled, then the session forgets them. *)
CancelWaiting ==
  /\ AtStep("begin") /\ Click.kind = "cancel"
  /\ chatOrders' = [o \in DOMAIN chatOrders |->
                      IF chatOrders[o].status = "waiting" THEN [chatOrders[o] EXCEPT !.status = "cancelled"]
                      ELSE chatOrders[o]]
  /\ guards' = FreshGuards /\ screen' = FreshScreen /\ shown' = FreshShown
  /\ Proceed("forget")
  /\ Kept /\ UNCHANGED handled

ForgetWaiting ==
  /\ AtStep("forget")
  /\ guards' = [guards EXCEPT !["customer"] = NoGuard] /\ screen' = "menu" /\ shown' = 0
  /\ Proceed("send")
  /\ Kept /\ UNCHANGED <<handled, chatOrders>>

(* claim_trial_redemption: one statement decides. *)
ClaimTrial ==
  /\ AtStep("begin") /\ Click.kind = "trial"
  /\ IF trial.row \in {"none", "failed"}
       THEN trial' = [trial EXCEPT !.row = "claimed"] /\ Proceed("trial")
       ELSE UNCHANGED trial /\ Proceed("send")
  /\ UNCHANGED <<loopVars, botMishaps, handled, sessionVars, chatOrders>>

MakeTrial ==
  /\ AtStep("trial")
  /\ trial' = [trial EXCEPT !.made = @ + 1]
  /\ Proceed("trialMade")
  /\ UNCHANGED <<loopVars, botMishaps, handled, sessionVars, chatOrders>>

MarkTrialDelivered ==
  /\ AtStep("trialMade")
  /\ trial' = [trial EXCEPT !.row = "delivered"]
  /\ Proceed("trialSent")
  /\ UNCHANGED <<loopVars, botMishaps, handled, sessionVars, chatOrders>>

SendTrial ==
  /\ AtStep("trialSent")
  /\ Answered
  /\ Kept /\ UNCHANGED <<sessionVars, chatOrders>>

-----------------------------------------------------------------------------
(* Everybody else. *)

(* A click reaches Telegram. Buttons under an order stay where they are. *)
ClickMade(kind, o) ==
  /\ Len(clicks) < MaxClicks
  /\ IF kind \in Deciding THEN o \in DOMAIN chatOrders ELSE o = 0
  /\ clicks' = Append(clicks, [kind |-> kind, order |-> o,
                               again |-> \E p \in DOMAIN chatOrders : chatOrders[p].kind = kind
                                                                      /\ chatOrders[p].status = "delivered"])
  /\ UNCHANGED <<confirmed, lastTaken, batch, work, polling, handled, sessionVars, chatOrders, trial, botMishaps>>

(* A payment arrives and the web server's complete_order delivers. *)
PayOrder(o) ==
  /\ chatOrders[o].status = "waiting"
  /\ chatOrders' = [chatOrders EXCEPT ![o].status = "delivered"]
  /\ TellDelivered(o)
  /\ UNCHANGED <<loopVars, work, handled, trial, botMishaps>>

(* The periodic recovery of an order whose thread is gone. *)
RecoverOrder(o, outcome) ==
  /\ chatOrders[o].status = "provisioning" /\ work.order # o
  /\ chatOrders' = [chatOrders EXCEPT ![o].status = outcome]
  /\ UNCHANGED <<loopVars, work, handled, sessionVars, trial, botMishaps>>

(* Six hours pass for an order, two minutes for a guard. *)
OrderAges(o) ==
  /\ chatOrders[o].status = "waiting" /\ ~chatOrders[o].aged
  /\ chatOrders' = [chatOrders EXCEPT ![o].aged = TRUE]
  /\ UNCHANGED <<loopVars, work, handled, sessionVars, trial, botMishaps>>

GuardAges(c) ==
  /\ guards[c].status = "in_flight" /\ ~guards[c].old
  /\ guards' = [guards EXCEPT ![c].old = TRUE]
  /\ UNCHANGED <<loopVars, work, handled, screen, shown, chatOrders, trial, botMishaps>>

-----------------------------------------------------------------------------
ChatInit ==
  /\ clicks = <<>> /\ confirmed = 0 /\ lastTaken = 0 /\ batch = <<>> /\ work = Idle
  /\ polling = TRUE /\ handled = {}
  /\ guards = [c \in {"customer", "admin"} |-> NoGuard]
  /\ screen = "none" /\ shown = 0 /\ chatOrders = <<>>
  /\ trial = [row |-> "none", made |-> 0, lost |-> 0]
  /\ botMishaps = 0

ChatStep ==
  \/ AlreadyInFlight \/ ResumeResult \/ ResumeOrder \/ ClaimAction
  \/ ReuseOrder \/ CreateOrder \/ AnnounceOrder \/ SettleOrder \/ SettleRefused
  \/ HandOver \/ TellCustomer \/ FinishHandler
  \/ IssueThing \/ AnnounceThing \/ ReadAndClaim \/ ConfirmOrder \/ RevokeOrder \/ FinishDecision
  \/ ShowMenu \/ ShowWhereWeAre \/ CancelWaiting \/ ForgetWaiting
  \/ ClaimTrial \/ MakeTrial \/ MarkTrialDelivered \/ SendTrial

ChatNext ==
  \/ FetchClicks \/ TakeClick \/ Conflict \/ BotCrash
  \/ ChatStep
  \/ \E again \in BOOLEAN : Raise(again)
  \/ \E kind \in ClickKind, o \in {0} \cup DOMAIN chatOrders : ClickMade(kind, o)
  \/ \E o \in DOMAIN chatOrders :
       \/ PayOrder(o) \/ OrderAges(o)
       \/ \E outcome \in {"delivered", "failed"} : RecoverOrder(o, outcome)
  \/ \E c \in DOMAIN guards : GuardAges(c)

(* The loop runs and its handlers end. *)
ChatFairness == WF_chatVars(FetchClicks) /\ WF_chatVars(TakeClick) /\ WF_chatVars(ChatStep)

ChatSpec == ChatInit /\ [][ChatNext]_chatVars /\ ChatFairness

-----------------------------------------------------------------------------
ChatTypeOK ==
  /\ clicks \in Seq([kind : ClickKind, order : Nat, again : BOOLEAN]) /\ Len(clicks) <= MaxClicks
  /\ confirmed \in 0..Len(clicks) /\ lastTaken \in 0..Len(clicks)
  /\ batch \in Seq(1..Len(clicks)) /\ work.click \in 0..Len(clicks)
  /\ polling \in BOOLEAN /\ handled \subseteq 1..Len(clicks)
  /\ screen \in {"none", "menu", "waiting"} /\ shown \in 0..Len(chatOrders)
  /\ \A o \in DOMAIN chatOrders :
       chatOrders[o].status \in {"waiting", "auto", "provisioning", "delivered", "failed", "cancelled"}
  /\ trial.row \in {"none", "claimed", "delivered", "failed"}

(* However often a button is pressed, a click redelivered or a handler broken
   off, the chat has one open order, and one trial for each that was not lost
   by a failure after it was made. *)
NoDuplicates == Cardinality(Open(chatOrders)) <= 1 /\ trial.made <= 1 + trial.lost

(* Every click is handled or fails by itself, never because another one in its
   batch failed or because the process died, as long as the bot is the one who
   fetches them. *)
ClicksHandled == \A i \in 1..MaxClicks : (Len(clicks) >= i) ~> (i \in handled \/ ~polling)

(* "As long as the profile is not deleted, the subscription can be renewed with
   the button in the bot" (bot.py:2216): who asks for another renewal after one
   was delivered is not just sent what he has. *)
RenewedByButton == ~(work # Idle /\ work.at = "resend" /\ Click.kind = "renew" /\ Click.again)
=============================================================================
