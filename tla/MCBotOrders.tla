----------------------------- MODULE MCBotOrders -----------------------------
(***************************************************************************)
(* Small instances of the bot's handling of clicks and of the settlement   *)
(* of an order, checked in one run: a behaviour is one of a single         *)
(* component, picked at the start, while the other stays in an initial     *)
(* state.                                                                  *)
(***************************************************************************)
EXTENDS BotChat, OrderLifecycle

VARIABLE part \* the component that runs

\* One in which threads die, one in which the recovery competes with a thread
\* that is only slow.
MCFairEnvironment == {{"crash", "panel"}, {"crash", "slow"}}

MCInit ==
  /\ part \in {"chat", "order"}
  /\ ChatInit /\ Init
  /\ part # "order" =>
       faults = {"crash", "panel"} /\ \A o \in Order : status[o] = "waiting_payment"

InChat == part = "chat" /\ UNCHANGED <<part, vars>>
InOrder == part = "order" /\ UNCHANGED <<part, chatVars>>

MCNext ==
  \/ InChat /\ ChatNext
  \/ InOrder /\ Next

mcVars == <<part, chatVars, vars>>

(* The fairness of each module, for the component that runs. *)
MCFairness ==
  /\ WF_chatVars(part = "chat" /\ FetchClicks)
  /\ WF_chatVars(part = "chat" /\ TakeClick)
  /\ WF_chatVars(part = "chat" /\ ChatStep)
  /\ \A w \in Worker :
       WF_vars(part = "order" /\ CompleteOrder(w)) /\ WF_vars(part = "order" /\ Return(w))
  /\ \A o \in Order : WF_vars(part = "order" /\ GrowStale(o))
  /\ \A o \in Order : SF_vars(part = "order" /\ \E r \in Recoverer : RecoverClaim(r, o))
  /\ \A r \in Recoverer :
       /\ SF_vars(part = "order" /\ RecoverLookup(r))
       /\ SF_vars(part = "order" /\ RecoverSettle(r))

MCSpec == MCInit /\ [][MCNext]_mcVars /\ MCFairness
=============================================================================
