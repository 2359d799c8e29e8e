----------------------------- MODULE PromoLedger -----------------------------
(***************************************************************************)
(* What the use counter of a promo code promises (promo_codes.used_count   *)
(* and max_uses in store.py): each use is reserved by one call of          *)
(* complete_order, and a reservation is either redeemed by the delivery of *)
(* that call's order or released, once.                                    *)
(***************************************************************************)
EXTENDS Integers, FiniteSets

CONSTANTS
  Holder,  \* whoever may hold a reservation
  MaxUses  \* max_uses of the code

VARIABLES
  reserved, \* the holders of a use that is not redeemed yet
  redeemed  \* the number of uses redeemed for good

ledgerVars == <<reserved, redeemed>>

Init ==
  /\ reserved = {}
  /\ redeemed = 0

(* consume_promo_code succeeds only while used_count < max_uses. *)
Reserve(h) ==
  /\ h \notin reserved
  /\ Cardinality(reserved) + redeemed < MaxUses
  /\ reserved' = reserved \cup {h}
  /\ UNCHANGED redeemed

Redeem(h) ==
  /\ h \in reserved
  /\ reserved' = reserved \ {h}
  /\ redeemed' = redeemed + 1

(* restore_promo_code. *)
Release(h) ==
  /\ h \in reserved
  /\ reserved' = reserved \ {h}
  /\ UNCHANGED redeemed

Next == \E h \in Holder : Reserve(h) \/ Redeem(h) \/ Release(h)

Spec == Init /\ [][Next]_ledgerVars
=============================================================================
