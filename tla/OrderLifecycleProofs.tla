------------------------ MODULE OrderLifecycleProofs ------------------------
(***************************************************************************)
(* Theorems about OrderLifecycle, for any number of orders, threads, uses  *)
(* of the promo code and attempts.                                         *)
(***************************************************************************)
EXTENDS OrderLifecycle, FiniteSetTheorems, TLAPS

(* An order that moves, or not, keeps a status and a staleness flag. *)
LEMMA MoveType ==
  ASSUME TypeOK, NEW o \in Order, NEW to \in Status, MoveTo(o, to) \/ KeepOrder
  PROVE  status' \in [Order -> Status] /\ stale' \in [Order -> BOOLEAN]
BY DEF TypeOK, MoveTo, KeepOrder

(* A busy thread that moves on keeps its order. *)
LEMMA GotoType ==
  ASSUME TypeOK, NEW w \in Worker, worker[w].pc # "idle", NEW pc \in WorkerPC, Goto(w, pc)
  PROVE  /\ worker' \in [Worker -> WorkerState]
         /\ \A v \in Worker : worker'[v].pc # "idle" => worker'[v].order \in Order
BY DEF TypeOK, Goto, WorkerState

(* Every step keeps the variables in their types. *)
LEMMA TypeStep ==
  ASSUME TypeOK, [Next]_vars PROVE TypeOK'
<1> USE DEF TypeOK, Status, ProfileStage, WorkerState, WorkerPC, RecovererState,
            RecovererPC, KeepOrder, MoveTo, Goto, At, history
<1>1. ASSUME NEW w \in Worker, NEW o \in Order, CallComplete(w, o) PROVE TypeOK'
  BY <1>1 DEF CallComplete, BeginComplete
<1>2. ASSUME NEW w \in Worker, ClaimOrder(w) PROVE TypeOK'
  <2>1. worker[w].order \in Order
    BY <1>2 DEF ClaimOrder
  <2>2. status' \in [Order -> Status] /\ stale' \in [Order -> BOOLEAN]
    <3>1. MoveTo(worker[w].order, "provisioning") \/ KeepOrder
      BY <1>2 DEF ClaimOrder
    <3> QED BY <2>1, <3>1, MoveType
  <2>3. Goto(w, "promo") \/ Goto(w, "poll")
    BY <1>2 DEF ClaimOrder
  <2>4. UNCHANGED <<profile, used, recoverer, scan, accrued, history, attempts,
                    faults, collided>>
    BY <1>2 DEF ClaimOrder
  <2>5. worker[w].pc = "claim"
    BY <1>2 DEF ClaimOrder
  <2>6. /\ worker' \in [Worker -> WorkerState]
        /\ \A v \in Worker : worker'[v].pc # "idle" => worker'[v].order \in Order
    BY <2>3, <2>5, GotoType
  <2> QED BY <2>2, <2>4, <2>6
<1>3. ASSUME NEW w \in Worker, PollWinner(w) PROVE TypeOK'
  BY <1>3 DEF PollWinner
<1>4. ASSUME NEW w \in Worker, ConsumePromo(w) PROVE TypeOK'
  <2>1. used' \in Nat
    BY <1>4 DEF ConsumePromo
  <2>2. worker[w].pc = "promo" /\ (Goto(w, "provision") \/ Goto(w, "fail"))
    BY <1>4 DEF ConsumePromo
  <2>3. UNCHANGED <<status, stale, profile, recoverer, scan, accrued, history,
                    attempts, faults, collided>>
    BY <1>4 DEF ConsumePromo
  <2>4. /\ worker' \in [Worker -> WorkerState]
        /\ \A v \in Worker : worker'[v].pc # "idle" => worker'[v].order \in Order
    BY <2>2, GotoType
  <2> QED BY <2>1, <2>3, <2>4
<1>5. ASSUME NEW w \in Worker, ExtendRenewal(w) PROVE TypeOK'
  BY <1>5 DEF ExtendRenewal, Grant
<1>6. ASSUME NEW w \in Worker, ReuseLinked(w) PROVE TypeOK'
  BY <1>6 DEF ReuseLinked, Grant
<1>7. ASSUME NEW w \in Worker, AddClient(w) PROVE TypeOK'
  BY <1>7 DEF AddClient, Grant
<1>8. ASSUME NEW w \in Worker, SaveProfile(w) PROVE TypeOK'
  BY <1>8 DEF SaveProfile
<1>9. ASSUME NEW w \in Worker, LinkProfile(w) PROVE TypeOK'
  BY <1>9 DEF LinkProfile
<1>10. ASSUME NEW w \in Worker, DeliverOrder(w) PROVE TypeOK'
  <2>1. worker[w].pc = "deliver" /\ (Goto(w, "audit") \/ Goto(w, "undo"))
    BY <1>10 DEF DeliverOrder
  <2>2. worker[w].order \in Order
    BY <2>1
  <2>3. status' \in [Order -> Status] /\ stale' \in [Order -> BOOLEAN]
    <3>1. MoveTo(worker[w].order, "delivered") \/ KeepOrder
      BY <1>10 DEF DeliverOrder, Deliver
    <3> QED BY <2>2, <3>1, MoveType
  <2>4. deliveries' \in [Order -> Nat] /\ redeemed' \in Nat
    BY <1>10 DEF DeliverOrder, Deliver
  <2>5. UNCHANGED <<profile, used, recoverer, scan, accrued, grants, attempts,
                    faults, collided>>
    BY <1>10 DEF DeliverOrder
  <2>6. /\ worker' \in [Worker -> WorkerState]
        /\ \A v \in Worker : worker'[v].pc # "idle" => worker'[v].order \in Order
    BY <2>1, GotoType
  <2> QED BY <2>3, <2>4, <2>5, <2>6
<1>11. ASSUME NEW w \in Worker, AuditDelivery(w) PROVE TypeOK'
  BY <1>11 DEF AuditDelivery
<1>12. ASSUME NEW w \in Worker, AccrueReferral(w) PROVE TypeOK'
  BY <1>12 DEF AccrueReferral
<1>13. ASSUME NEW w \in Worker, ProvisioningError(w) PROVE TypeOK'
  BY <1>13 DEF ProvisioningError
<1>14. ASSUME NEW w \in Worker, RestorePromo(w) PROVE TypeOK'
  BY <1>14 DEF RestorePromo, GiveBackPromo
<1>15. ASSUME NEW w \in Worker, MarkFailed(w) PROVE TypeOK'
  <2>1. worker[w].pc = "fail" /\ Goto(w, "raised")
    BY <1>15 DEF MarkFailed
  <2>2. worker[w].order \in Order
    BY <2>1
  <2>3. status' \in [Order -> Status] /\ stale' \in [Order -> BOOLEAN]
    <3>1. MoveTo(worker[w].order, "failed") \/ KeepOrder
      BY <1>15 DEF MarkFailed
    <3> QED BY <2>2, <3>1, MoveType
  <2>4. UNCHANGED <<profile, used, recoverer, scan, accrued, history, attempts,
                    faults, collided>>
    BY <1>15 DEF MarkFailed
  <2> QED BY <2>1, <2>3, <2>4
<1>16. ASSUME NEW w \in Worker, Return(w) PROVE TypeOK'
  BY <1>16 DEF Return, IdleWorker
<1>17. ASSUME NEW w \in Worker, Crash(w) PROVE TypeOK'
  BY <1>17 DEF Crash, IdleWorker
<1>18. ASSUME NEW r \in Recoverer, NEW o \in Order, RecoverClaim(r, o) PROVE TypeOK'
  BY <1>18 DEF RecoverClaim
<1>19. ASSUME NEW r \in Recoverer, RecoverLookup(r) PROVE TypeOK'
  BY <1>19 DEF RecoverLookup
<1>20. ASSUME NEW r \in Recoverer, RecoverAdopt(r) PROVE TypeOK'
  <2>1. /\ recoverer[r].pc = "adopt"
        /\ recoverer' = [recoverer EXCEPT ![r] = IdleRecoverer]
    BY <1>20 DEF RecoverAdopt
  <2>2. recoverer[r].order \in Order
    BY <2>1
  <2>3. status' \in [Order -> Status] /\ stale' \in [Order -> BOOLEAN]
    <3>1. MoveTo(recoverer[r].order, "delivered") \/ KeepOrder
      BY <1>20 DEF RecoverAdopt, Deliver
    <3> QED BY <2>2, <3>1, MoveType
  <2>4. /\ profile' \in [Order -> ProfileStage]
        /\ deliveries' \in [Order -> Nat] /\ redeemed' \in Nat
    BY <1>20 DEF RecoverAdopt, Deliver
  <2>5. UNCHANGED <<used, worker, scan, accrued, grants, attempts, faults, collided>>
    BY <1>20 DEF RecoverAdopt
  <2> QED BY <2>1, <2>3, <2>4, <2>5 DEF IdleRecoverer
<1>21. ASSUME NEW r \in Recoverer, RecoverRelease(r) PROVE TypeOK'
  <2>1. /\ recoverer[r].pc = "release"
        /\ recoverer' = [recoverer EXCEPT ![r] = IdleRecoverer]
    BY <1>21 DEF RecoverRelease
  <2>2. recoverer[r].order \in Order
    BY <2>1
  <2>3. status' \in [Order -> Status] /\ stale' \in [Order -> BOOLEAN]
    <3>1. MoveTo(recoverer[r].order, "failed") \/ KeepOrder
      BY <1>21 DEF RecoverRelease
    <3> QED BY <2>2, <3>1, MoveType
  <2>4. used' \in Nat
    BY <1>21 DEF RecoverRelease, GiveBackPromo
  <2>5. UNCHANGED <<profile, worker, scan, accrued, history, attempts, faults, collided>>
    BY <1>21 DEF RecoverRelease
  <2> QED BY <2>1, <2>3, <2>4, <2>5 DEF IdleRecoverer
<1>22. ASSUME NEW r \in Recoverer, RecoverAbort(r) PROVE TypeOK'
  BY <1>22 DEF RecoverAbort, IdleRecoverer
<1>23. ASSUME NEW o \in Order, GrowStale(o) PROVE TypeOK'
  BY <1>23 DEF GrowStale
<1>24. ASSUME NEW o \in Order, CancelOrder(o) PROVE TypeOK'
  BY <1>24 DEF CancelOrder
<1>25. ASSUME NEW o \in Order, RefundOrder(o) PROVE TypeOK'
  BY <1>25 DEF RefundOrder
<1>26. ASSUME NEW o \in Order, LatePayment(o) PROVE TypeOK'
  BY <1>26 DEF LatePayment
<1>27. ASSUME NEW c \in Canceller, ChatSelect(c) PROVE TypeOK'
  BY <1>27 DEF ChatSelect
<1>28. ASSUME NEW c \in Canceller, ChatCancel(c) PROVE TypeOK'
  BY <1>28 DEF ChatCancel
<1>29. CASE UNCHANGED vars
  BY <1>29 DEF vars
<1> QED
  BY <1>1, <1>2, <1>3, <1>4, <1>5, <1>6, <1>7, <1>8, <1>9, <1>10, <1>11, <1>12,
     <1>13, <1>14, <1>15, <1>16, <1>17, <1>18, <1>19, <1>20, <1>21, <1>22,
     <1>23, <1>24, <1>25, <1>26, <1>27, <1>28, <1>29
     DEF Next, CompleteOrder, RecoverSettle

(* Every variable of the order lifecycle keeps its type, in every environment
   and whatever complete_order, the recovery and the cancellations do. *)
THEOREM TypeCorrect == Spec => []TypeOK
<1>1. Init => TypeOK
  BY OrderAssumption, BoundAssumption DEF Init, TypeOK, Status, ProfileStage, WorkerState,
     WorkerPC, IdleWorker, RecovererState, RecovererPC, IdleRecoverer
<1>2. TypeOK /\ [Next]_vars => TypeOK'
  BY TypeStep
<1> QED
  BY <1>1, <1>2, PTL DEF Spec

---------------------------------------------------------------------------
(* The promo ledger. A behaviour is calm when threads neither die nor stall:
   what can fail is the provisioning itself, and chats may cancel. *)

(* Threads neither die nor stall; audit writes and alerts may fail, too. *)
Unhurried == faults \subseteq {"panel", "audit", "chat", "telegram"}

(* In such a behaviour no order is ever orphaned, so the recovery sleeps. *)
Attended_Inv ==
  Unhurried =>
    /\ \A o \in Order : ~stale[o]
    /\ \A r \in Recoverer : recoverer[r].pc = "idle"
    /\ \A o \in Order : status[o] = "provisioning" => HoldersOf(o) # {}

(* The steps of the implementation as the ledger sees them. *)
Keeps == UNCHANGED <<PromoHolders, used, redeemed>>
Reserves(w) ==
  /\ w \notin PromoHolders /\ PromoHolders' = PromoHolders \cup {w}
  /\ used < MaxUses /\ used' = used + 1 /\ redeemed' = redeemed
Redeems(w) ==
  /\ w \in PromoHolders /\ PromoHolders' = PromoHolders \ {w}
  /\ used' = used /\ redeemed' = redeemed + 1
Releases(w) ==
  /\ w \in PromoHolders /\ PromoHolders' = PromoHolders \ {w}
  /\ used' = (IF used > 0 THEN used - 1 ELSE 0) /\ redeemed' = redeemed

(* A thread that moves between two control points on the same side of
   Reserved, or whose order has no code, holds what it held. *)
LEMMA SameHolders ==
  ASSUME TypeOK, NEW w \in Worker, NEW pc \in WorkerPC, Goto(w, pc),
         worker[w].order \notin PromoOrder \/ (worker[w].pc \in Reserved <=> pc \in Reserved)
  PROVE  PromoHolders' = PromoHolders
BY DEF TypeOK, Goto, WorkerState, PromoHolders

(* Entering Reserved adds the thread to the holders. *)
LEMMA NewHolder ==
  ASSUME TypeOK, NEW w \in Worker, NEW pc \in Reserved, Goto(w, pc),
         worker[w].order \in PromoOrder, worker[w].pc \notin Reserved
  PROVE  w \notin PromoHolders /\ PromoHolders' = PromoHolders \cup {w}
BY DEF TypeOK, Goto, WorkerState, PromoHolders

(* Leaving Reserved removes it. *)
LEMMA OldHolder ==
  ASSUME TypeOK, NEW w \in Worker, NEW pc \in WorkerPC, pc \notin Reserved, Goto(w, pc),
         worker[w].order \in PromoOrder, worker[w].pc \in Reserved
  PROVE  w \in PromoHolders /\ PromoHolders' = PromoHolders \ {w}
BY DEF TypeOK, Goto, WorkerState, PromoHolders

(* A thread that stays in, or enters, Claimed keeps every order attended. *)
LEMMA StillClaimed ==
  ASSUME TypeOK, NEW w \in Worker, NEW pc \in WorkerPC, Goto(w, pc),
         worker[w].pc \in Claimed => pc \in Claimed, NEW o \in Order
  PROVE  HoldersOf(o) \subseteq HoldersOf(o)'
BY DEF TypeOK, Goto, WorkerState, HoldersOf

(* A thread that leaves Claimed abandons no other order. *)
LEMMA LeavesClaimed ==
  ASSUME TypeOK, NEW w \in Worker, NEW pc \in WorkerPC, Goto(w, pc),
         NEW o \in Order, o # worker[w].order
  PROVE  HoldersOf(o) \subseteq HoldersOf(o)'
BY DEF TypeOK, Goto, WorkerState, HoldersOf

(* The recovery never acts as long as threads neither die nor stall. *)
LEMMA NoRecovery ==
  ASSUME TypeOK, Attended_Inv, Unhurried
  PROVE  /\ \A o \in Order : ~GrowStale(o)
         /\ \A r \in Recoverer, o \in Order : ~RecoverClaim(r, o)
         /\ \A r \in Recoverer : ~RecoverLookup(r) /\ ~RecoverSettle(r) /\ ~RecoverAbort(r)
         /\ \A w \in Worker : ~Crash(w)
<1>1. \A o \in Order : ~GrowStale(o)
  BY DEF Attended_Inv, Unhurried, GrowStale, Attended, HoldersOf
<1>2. \A r \in Recoverer, o \in Order : ~RecoverClaim(r, o)
  BY DEF Attended_Inv, RecoverClaim
<1>3. \A r \in Recoverer : ~RecoverLookup(r) /\ ~RecoverSettle(r) /\ ~RecoverAbort(r)
  BY DEF Attended_Inv, RecoverLookup, RecoverSettle, RecoverAdopt, RecoverRelease,
         RecoverAbort
<1>4. \A w \in Worker : ~Crash(w)
  BY DEF Unhurried, Crash
<1> QED BY <1>1, <1>2, <1>3, <1>4

(* Every step of complete_order keeps the ledger or makes one entry in it. *)
LEMMA WorkerLedger ==
  ASSUME TypeOK, Calm, NEW w \in Worker, CompleteOrder(w)
  PROVE  Keeps \/ Reserves(w) \/ Redeems(w) \/ Releases(w)
<1> USE DEF At, WorkerPC, Reserved, history
<1>1. CASE ClaimOrder(w)
  BY <1>1, SameHolders DEF ClaimOrder, Keeps
<1>2. CASE PollWinner(w)
  BY <1>2, SameHolders DEF PollWinner, Keeps
<1>3. CASE ConsumePromo(w)
  BY <1>3, SameHolders, NewHolder DEF ConsumePromo, Keeps, Reserves
<1>4. CASE ExtendRenewal(w)
  BY <1>4, SameHolders DEF ExtendRenewal, Keeps
<1>5. CASE ReuseLinked(w)
  BY <1>5, SameHolders DEF ReuseLinked, Keeps
<1>6. CASE AddClient(w)
  BY <1>6, SameHolders DEF AddClient, Keeps
<1>7. CASE SaveProfile(w)
  BY <1>7, SameHolders DEF SaveProfile, Keeps
<1>8. CASE LinkProfile(w)
  BY <1>8, SameHolders DEF LinkProfile, Keeps
<1>9. CASE DeliverOrder(w)
  <2>1. CASE Goto(w, "undo") /\ redeemed' = redeemed
    BY <1>9, <2>1, SameHolders DEF DeliverOrder, Keeps
  <2>2. CASE Goto(w, "audit") /\ Deliver(worker[w].order)
    BY <1>9, <2>2, SameHolders, OldHolder DEF DeliverOrder, Deliver, Keeps, Redeems
  <2> QED BY <1>9, <2>1, <2>2 DEF DeliverOrder
<1>10. CASE AuditDelivery(w)
  <2>1. CASE Goto(w, "referral")
    BY <1>10, <2>1, SameHolders DEF AuditDelivery, Keeps
  <2> QED BY <1>10, <2>1 DEF AuditDelivery, Calm
<1>11. CASE AccrueReferral(w)
  BY <1>11, SameHolders DEF AccrueReferral, Keeps
<1>12. CASE RestorePromo(w)
  BY <1>12, SameHolders, OldHolder DEF RestorePromo, GiveBackPromo, Keeps, Releases
<1>13. CASE MarkFailed(w)
  BY <1>13, SameHolders DEF MarkFailed, Keeps
<1> QED
  BY <1>1, <1>2, <1>3, <1>4, <1>5, <1>6, <1>7, <1>8, <1>9, <1>10, <1>11, <1>12,
     <1>13 DEF CompleteOrder

(* A call about to start, returning or failing holds nothing to give back. *)
LEMMA LedgerStep ==
  ASSUME TypeOK, Attended_Inv, Calm, [Next]_vars
  PROVE  Keeps \/ \E w \in Worker : Reserves(w) \/ Redeems(w) \/ Releases(w)
<1> USE DEF At, WorkerPC, Reserved, history
<1>1. ASSUME NEW w \in Worker, NEW o \in Order, CallComplete(w, o) PROVE Keeps
  <2>1. PromoHolders' = PromoHolders
    BY <1>1 DEF CallComplete, BeginComplete, TypeOK, PromoHolders, WorkerState
  <2> QED BY <1>1, <2>1 DEF CallComplete, BeginComplete, Keeps
<1>2. ASSUME NEW w \in Worker, CompleteOrder(w)
      PROVE  Keeps \/ Reserves(w) \/ Redeems(w) \/ Releases(w)
  BY <1>2, WorkerLedger
<1>3. ASSUME NEW w \in Worker, ProvisioningError(w) PROVE Keeps
  BY <1>3, SameHolders DEF ProvisioningError, Keeps
<1>4. ASSUME NEW w \in Worker, Return(w) PROVE Keeps
  <2>1. PromoHolders' = PromoHolders
    BY <1>4 DEF Return, TypeOK, PromoHolders, WorkerState, IdleWorker
  <2> QED BY <1>4, <2>1 DEF Return, Keeps
<1>5. ASSUME NEW o \in Order, CancelOrder(o) \/ RefundOrder(o) \/ LatePayment(o) PROVE Keeps
  BY <1>5 DEF CancelOrder, RefundOrder, LatePayment, Keeps, PromoHolders
<1>6. ASSUME NEW c \in Canceller, ChatSelect(c) \/ ChatCancel(c) PROVE Keeps
  BY <1>6 DEF ChatSelect, ChatCancel, Keeps, PromoHolders
<1>7. CASE UNCHANGED vars
  BY <1>7 DEF vars, Keeps, PromoHolders
<1> QED
  BY <1>1, <1>2, <1>3, <1>4, <1>5, <1>6, <1>7, NoRecovery DEF Next, Calm, Unhurried

(* complete_order leaves no order `provisioning' without a call on it. *)
LEMMA WorkerAttends ==
  ASSUME TypeOK, Attended_Inv, Unhurried, NEW w \in Worker, CompleteOrder(w),
         NEW o \in Order
  PROVE  ~stale'[o] /\ (status'[o] = "provisioning" => HoldersOf(o)' # {})
<1> USE DEF At, WorkerPC, Claimed, KeepOrder
<1>0. ~stale[o] /\ (status[o] = "provisioning" => HoldersOf(o) # {})
  BY DEF Attended_Inv
<1>1. CASE ClaimOrder(w)
  <2>1. CASE KeepOrder /\ Goto(w, "poll")
    BY <1>0, <1>1, <2>1, StillClaimed DEF ClaimOrder
  <2>2. CASE MoveTo(worker[w].order, "provisioning") /\ Goto(w, "promo")
    <3>1. HoldersOf(o) \subseteq HoldersOf(o)'
      BY <1>1, <2>2, StillClaimed DEF ClaimOrder
    <3>2. o = worker[w].order => w \in HoldersOf(o)'
      BY <2>2 DEF Goto, TypeOK, WorkerState, HoldersOf
    <3>3. ~stale'[o] /\ (o # worker[w].order => status'[o] = status[o])
      BY <1>0, <2>2 DEF MoveTo, TypeOK
    <3> QED BY <1>0, <3>1, <3>2, <3>3
  <2> QED BY <1>1, <2>1, <2>2 DEF ClaimOrder
<1>2. CASE PollWinner(w)
  BY <1>0, <1>2, StillClaimed DEF PollWinner
<1>3. CASE ConsumePromo(w)
  BY <1>0, <1>3, StillClaimed DEF ConsumePromo
<1>4. CASE ExtendRenewal(w)
  BY <1>0, <1>4, StillClaimed DEF ExtendRenewal
<1>5. CASE ReuseLinked(w)
  BY <1>0, <1>5, StillClaimed DEF ReuseLinked
<1>6. CASE AddClient(w)
  BY <1>0, <1>6, StillClaimed DEF AddClient
<1>7. CASE SaveProfile(w)
  BY <1>0, <1>7, StillClaimed DEF SaveProfile
<1>8. CASE LinkProfile(w)
  <2>1. HoldersOf(o) \subseteq HoldersOf(o)'
    BY <1>8, StillClaimed DEF LinkProfile
  <2> QED BY <1>0, <1>8, <2>1 DEF LinkProfile, TypeOK
<1>9. CASE DeliverOrder(w)
  <2>1. CASE KeepOrder /\ Goto(w, "undo")
    BY <1>0, <1>9, <2>1, StillClaimed DEF DeliverOrder
  <2>2. CASE MoveTo(worker[w].order, "delivered") /\ Goto(w, "audit")
    <3>1. o # worker[w].order => HoldersOf(o) \subseteq HoldersOf(o)'
      BY <2>2, LeavesClaimed
    <3> QED BY <1>0, <2>2, <3>1 DEF MoveTo, TypeOK
  <2> QED BY <1>9, <2>1, <2>2 DEF DeliverOrder, Deliver
<1>10. CASE AuditDelivery(w)
  BY <1>0, <1>10, StillClaimed DEF AuditDelivery
<1>11. CASE AccrueReferral(w)
  BY <1>0, <1>11, StillClaimed DEF AccrueReferral
<1>12. CASE RestorePromo(w)
  BY <1>0, <1>12, StillClaimed DEF RestorePromo
<1>13. CASE MarkFailed(w)
  <2>1. o # worker[w].order => HoldersOf(o) \subseteq HoldersOf(o)'
    BY <1>13, LeavesClaimed DEF MarkFailed
  <2>2. CASE CanMove(worker[w].order, "failed", {"provisioning"})
    BY <1>0, <1>13, <2>1, <2>2 DEF MarkFailed, MoveTo, TypeOK
  <2>3. CASE ~CanMove(worker[w].order, "failed", {"provisioning"})
    <3>1. KeepOrder
      BY <1>13, <2>3 DEF MarkFailed
    <3>2. status[worker[w].order] # "provisioning"
      BY <2>3 DEF CanMove, ORDER_TRANSITIONS, Status
    <3> QED BY <1>0, <2>1, <3>1, <3>2
  <2> QED BY <2>2, <2>3
<1> QED
  BY <1>1, <1>2, <1>3, <1>4, <1>5, <1>6, <1>7, <1>8, <1>9, <1>10, <1>11, <1>12,
     <1>13 DEF CompleteOrder

(* The environment of a behaviour is chosen once. *)
LEMMA SameFaults ==
  ASSUME [Next]_vars PROVE faults' = faults
BY DEF Next, vars, CallComplete, BeginComplete, CompleteOrder, ClaimOrder, PollWinner,
   ConsumePromo, ExtendRenewal, ReuseLinked, AddClient, SaveProfile, LinkProfile,
   DeliverOrder, AuditDelivery, AccrueReferral, RestorePromo, MarkFailed,
   ProvisioningError, Return, Crash, RecoverClaim, RecoverLookup, RecoverSettle,
   RecoverAdopt, RecoverRelease, RecoverAbort, GrowStale, CancelOrder, RefundOrder,
   LatePayment, ChatSelect, ChatCancel

(* No step orphans an order as long as threads neither die nor stall. *)
LEMMA AttendedStep ==
  ASSUME TypeOK, Attended_Inv, [Next]_vars
  PROVE  Attended_Inv'
<1> SUFFICES ASSUME Unhurried PROVE Attended_Inv'
  BY SameFaults DEF Attended_Inv, Unhurried
<1>1. ASSUME NEW r \in Recoverer PROVE recoverer'[r].pc = "idle"
  <2>1. recoverer' = recoverer
    BY NoRecovery DEF Next, vars, CallComplete, BeginComplete, CompleteOrder, ClaimOrder, PollWinner,
       ConsumePromo, ExtendRenewal, ReuseLinked, AddClient, SaveProfile, LinkProfile,
       DeliverOrder, AuditDelivery, AccrueReferral, RestorePromo, MarkFailed,
       ProvisioningError, Return, CancelOrder, RefundOrder, LatePayment, ChatSelect,
       ChatCancel
  <2> QED BY <2>1 DEF Attended_Inv
<1>2. ASSUME NEW o \in Order
      PROVE  ~stale'[o] /\ (status'[o] = "provisioning" => HoldersOf(o)' # {})
  <2> USE DEF WorkerPC, Claimed, KeepOrder
  <2>0. ~stale[o] /\ (status[o] = "provisioning" => HoldersOf(o) # {})
    BY DEF Attended_Inv
  <2>1. ASSUME NEW w \in Worker, NEW p \in Order, CallComplete(w, p)
        PROVE  ~stale'[o] /\ (status'[o] = "provisioning" => HoldersOf(o)' # {})
    <3>1. HoldersOf(o) \subseteq HoldersOf(o)'
      BY <2>1 DEF CallComplete, BeginComplete, At, TypeOK, WorkerState, HoldersOf
    <3> QED BY <2>0, <2>1, <3>1 DEF CallComplete, BeginComplete
  <2>2. ASSUME NEW w \in Worker, CompleteOrder(w)
        PROVE  ~stale'[o] /\ (status'[o] = "provisioning" => HoldersOf(o)' # {})
    BY <2>2, WorkerAttends
  <2>3. ASSUME NEW w \in Worker, ProvisioningError(w)
        PROVE  ~stale'[o] /\ (status'[o] = "provisioning" => HoldersOf(o)' # {})
    BY <2>0, <2>3, StillClaimed DEF ProvisioningError
  <2>4. ASSUME NEW w \in Worker, Return(w)
        PROVE  ~stale'[o] /\ (status'[o] = "provisioning" => HoldersOf(o)' # {})
    <3>1. HoldersOf(o) \subseteq HoldersOf(o)'
      BY <2>4 DEF Return, TypeOK, WorkerState, HoldersOf
    <3> QED BY <2>0, <2>4, <3>1 DEF Return
  <2>5. ASSUME NEW p \in Order, CancelOrder(p) \/ RefundOrder(p) \/ LatePayment(p)
        PROVE  ~stale'[o] /\ (status'[o] = "provisioning" => HoldersOf(o)' # {})
    <3>1. HoldersOf(o)' = HoldersOf(o)
      BY <2>5 DEF CancelOrder, RefundOrder, LatePayment, HoldersOf
    <3> QED
      BY <2>0, <2>5, <3>1 DEF CancelOrder, RefundOrder, LatePayment, MoveTo, TypeOK
  <2>6. ASSUME NEW c \in Canceller, ChatSelect(c) \/ ChatCancel(c)
        PROVE  ~stale'[o] /\ (status'[o] = "provisioning" => HoldersOf(o)' # {})
    <3>1. HoldersOf(o)' = HoldersOf(o)
      BY <2>6 DEF ChatSelect, ChatCancel, HoldersOf
    <3> QED BY <2>0, <2>6, <3>1 DEF ChatSelect, ChatCancel
  <2>7. CASE UNCHANGED vars
    BY <2>0, <2>7 DEF vars, HoldersOf
  <2> QED
    BY <2>1, <2>2, <2>3, <2>4, <2>5, <2>6, <2>7, NoRecovery DEF Next
<1> QED BY <1>1, <1>2 DEF Attended_Inv

---------------------------------------------------------------------------
(* A running call always has someone responsible for its order. *)
LEMMA AttendedAlways == Spec => []Attended_Inv
<1>1. Init => Attended_Inv
  BY DEF Init, Attended_Inv, IdleRecoverer
<1>2. TypeOK /\ Attended_Inv /\ [Next]_vars => Attended_Inv'
  BY AttendedStep
<1> QED BY <1>1, <1>2, TypeCorrect, PTL DEF Spec

(* The holders are finitely many, so that counting them makes sense. *)
LEMMA FiniteHolders == IsFiniteSet(PromoHolders) /\ Cardinality(PromoHolders) \in Nat
<1>1. PromoHolders \subseteq Worker
  BY DEF PromoHolders
<1> QED BY <1>1, OrderAssumption, FS_Subset, FS_CardinalityType

(* used_count is exactly the uses redeemed plus the uses reserved, however
   many orders, threads and uses there are, when threads neither die nor
   stall. *)
THEOREM PromoIsExact == Spec => []PromoExact
<1>1. Init => PromoExact
  <2> SUFFICES ASSUME Init PROVE used = redeemed + Cardinality(PromoHolders)
    BY DEF PromoExact
  <2>1. PromoHolders = {}
    BY DEF Init, PromoHolders, IdleWorker, Reserved
  <2> QED BY <2>1, FS_EmptySet DEF Init
<1>2. TypeOK /\ Attended_Inv /\ PromoExact /\ [Next]_vars => PromoExact'
  <2> SUFFICES ASSUME TypeOK, Attended_Inv, PromoExact, [Next]_vars, Calm
               PROVE  used' = redeemed' + Cardinality(PromoHolders')
    BY SameFaults DEF PromoExact, Calm
  <2>0. used = redeemed + Cardinality(PromoHolders) /\ used \in Nat /\ redeemed \in Nat
    BY DEF PromoExact, Calm, TypeOK
  <2>1. CASE Keeps
    BY <2>0, <2>1 DEF Keeps
  <2>2. ASSUME NEW w \in Worker, Reserves(w)
        PROVE  used' = redeemed' + Cardinality(PromoHolders')
    <3>1. Cardinality(PromoHolders') = Cardinality(PromoHolders) + 1
      BY <2>2, FiniteHolders, FS_AddElement DEF Reserves
    <3> QED BY <2>0, <2>2, <3>1, FiniteHolders DEF Reserves
  <2>3. ASSUME NEW w \in Worker, Redeems(w) \/ Releases(w)
        PROVE  used' = redeemed' + Cardinality(PromoHolders')
    <3>1. Cardinality(PromoHolders') = Cardinality(PromoHolders) - 1
      BY <2>3, FiniteHolders, FS_RemoveElement DEF Redeems, Releases
    <3>2. Cardinality(PromoHolders) > 0
      BY <2>3, FiniteHolders, FS_EmptySet DEF Redeems, Releases
    <3> QED BY <2>0, <2>3, <3>1, <3>2, FiniteHolders DEF Redeems, Releases
  <2> QED BY <2>1, <2>2, <2>3, LedgerStep
<1> QED BY <1>1, <1>2, TypeCorrect, AttendedAlways, PTL DEF Spec

(* As long as threads neither die nor stall, complete_order, the failed
   provisionings and the cancellations together implement the promo ledger. *)
THEOREM ImplementsLedger == Spec => LedgerSpec
<1>1. Init => Ledger!Init
  BY DEF Init, Ledger!Init, PromoHolders, IdleWorker, Reserved
<1>2. /\ TypeOK /\ Attended_Inv /\ PromoExact /\ [Next]_vars
      => [Ledger!Next]_Ledger!ledgerVars
  <2> SUFFICES ASSUME TypeOK, Attended_Inv, PromoExact, [Next]_vars
               PROVE  [Ledger!Next]_Ledger!ledgerVars
    OBVIOUS
  <2>1. Calm' = Calm
    BY SameFaults DEF Calm
  <2>2. CASE ~Calm
    BY <2>1, <2>2 DEF Ledger!ledgerVars
  <2>3. CASE Calm
    <3>1. CASE Keeps
      BY <2>1, <2>3, <3>1 DEF Keeps, Ledger!ledgerVars
    <3>2. ASSUME NEW w \in Worker, Reserves(w) PROVE Ledger!Reserve(w)
      <4>1. Ledger!Cardinality(PromoHolders) = Cardinality(PromoHolders)
        BY DEF Cardinality, Ledger!Cardinality
      <4> QED
        BY <2>1, <2>3, <3>2, <4>1, FiniteHolders
           DEF Reserves, Ledger!Reserve, PromoExact, TypeOK
    <3>3. ASSUME NEW w \in Worker, Redeems(w) PROVE Ledger!Redeem(w)
      BY <2>1, <2>3, <3>3 DEF Redeems, Ledger!Redeem
    <3>4. ASSUME NEW w \in Worker, Releases(w) PROVE Ledger!Release(w)
      BY <2>1, <2>3, <3>4 DEF Releases, Ledger!Release
    <3> QED BY <2>3, <3>1, <3>2, <3>3, <3>4, LedgerStep DEF Ledger!Next
  <2> QED BY <2>2, <2>3
<1> QED
  BY <1>1, <1>2, TypeCorrect, AttendedAlways, PromoIsExact, PTL
     DEF Spec, LedgerSpec, Ledger!Spec
=============================================================================
