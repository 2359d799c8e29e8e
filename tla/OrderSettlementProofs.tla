------------------------ MODULE OrderSettlementProofs ------------------------
(***************************************************************************)
(* The settlement of an order, for any number of orders, threads and       *)
(* recoveries.  First, who works on it: the two compare-and-swaps of       *)
(* complete_order and recover_stale_orders give an order one owner at a    *)
(* time when nobody stalls for 600 s and no chat-wide cancel or failing    *)
(* audit interferes.  Then what a delivered order is worth, whatever       *)
(* fails: its profile is linked, its period is granted and paid for, and   *)
(* its commission due.                                                     *)
(***************************************************************************)
EXTENDS OrderLifecycleProofs

(* Threads may die, the panel may fail and alerts get lost, nothing else. *)
Prompt == faults \subseteq {"crash", "panel", "telegram"}

RecoverersOf(o) == {r \in Recoverer : recoverer[r].order = o}
Owned(o) == HoldersOf(o) # {} \/ RecoverersOf(o) # {}

(* What the steps preserve of one order: whoever works on it found it, and
   keeps it, provisioning and fresh, and is alone. *)
OneOwner(o) ==
  /\ Owned(o) => status[o] = "provisioning" /\ ~stale[o]
  /\ HoldersOf(o) = {} \/ RecoverersOf(o) = {}
  /\ \A v, w \in HoldersOf(o) : v = w
  /\ \A r, s \in RecoverersOf(o) : r = s

Owner_Inv ==
  Prompt => /\ \A c \in Canceller : scan[c] = {}
            /\ \A r \in Recoverer : recoverer[r].pc = "idle" => recoverer[r].order = NoOrder
            /\ \A o \in Order : OneOwner(o)

(* An order that gets no new owner, and that its owners if any leave as it
   was, still has one owner. *)
LEMMA NoNewOwner ==
  ASSUME NEW o \in Order, OneOwner(o),
         HoldersOf(o)' \subseteq HoldersOf(o), RecoverersOf(o)' \subseteq RecoverersOf(o),
         Owned(o)' => status'[o] = status[o] /\ (stale'[o] => stale[o])
  PROVE  OneOwner(o)'
BY DEF OneOwner, Owned

(* A thread that goes on neither becomes nor stops being a holder of an order
   that it does not work on, nor becomes one by a step outside Claimed. *)
LEMMA GotoHolders ==
  ASSUME TypeOK, NEW w \in Worker, NEW pc \in WorkerPC, Goto(w, pc), NEW o \in Order,
         \/ o # worker[w].order
         \/ pc \in Claimed => worker[w].pc \in Claimed
  PROVE  HoldersOf(o)' \subseteq HoldersOf(o)
BY DEF TypeOK, Goto, WorkerState, HoldersOf

(* A thread that leaves Claimed was the only holder of its order. *)
LEMMA LastHolder ==
  ASSUME TypeOK, NEW w \in Worker, NEW pc \in WorkerPC \ Claimed, Goto(w, pc),
         worker[w].pc \in Claimed, NEW o \in Order, o = worker[w].order, OneOwner(o),
         recoverer' = recoverer
  PROVE  ~Owned(o)'
<1>1. w \in HoldersOf(o)
  BY DEF HoldersOf
<1>2. HoldersOf(o)' = {}
  BY <1>1 DEF OneOwner, TypeOK, Goto, WorkerState, HoldersOf
<1>3. RecoverersOf(o)' = {}
  BY <1>1 DEF OneOwner, RecoverersOf
<1> QED BY <1>2, <1>3 DEF Owned

(* complete_order: the claim makes an owner of an order that had none; every
   other step keeps the owner or dismisses it. *)
LEMMA WorkerOwns ==
  ASSUME TypeOK, Owner_Inv, Prompt, NEW w \in Worker,
         CompleteOrder(w) \/ ProvisioningError(w), NEW o \in Order
  PROVE  OneOwner(o)'
<1> USE DEF At, WorkerPC, KeepOrder
<1> DEFINE p == worker[w].order
<1>0. OneOwner(o)
  BY DEF Owner_Inv
<1>a. recoverer' = recoverer /\ worker[w].pc # "idle"
  BY DEF CompleteOrder, ClaimOrder, PollWinner, ConsumePromo, ExtendRenewal, ReuseLinked,
     AddClient, SaveProfile, LinkProfile, DeliverOrder, AuditDelivery, AccrueReferral,
     RestorePromo, MarkFailed, ProvisioningError
<1>b. RecoverersOf(o)' = RecoverersOf(o)
  BY <1>a DEF RecoverersOf
<1>c. p \in Order /\ OneOwner(p)
  BY <1>a DEF TypeOK, Owner_Inv
<1>d. HoldersOf(o)' \subseteq HoldersOf(o) /\ status' = status /\ (stale'[o] => stale[o])
      => OneOwner(o)'
  BY <1>0, <1>b, NoNewOwner
<1>1. CASE ClaimOrder(w)
  <2>1. CASE CanMove(p, "provisioning", ClaimableFrom)
    <3>1. Goto(w, "promo") /\ MoveTo(p, "provisioning")
      BY <1>1, <2>1 DEF ClaimOrder
    <3>2. status[p] # "provisioning" /\ ~Owned(p)
      BY <1>c, <2>1 DEF CanMove, ClaimableFrom, OneOwner
    <3>3. CASE o = p
      <4>1. HoldersOf(o)' = {w} /\ RecoverersOf(o)' = {}
        BY <1>b, <3>1, <3>2, <3>3 DEF Owned, HoldersOf, Goto, TypeOK, WorkerState, Claimed
      <4>2. status'[o] = "provisioning" /\ ~stale'[o]
        BY <3>1, <3>3, <1>c DEF MoveTo, TypeOK
      <4> QED BY <4>1, <4>2 DEF OneOwner
    <3>4. CASE o # p
      <4>1. HoldersOf(o)' \subseteq HoldersOf(o)
        BY <3>1, <3>4, GotoHolders
      <4>2. status'[o] = status[o] /\ stale'[o] = stale[o]
        BY <3>1, <3>4 DEF MoveTo, TypeOK
      <4> QED BY <1>0, <1>b, <4>1, <4>2, NoNewOwner
    <3> QED BY <3>3, <3>4
  <2>2. CASE ~CanMove(p, "provisioning", ClaimableFrom)
    <3>1. Goto(w, "poll") /\ KeepOrder
      BY <1>1, <2>2 DEF ClaimOrder
    <3>2. HoldersOf(o)' \subseteq HoldersOf(o)
      BY <3>1, GotoHolders DEF Claimed
    <3> QED BY <1>d, <3>1, <3>2
  <2> QED BY <2>1, <2>2
<1>2. CASE PollWinner(w)
  <2>1. \E pc \in {"ok", "raised"} : Goto(w, pc)
    BY <1>2 DEF PollWinner
  <2>2. HoldersOf(o)' \subseteq HoldersOf(o)
    BY <2>1, GotoHolders DEF Claimed
  <2> QED BY <1>d, <1>2, <2>2 DEF PollWinner
<1>3. CASE ConsumePromo(w) \/ ExtendRenewal(w) \/ ReuseLinked(w) \/ AddClient(w)
           \/ SaveProfile(w) \/ RestorePromo(w) \/ ProvisioningError(w)
  <2>1. worker[w].pc \in Claimed /\ \E pc \in Claimed : Goto(w, pc)
    BY <1>3 DEF ConsumePromo, ExtendRenewal, ReuseLinked, AddClient, SaveProfile,
       RestorePromo, ProvisioningError, Claimed
  <2>2. HoldersOf(o)' \subseteq HoldersOf(o)
    BY <2>1, GotoHolders DEF Claimed
  <2>3. KeepOrder
    BY <1>3 DEF ConsumePromo, ExtendRenewal, ReuseLinked, AddClient, SaveProfile,
       RestorePromo, ProvisioningError
  <2> QED BY <1>d, <2>2, <2>3
<1>4. CASE LinkProfile(w)
  <2>1. worker[w].pc = "link" /\ Goto(w, "deliver")
    BY <1>4 DEF LinkProfile
  <2>2. HoldersOf(o)' \subseteq HoldersOf(o)
    BY <2>1, GotoHolders DEF Claimed
  <2>3. status' = status /\ (stale'[o] => stale[o])
    BY <1>4 DEF LinkProfile, TypeOK
  <2> QED BY <1>d, <2>2, <2>3
<1>5. CASE AuditDelivery(w) \/ AccrueReferral(w)
  <2>1. \E pc \in {"referral", "ok"} : Goto(w, pc)
    BY <1>5 DEF AuditDelivery, AccrueReferral, Prompt
  <2>2. HoldersOf(o)' \subseteq HoldersOf(o)
    BY <2>1, GotoHolders DEF Claimed
  <2> QED BY <1>d, <1>5, <2>2 DEF AuditDelivery, AccrueReferral
<1>6. CASE DeliverOrder(w) \/ MarkFailed(w)
  <2>1. worker[w].pc \in Claimed
    BY <1>6 DEF DeliverOrder, MarkFailed, Claimed
  <2>2. w \in HoldersOf(p)
    BY <2>1 DEF HoldersOf
  <2>3. status[p] = "provisioning"
    BY <1>c, <2>2 DEF OneOwner, Owned
  <2>4. CanMove(p, "delivered", Status) /\ CanMove(p, "failed", {"provisioning"})
    BY <2>3 DEF CanMove, Status, ORDER_TRANSITIONS
  <2>5. \E pc \in {"audit", "raised"} : Goto(w, pc)
    BY <1>6, <2>4 DEF DeliverOrder, MarkFailed
  <2>6. \E to \in Status : MoveTo(p, to)
    BY <1>6, <2>4 DEF DeliverOrder, Deliver, MarkFailed, Status
  <2>7. CASE o = p
    <3>1. ~Owned(o)'
      BY <1>a, <1>c, <2>1, <2>5, <2>7, LastHolder DEF Claimed
    <3> QED BY <3>1 DEF OneOwner, Owned
  <2>8. CASE o # p
    <3>1. HoldersOf(o)' \subseteq HoldersOf(o)
      BY <2>5, <2>8, GotoHolders
    <3>2. status'[o] = status[o] /\ stale'[o] = stale[o]
      BY <2>6, <2>8 DEF MoveTo, TypeOK
    <3> QED BY <1>0, <1>b, <3>1, <3>2, NoNewOwner
  <2> QED BY <2>7, <2>8
<1> QED BY <1>1, <1>2, <1>3, <1>4, <1>5, <1>6 DEF CompleteOrder

(* A recovery claims an order that nobody owns, and dismisses itself when it
   has settled it, aborts or dies. *)
LEMMA RecoveryOwns ==
  ASSUME TypeOK, Owner_Inv, Prompt, NEW r \in Recoverer, NEW o \in Order,
         \/ \E p \in Order : RecoverClaim(r, p)
         \/ RecoverLookup(r) \/ RecoverSettle(r) \/ RecoverAbort(r)
  PROVE  OneOwner(o)'
<1> USE DEF KeepOrder
<1>0. OneOwner(o)
  BY DEF Owner_Inv
<1>a. HoldersOf(o)' = HoldersOf(o)
  BY DEF HoldersOf, RecoverClaim, RecoverLookup, RecoverSettle, RecoverAdopt,
         RecoverRelease, RecoverAbort
<1>1. ASSUME NEW p \in Order, RecoverClaim(r, p) PROVE OneOwner(o)'
  <2>1. stale[p] /\ status[p] = "provisioning" /\ status' = status
    BY <1>1 DEF RecoverClaim
  <2>2. ~Owned(p)
    BY <2>1 DEF Owner_Inv, OneOwner
  <2>3. CASE o = p
    <3>1. RecoverersOf(o)' = {r} /\ HoldersOf(o)' = {}
      BY <1>1, <1>a, <2>2, <2>3 DEF RecoverClaim, Owned, RecoverersOf, TypeOK, RecovererState
    <3>2. ~stale'[o]
      BY <1>1, <2>3 DEF RecoverClaim, TypeOK
    <3> QED BY <2>1, <2>3, <3>1, <3>2 DEF OneOwner
  <2>4. CASE o # p
    <3>1. RecoverersOf(o)' \subseteq RecoverersOf(o)
      BY <1>1, <2>4 DEF RecoverClaim, RecoverersOf, TypeOK, RecovererState
    <3>2. status'[o] = status[o] /\ stale'[o] = stale[o]
      BY <1>1, <2>4 DEF RecoverClaim, TypeOK
    <3> QED BY <1>0, <1>a, <3>1, <3>2, NoNewOwner
  <2> QED BY <2>3, <2>4
<1>2. CASE RecoverLookup(r)
  <2>1. RecoverersOf(o)' \subseteq RecoverersOf(o)
    BY <1>2 DEF RecoverLookup, RecoverersOf, TypeOK, RecovererState
  <2> QED BY <1>0, <1>2, <1>a, <2>1, NoNewOwner DEF RecoverLookup
<1>3. CASE RecoverAbort(r)
  <2>1. RecoverersOf(o)' \subseteq RecoverersOf(o)
    BY <1>3, OrderAssumption DEF RecoverAbort, RecoverersOf, TypeOK, IdleRecoverer
  <2> QED BY <1>0, <1>3, <1>a, <2>1, NoNewOwner DEF RecoverAbort
<1>4. CASE RecoverSettle(r)
  <2> DEFINE p == recoverer[r].order
  <2>1. p \in Order /\ r \in RecoverersOf(p)
    BY <1>4 DEF RecoverSettle, RecoverAdopt, RecoverRelease, TypeOK, RecoverersOf
  <2>2. OneOwner(p)
    BY <2>1 DEF Owner_Inv
  <2>3. status[p] = "provisioning"
    BY <2>1, <2>2 DEF OneOwner, Owned
  <2>4. CanMove(p, "delivered", RecoverableFrom) /\ CanMove(p, "failed", RecoverableFrom)
    BY <2>3 DEF CanMove, Status, ORDER_TRANSITIONS, RecoverableFrom
  <2>5. \E to \in Status : MoveTo(p, to)
    BY <1>4, <2>4 DEF RecoverSettle, RecoverAdopt, RecoverRelease, Deliver, Status
  <2>6. recoverer' = [recoverer EXCEPT ![r] = IdleRecoverer]
    BY <1>4 DEF RecoverSettle, RecoverAdopt, RecoverRelease
  <2>7. RecoverersOf(o)' \subseteq RecoverersOf(o) \ {r}
    BY <2>6, OrderAssumption DEF RecoverersOf, TypeOK, IdleRecoverer
  <2>8. CASE o = p
    <3>1. RecoverersOf(o)' = {} /\ HoldersOf(o)' = {}
      BY <1>a, <2>1, <2>2, <2>7, <2>8 DEF OneOwner
    <3> QED BY <3>1 DEF OneOwner, Owned
  <2>9. CASE o # p
    <3>1. status'[o] = status[o] /\ stale'[o] = stale[o]
      BY <2>5, <2>9 DEF MoveTo, TypeOK
    <3> QED BY <1>0, <1>a, <2>7, <3>1, NoNewOwner
  <2> QED BY <2>8, <2>9
<1> QED BY <1>1, <1>2, <1>3, <1>4

(* Calls, returns, crashes, the clock and cancellations make no owner, and
   touch no order that has one. *)
LEMMA OthersOwn ==
  ASSUME TypeOK, Owner_Inv, Prompt, NEW o \in Order,
         \/ \E w \in Worker : \/ \E p \in Order : CallComplete(w, p)
                             \/ Return(w) \/ Crash(w)
         \/ \E p \in Order : \/ GrowStale(p) \/ CancelOrder(p)
                            \/ RefundOrder(p) \/ LatePayment(p)
         \/ UNCHANGED vars
  PROVE  OneOwner(o)'
<1> USE DEF KeepOrder
<1>0. OneOwner(o)
  BY DEF Owner_Inv
<1>a. RecoverersOf(o)' = RecoverersOf(o)
  BY DEF RecoverersOf, CallComplete, BeginComplete, Return, Crash, GrowStale, CancelOrder,
     RefundOrder, LatePayment, vars
<1>1. ASSUME NEW w \in Worker,
             (\E p \in Order : CallComplete(w, p)) \/ Return(w) \/ Crash(w)
      PROVE  OneOwner(o)'
  <2>1. HoldersOf(o)' \subseteq HoldersOf(o)
    BY <1>1 DEF CallComplete, BeginComplete, Return, Crash, IdleWorker, TypeOK, WorkerState,
       HoldersOf, Claimed
  <2>2. status' = status /\ stale' = stale
    BY <1>1 DEF CallComplete, BeginComplete, Return, Crash
  <2> QED BY <1>0, <1>a, <2>1, <2>2, NoNewOwner
<1>2. ASSUME NEW p \in Order, GrowStale(p) PROVE OneOwner(o)'
  <2>1. ~Owned(p)
    BY <1>2 DEF GrowStale, Prompt, Attended, Owned, HoldersOf, RecoverersOf
  <2>2. HoldersOf(o)' = HoldersOf(o) /\ status' = status
    BY <1>2 DEF GrowStale, HoldersOf
  <2>3. o = p \/ stale'[o] = stale[o]
    BY <1>2 DEF GrowStale, TypeOK
  <2>4. Owned(o)' <=> Owned(o)
    BY <1>a, <2>2 DEF Owned
  <2> QED BY <1>0, <1>a, <2>1, <2>2, <2>3, <2>4, NoNewOwner
<1>3. ASSUME NEW p \in Order, CancelOrder(p) \/ RefundOrder(p) PROVE OneOwner(o)'
  <2>1. status[p] # "provisioning" /\ MoveTo(p, "cancelled")
    BY <1>3 DEF CancelOrder, RefundOrder, CanMove, ORDER_TRANSITIONS, Status
  <2>2. ~Owned(p)
    BY <2>1 DEF Owner_Inv, OneOwner
  <2>3. HoldersOf(o)' = HoldersOf(o)
    BY <1>3 DEF CancelOrder, RefundOrder, HoldersOf
  <2>4. o = p \/ (status'[o] = status[o] /\ stale'[o] = stale[o])
    BY <2>1 DEF MoveTo, TypeOK
  <2>5. Owned(o)' <=> Owned(o)
    BY <1>a, <2>3 DEF Owned
  <2> QED BY <1>0, <1>a, <2>2, <2>3, <2>4, <2>5, NoNewOwner
<1>4. CASE (\E p \in Order : LatePayment(p)) \/ UNCHANGED vars
  <2>1. HoldersOf(o)' = HoldersOf(o) /\ status' = status /\ stale' = stale
    BY <1>4 DEF LatePayment, vars, HoldersOf
  <2> QED BY <1>0, <1>a, <2>1, NoNewOwner
<1> QED BY <1>1, <1>2, <1>3, <1>4

(* An idle recovery has no order, and nobody selects orders of a chat. *)
LEMMA IdleAlways ==
  ASSUME TypeOK, Owner_Inv, Prompt, [Next]_vars
  PROVE  /\ \A c \in Canceller : scan'[c] = {}
         /\ \A r \in Recoverer : recoverer'[r].pc = "idle" => recoverer'[r].order = NoOrder
<1>1. scan' = scan
  BY DEF Owner_Inv, Prompt, Next, vars, CallComplete, BeginComplete, CompleteOrder, ClaimOrder,
     PollWinner, ConsumePromo, ExtendRenewal, ReuseLinked, AddClient, SaveProfile,
     LinkProfile, DeliverOrder, AuditDelivery, AccrueReferral, RestorePromo, MarkFailed,
     ProvisioningError, Return, Crash, RecoverClaim, RecoverLookup, RecoverSettle,
     RecoverAdopt, RecoverRelease, RecoverAbort, GrowStale, CancelOrder, RefundOrder,
     LatePayment, ChatSelect, ChatCancel
<1>2. ASSUME NEW s \in Recoverer, recoverer'[s].pc = "idle"
      PROVE  recoverer'[s].order = NoOrder
  <2>1. recoverer[s].pc = "idle" => recoverer[s].order = NoOrder
    BY DEF Owner_Inv
  <2>2. ASSUME NEW r \in Recoverer, NEW p \in Order, RecoverClaim(r, p)
        PROVE  recoverer'[s].order = NoOrder
    BY <1>2, <2>1, <2>2 DEF RecoverClaim, TypeOK
  <2>3. ASSUME NEW r \in Recoverer, RecoverLookup(r)
        PROVE  recoverer'[s].order = NoOrder
    BY <1>2, <2>1, <2>3 DEF RecoverLookup, TypeOK, RecovererState
  <2>4. ASSUME NEW r \in Recoverer, RecoverSettle(r) \/ RecoverAbort(r)
        PROVE  recoverer'[s].order = NoOrder
    BY <2>1, <1>2, <2>4 DEF RecoverSettle, RecoverAdopt, RecoverRelease, RecoverAbort, TypeOK,
       IdleRecoverer
  <2>5. CASE recoverer' = recoverer
    BY <1>2, <2>1, <2>5
  <2>6. \/ recoverer' = recoverer
        \/ \E r \in Recoverer : \/ \E p \in Order : RecoverClaim(r, p)
                               \/ RecoverLookup(r) \/ RecoverSettle(r) \/ RecoverAbort(r)
    BY DEF Next, vars, CallComplete, BeginComplete, CompleteOrder, ClaimOrder, PollWinner,
       ConsumePromo, ExtendRenewal, ReuseLinked, AddClient, SaveProfile, LinkProfile,
       DeliverOrder, AuditDelivery, AccrueReferral, RestorePromo, MarkFailed,
       ProvisioningError, Return, Crash, GrowStale, CancelOrder, RefundOrder, LatePayment,
       ChatSelect, ChatCancel
  <2> QED BY <2>2, <2>3, <2>4, <2>5, <2>6
<1> QED BY <1>1, <1>2 DEF Owner_Inv

(* Every step keeps Owner_Inv. *)
LEMMA OwnerStep ==
  ASSUME TypeOK, Owner_Inv, [Next]_vars
  PROVE  Owner_Inv'
<1> SUFFICES ASSUME Prompt PROVE Owner_Inv'
  BY SameFaults DEF Owner_Inv, Prompt
<1>1. ASSUME NEW o \in Order PROVE OneOwner(o)'
  <2>1. \A c \in Canceller : ~ChatSelect(c) /\ ~ChatCancel(c)
    BY DEF Owner_Inv, Prompt, ChatSelect, ChatCancel
  <2> QED BY <2>1, WorkerOwns, RecoveryOwns, OthersOwn DEF Next
<1> QED BY <1>1, IdleAlways DEF Owner_Inv

(* ExclusiveOwner, for any number of orders, threads and recoveries: while
   threads only die and panels only fail, at most one complete_order call or
   recovery settles an order, and only while it is `provisioning'. *)
THEOREM OwnerIsExclusive == Spec => []ExclusiveOwner
<1>1. Init => Owner_Inv
  BY OrderAssumption
     DEF Init, Owner_Inv, OneOwner, Owned, HoldersOf, RecoverersOf, IdleWorker, IdleRecoverer,
         Claimed
<1>2. TypeOK /\ Owner_Inv /\ [Next]_vars => Owner_Inv'
  BY OwnerStep
<1>3. Owner_Inv => ExclusiveOwner
  BY DEF Owner_Inv, Prompt, OneOwner, Owned, ExclusiveOwner, Attending, RecoverersOf
<1> QED BY <1>1, <1>2, <1>3, TypeCorrect, PTL DEF Spec
-----------------------------------------------------------------------------
(* What a thread may do in a step. *)
Moves(w) ==
  \/ \E o \in Order : CallComplete(w, o)
  \/ CompleteOrder(w) \/ ProvisioningError(w) \/ Return(w) \/ Crash(w)

(* At most one thread moves in a step. *)
LEMMA OneMoves ==
  ASSUME TypeOK, [Next]_vars
  PROVE  \/ worker' = worker
         \/ \E v \in Worker : /\ Moves(v)
                             /\ \A w \in Worker \ {v} : worker'[w] = worker[w]
<1>1. ASSUME NEW v \in Worker, Moves(v), NEW w \in Worker \ {v}
      PROVE  worker'[w] = worker[w]
  BY <1>1 DEF Moves, TypeOK, Goto, CallComplete, BeginComplete, CompleteOrder, ClaimOrder,
     PollWinner, ConsumePromo, ExtendRenewal, ReuseLinked, AddClient, SaveProfile,
     LinkProfile, DeliverOrder, AuditDelivery, AccrueReferral, RestorePromo, MarkFailed,
     ProvisioningError, Return, Crash
<1>2. worker' = worker \/ \E v \in Worker : Moves(v)
  BY DEF Moves, Next, vars, RecoverClaim, RecoverLookup, RecoverSettle, RecoverAdopt,
     RecoverRelease, RecoverAbort, GrowStale, CancelOrder, RefundOrder, LatePayment,
     ChatSelect, ChatCancel
<1> QED BY <1>1, <1>2

(* Only a thread or a recovery that has settled its order delivers it. *)
LEMMA BecomesDelivered ==
  ASSUME TypeOK, [Next]_vars, NEW o \in Order, status[o] # "delivered", status'[o] = "delivered"
  PROVE  \/ \E w \in Worker : /\ DeliverOrder(w) /\ o = worker[w].order
                             /\ Deliver(o) /\ Goto(w, "audit")
         \/ \E r \in Recoverer : /\ RecoverAdopt(r) /\ o = recoverer[r].order
                                /\ Deliver(o) /\ profile' = [profile EXCEPT ![o] = "linked"]
<1>1. ASSUME NEW w \in Worker, DeliverOrder(w)
      PROVE  o = worker[w].order /\ Deliver(o) /\ Goto(w, "audit")
  BY <1>1 DEF DeliverOrder, Deliver, MoveTo, KeepOrder, TypeOK
<1>2. ASSUME NEW r \in Recoverer, RecoverAdopt(r)
      PROVE  /\ o = recoverer[r].order /\ Deliver(o)
             /\ profile' = [profile EXCEPT ![o] = "linked"]
  BY <1>2 DEF RecoverAdopt, Deliver, MoveTo, KeepOrder, TypeOK
<1>3. ASSUME NEW w \in Worker, ClaimOrder(w) \/ MarkFailed(w) PROVE FALSE
  BY <1>3 DEF ClaimOrder, MarkFailed, MoveTo, KeepOrder, TypeOK
<1>4. ASSUME NEW r \in Recoverer, RecoverRelease(r) PROVE FALSE
  BY <1>4 DEF RecoverRelease, MoveTo, KeepOrder, TypeOK
<1>5. ASSUME NEW p \in Order, CancelOrder(p) \/ RefundOrder(p) PROVE FALSE
  BY <1>5 DEF CancelOrder, RefundOrder, MoveTo, TypeOK
<1>6. ASSUME NEW c \in Canceller, ChatCancel(c) PROVE FALSE
  BY <1>6 DEF ChatCancel, TypeOK
<1>7. \/ \E w \in Worker : ClaimOrder(w) \/ MarkFailed(w) \/ DeliverOrder(w)
      \/ \E r \in Recoverer : RecoverAdopt(r) \/ RecoverRelease(r)
      \/ \E p \in Order : CancelOrder(p) \/ RefundOrder(p)
      \/ \E c \in Canceller : ChatCancel(c)
  BY DEF Next, vars, KeepOrder, CallComplete, BeginComplete, CompleteOrder, PollWinner,
   ConsumePromo, ExtendRenewal, ReuseLinked, AddClient, SaveProfile, LinkProfile,
   AuditDelivery, AccrueReferral, RestorePromo, ProvisioningError, Return, Crash, RecoverClaim,
   RecoverLookup, RecoverSettle, RecoverAbort, GrowStale, LatePayment, ChatSelect
<1> QED BY <1>1, <1>2, <1>3, <1>4, <1>5, <1>6, <1>7

---------------------------------------------------------------------------
(* What each control point of a thread knows about its order. None of it can
   be undone by another thread. *)
KnowsProfile(w) ==
  LET o == worker[w].order IN
  /\ At(w, "client") => profile[o] # "none" /\ o \notin Renewal
  /\ At(w, "link") => grants[o] >= 1
  /\ At(w, "deliver") => profile[o] = "linked" /\ grants[o] >= 1

(* A profile vouches for a period, but the one that an inline renewal is
   inserted with; that one is granted by whoever delivers it, unless it is
   the recovery. *)
Served_Inv ==
  /\ \A o \in Order \ InlineRenewal : profile[o] # "none" => grants[o] >= 1
  /\ \A w \in Worker : KnowsProfile(w)
  /\ \A r \in Recoverer :
       recoverer[r].pc = "adopt" => profile[recoverer[r].order] # "none"
  /\ \A o \in Order : status[o] = "delivered" =>
       profile[o] = "linked" /\ (Unhurried => grants[o] >= 1)

(* Profiles and periods are never taken back by the steps of this module. *)
Grows ==
  \A o \in Order : /\ profile[o] # "none" => profile'[o] # "none"
                   /\ profile[o] = "linked" => profile'[o] = "linked"
                   /\ grants'[o] >= grants[o]

(* Every step lets profiles and periods grow. *)
LEMMA StepGrows ==
  ASSUME TypeOK, [Next]_vars PROVE Grows
<1> USE DEF Grows, TypeOK, At
<1>1. ASSUME NEW w \in Worker, ExtendRenewal(w) \/ ReuseLinked(w) \/ AddClient(w) PROVE Grows
  <2>1. worker[w].order \in Order
    BY <1>1 DEF ExtendRenewal, ReuseLinked, AddClient
  <2>2. grants' = grants \/ Grant(worker[w].order)
    BY <1>1 DEF ExtendRenewal, ReuseLinked, AddClient
  <2>3. \A o \in Order : grants'[o] >= grants[o]
    BY <2>1, <2>2 DEF Grant
  <2>4. \A o \in Order : /\ profile[o] # "none" => profile'[o] # "none"
                         /\ profile[o] = "linked" => profile'[o] = "linked"
    BY <1>1 DEF ExtendRenewal, ReuseLinked, AddClient
  <2> QED BY <2>3, <2>4
<1>2. ASSUME NEW w \in Worker, SaveProfile(w) \/ LinkProfile(w) PROVE Grows
  BY <1>2 DEF SaveProfile, LinkProfile, history
<1>3. ASSUME NEW r \in Recoverer, RecoverLookup(r) \/ RecoverSettle(r) PROVE Grows
  BY <1>3 DEF RecoverLookup, RecoverSettle, RecoverAdopt, RecoverRelease, history
<1>4. CASE profile' = profile /\ grants' = grants
  BY <1>4
<1>5. \/ profile' = profile /\ grants' = grants
      \/ \E w \in Worker : \/ ExtendRenewal(w) \/ ReuseLinked(w) \/ AddClient(w)
                           \/ SaveProfile(w) \/ LinkProfile(w)
      \/ \E r \in Recoverer : RecoverLookup(r) \/ RecoverSettle(r)
  BY DEF Next, vars, history, CallComplete, BeginComplete, CompleteOrder, ClaimOrder,
     PollWinner, ConsumePromo, DeliverOrder, Deliver, AuditDelivery, AccrueReferral, RestorePromo,
     MarkFailed, ProvisioningError, Return, Crash, RecoverClaim, RecoverAbort, GrowStale,
     CancelOrder, RefundOrder, LatePayment, ChatSelect, ChatCancel
<1> QED BY <1>1, <1>2, <1>3, <1>4, <1>5

(* A new profile comes with a period. *)
LEMMA ProfileGranted ==
  ASSUME TypeOK, TypeOK', Served_Inv, [Next]_vars, NEW o \in Order \ InlineRenewal,
         profile'[o] # "none"
  PROVE  grants'[o] >= 1
<1> USE DEF TypeOK, At
<1>1. CASE profile[o] # "none"
  <2>1. grants[o] >= 1 /\ grants'[o] >= grants[o]
    BY <1>1, StepGrows DEF Grows, Served_Inv
  <2>2. grants[o] \in Nat /\ grants'[o] \in Nat
    OBVIOUS
  <2> QED BY <2>1, <2>2
<1>2. CASE profile[o] = "none"
  <2>1. ASSUME NEW w \in Worker, AddClient(w) PROVE grants'[o] >= 1
    BY <1>2, <2>1 DEF AddClient, Grant
  <2>2. ASSUME NEW w \in Worker, SaveProfile(w) PROVE grants'[o] >= 1
    <3>1. profile' = profile \/ o # worker[w].order \/ profile[o] # "none"
      BY <2>2 DEF SaveProfile, Served_Inv, KnowsProfile
    <3> QED BY <1>2, <2>2, <3>1 DEF SaveProfile
  <2>3. ASSUME NEW w \in Worker, LinkProfile(w) PROVE grants'[o] >= 1
    <3>1. o = worker[w].order
      BY <1>2, <2>3 DEF LinkProfile
    <3> QED BY <2>3, <3>1 DEF LinkProfile, Served_Inv, KnowsProfile, history
  <2>4. ASSUME NEW r \in Recoverer, RecoverLookup(r) \/ RecoverSettle(r) PROVE grants'[o] >= 1
    BY <1>2, <2>4 DEF RecoverLookup, RecoverSettle, RecoverAdopt, RecoverRelease, Served_Inv
  <2>5. \/ \E w \in Worker : AddClient(w) \/ SaveProfile(w) \/ LinkProfile(w)
        \/ \E r \in Recoverer : RecoverLookup(r) \/ RecoverSettle(r)
    BY <1>2 DEF Next, vars, CallComplete, BeginComplete, CompleteOrder, ClaimOrder,
     PollWinner, ConsumePromo, ExtendRenewal, ReuseLinked, DeliverOrder, AuditDelivery,
     AccrueReferral, RestorePromo, MarkFailed, ProvisioningError, Return, Crash, RecoverClaim,
     RecoverAbort, GrowStale, CancelOrder, RefundOrder, LatePayment, ChatSelect, ChatCancel
  <2> QED BY <2>1, <2>2, <2>3, <2>4, <2>5
<1> QED BY <1>1, <1>2

(* A thread that moves on knows what its step established; one that does not
   still knows what it knew. *)
LEMMA KnowledgeKept ==
  ASSUME TypeOK, TypeOK', Served_Inv, [Next]_vars, NEW w \in Worker
  PROVE  KnowsProfile(w)'
<1> USE DEF At, WorkerPC
<1>0. Grows /\ KnowsProfile(w)
  BY StepGrows DEF Served_Inv
<1>1. CASE worker'[w] = worker[w]
  <2>1. worker[w].pc # "idle" => worker[w].order \in Order
    BY DEF TypeOK
  <2>2. \A o \in Order : grants[o] \in Nat /\ grants'[o] \in Nat
    BY DEF TypeOK
  <2> QED BY <1>0, <1>1, <2>1, <2>2 DEF KnowsProfile, Grows
<1>2. CASE AddClient(w)
  <2>1. worker'[w].pc = "client" /\ worker'[w].order = worker[w].order
    BY <1>2 DEF AddClient, Goto, TypeOK, WorkerState
  <2>2. worker[w].order \in Order
    BY <1>2 DEF AddClient, TypeOK
  <2>3. profile'[worker[w].order] # "none" /\ worker[w].order \notin Renewal
    BY <1>2, <2>2 DEF AddClient, TypeOK
  <2> QED BY <2>1, <2>3 DEF KnowsProfile
<1>3. CASE SaveProfile(w) \/ ExtendRenewal(w)
  <2>1. worker'[w].pc = "link" /\ worker'[w].order = worker[w].order
    BY <1>3 DEF SaveProfile, ExtendRenewal, Goto, TypeOK, WorkerState
  <2>2. worker[w].order \in Order
    BY <1>3 DEF SaveProfile, ExtendRenewal, TypeOK
  <2>3. grants'[worker[w].order] >= 1
    <3>1. CASE SaveProfile(w)
      <4>1. worker[w].order \notin InlineRenewal /\ profile[worker[w].order] # "none"
        BY <1>0, <3>1, OrderAssumption DEF SaveProfile, KnowsProfile
      <4> QED BY <2>2, <3>1, <4>1 DEF SaveProfile, Served_Inv, history
    <3>2. CASE ExtendRenewal(w)
      BY <2>2, <3>2 DEF ExtendRenewal, Grant, TypeOK
    <3> QED BY <1>3, <3>1, <3>2
  <2> QED BY <2>1, <2>3 DEF KnowsProfile
<1>4. CASE LinkProfile(w) \/ ReuseLinked(w)
  <2>1. worker'[w].pc = "deliver" /\ worker'[w].order = worker[w].order
    BY <1>4 DEF LinkProfile, ReuseLinked, Goto, TypeOK, WorkerState
  <2>2. worker[w].order \in Order
    BY <1>4 DEF LinkProfile, ReuseLinked, TypeOK
  <2>3. profile'[worker[w].order] = "linked"
    BY <1>4, <2>2 DEF LinkProfile, ReuseLinked, TypeOK
  <2>4. grants[worker[w].order] >= 1
    <3>1. CASE LinkProfile(w)
      BY <1>0, <3>1 DEF LinkProfile, KnowsProfile
    <3>2. CASE ReuseLinked(w)
      BY <2>2, <3>2, OrderAssumption DEF ReuseLinked, Served_Inv
    <3> QED BY <1>4, <3>1, <3>2
  <2>5. grants'[worker[w].order] >= 1
    <3>1. grants[worker[w].order] \in Nat /\ grants'[worker[w].order] \in Nat
      BY <2>2 DEF TypeOK
    <3> QED BY <1>0, <2>2, <2>4, <3>1 DEF Grows
  <2> QED BY <2>1, <2>3, <2>5 DEF KnowsProfile
<1>5. CASE worker'[w].pc \notin {"client", "link", "deliver"}
  BY <1>5 DEF KnowsProfile
<1>6. \/ worker'[w] = worker[w]
      \/ AddClient(w) \/ SaveProfile(w) \/ ExtendRenewal(w) \/ LinkProfile(w) \/ ReuseLinked(w)
      \/ worker'[w].pc \notin {"client", "link", "deliver"}
  <2>1. ASSUME \/ \E o \in Order : CallComplete(w, o)
               \/ ClaimOrder(w) \/ PollWinner(w) \/ ConsumePromo(w) \/ DeliverOrder(w)
               \/ AuditDelivery(w) \/ AccrueReferral(w) \/ RestorePromo(w) \/ MarkFailed(w)
               \/ ProvisioningError(w) \/ Return(w) \/ Crash(w)
        PROVE  worker'[w].pc \notin {"client", "link", "deliver"}
    BY <2>1 DEF TypeOK, WorkerState, Goto, CallComplete, BeginComplete, ClaimOrder, PollWinner,
       ConsumePromo, DeliverOrder, AuditDelivery, AccrueReferral, RestorePromo, MarkFailed,
       ProvisioningError, Return, Crash, IdleWorker
  <2> QED BY <2>1, OneMoves DEF Moves, CompleteOrder
<1> QED BY <1>1, <1>2, <1>3, <1>4, <1>5, <1>6

(* A recovery adopts only an order for which it found something. *)
LEMMA AdoptsProfile ==
  ASSUME TypeOK, Served_Inv, [Next]_vars, NEW r \in Recoverer, recoverer'[r].pc = "adopt"
  PROVE  profile'[recoverer'[r].order] # "none"
<1>1. CASE recoverer'[r] = recoverer[r]
  <2>1. profile[recoverer[r].order] # "none" /\ recoverer[r].order \in Order
    BY <1>1 DEF Served_Inv, TypeOK
  <2> QED BY <1>1, <2>1, StepGrows DEF Grows
<1>2. CASE RecoverLookup(r)
  BY <1>2 DEF RecoverLookup, TypeOK, RecovererState
<1>3. recoverer'[r] = recoverer[r] \/ RecoverLookup(r)
  <2>1. ASSUME NEW s \in Recoverer,
               \/ \E o \in Order : RecoverClaim(s, o)
               \/ RecoverSettle(s) \/ RecoverAbort(s)
        PROVE  recoverer'[r] = recoverer[r]
    BY <2>1 DEF RecoverClaim, RecoverSettle, RecoverAdopt, RecoverRelease, RecoverAbort, TypeOK,
       IdleRecoverer
  <2>2. ASSUME NEW s \in Recoverer, RecoverLookup(s), s # r
        PROVE  recoverer'[r] = recoverer[r]
    BY <2>2 DEF RecoverLookup, TypeOK
  <2>3. \/ recoverer' = recoverer
        \/ \E s \in Recoverer : \/ \E o \in Order : RecoverClaim(s, o)
                               \/ RecoverLookup(s) \/ RecoverSettle(s) \/ RecoverAbort(s)
    BY DEF Next, vars, CallComplete, BeginComplete, CompleteOrder, ClaimOrder, PollWinner,
       ConsumePromo, ExtendRenewal, ReuseLinked, AddClient, SaveProfile, LinkProfile,
       DeliverOrder, AuditDelivery, AccrueReferral, RestorePromo, MarkFailed,
       ProvisioningError, Return, Crash, GrowStale, CancelOrder, RefundOrder, LatePayment,
       ChatSelect, ChatCancel
  <2> QED BY <2>1, <2>2, <2>3
<1> QED BY <1>1, <1>2, <1>3

(* An order becomes delivered by a thread that has linked its profile or by a
   recovery that links it in the same transaction; the recovery sleeps while
   threads neither die nor stall. *)
LEMMA DeliveredIsLinked ==
  ASSUME TypeOK, TypeOK', Attended_Inv, Served_Inv, [Next]_vars, NEW o \in Order,
         status'[o] = "delivered"
  PROVE  profile'[o] = "linked" /\ (Unhurried => grants'[o] >= 1)
<1> USE DEF At
<1>0. grants[o] \in Nat /\ grants'[o] \in Nat /\ grants'[o] >= grants[o]
  BY StepGrows DEF TypeOK, Grows
<1>1. CASE status[o] = "delivered"
  BY <1>0, <1>1, StepGrows DEF Served_Inv, Grows
<1>2. CASE status[o] # "delivered"
  <2>1. ASSUME NEW w \in Worker, DeliverOrder(w), o = worker[w].order
        PROVE  profile'[o] = "linked" /\ grants'[o] >= 1
    <3>1. profile'[o] = "linked" /\ grants[o] >= 1
      BY <2>1 DEF DeliverOrder, Served_Inv, KnowsProfile
    <3> QED BY <1>0, <3>1
  <2>2. ASSUME NEW r \in Recoverer, RecoverAdopt(r),
               profile' = [profile EXCEPT ![o] = "linked"]
        PROVE  profile'[o] = "linked" /\ ~Unhurried
    BY <2>2, NoRecovery DEF TypeOK, RecoverSettle
  <2> QED BY <1>2, <2>1, <2>2, BecomesDelivered
<1> QED BY <1>1, <1>2

(* However complete_order, the recovery and the cancellations interleave and
   fail, a delivered order has its profile linked and its period granted; the
   period of an inline renewal only where no thread dies or stalls. *)
THEOREM DeliveredIsAlwaysServed == Spec => []DeliveredIsServed
<1>1. Init => Served_Inv
  BY DEF Init, Served_Inv, KnowsProfile, At, IdleWorker, IdleRecoverer
<1>2. TypeOK /\ TypeOK' /\ Attended_Inv /\ Served_Inv /\ [Next]_vars => Served_Inv'
  <2> SUFFICES ASSUME TypeOK, TypeOK', Attended_Inv, Served_Inv, [Next]_vars PROVE Served_Inv'
    OBVIOUS
  <2>1. \A o \in Order \ InlineRenewal : profile'[o] # "none" => grants'[o] >= 1
    BY ProfileGranted
  <2>2. \A w \in Worker : KnowsProfile(w)'
    BY KnowledgeKept
  <2>3. \A r \in Recoverer :
          recoverer'[r].pc = "adopt" => profile'[recoverer'[r].order] # "none"
    BY AdoptsProfile
  <2>4. \A o \in Order : status'[o] = "delivered" =>
          profile'[o] = "linked" /\ (Unhurried => grants'[o] >= 1)
    BY DeliveredIsLinked
  <2>5. Unhurried' <=> Unhurried
    BY SameFaults DEF Unhurried
  <2> QED BY <2>1, <2>2, <2>3, <2>4, <2>5 DEF Served_Inv
<1>3. TypeOK /\ Served_Inv => DeliveredIsServed
  <2> SUFFICES ASSUME TypeOK, Served_Inv, NEW o \in Order, status[o] = "delivered"
               PROVE  /\ profile[o] = "linked"
                      /\ grants[o] >= 1 \/ (o \in InlineRenewal /\ faults \cap {"crash", "slow"} # {})
    BY DEF DeliveredIsServed
  <2>1. faults \cap {"crash", "slow"} = {} => Unhurried
    BY BoundAssumption DEF TypeOK, FaultKind, Unhurried
  <2> QED BY <2>1 DEF Served_Inv
<1> QED BY <1>1, <1>2, <1>3, TypeCorrect, AttendedAlways, PTL DEF Spec

---------------------------------------------------------------------------
(* A commission for every delivery. The calls that still owe the referral
   ledger an entry for the order: *)
Owing(o) == {w \in Worker : worker[w].order = o /\ worker[w].pc \in {"audit", "referral"}}

(* A delivered order is accrued, or a call is about to, after every step of a
   calm behaviour: no recovery, which accrues nothing, ever delivers one. *)
LEMMA AccruedStep ==
  ASSUME TypeOK, Attended_Inv, DeliveredIsAccrued, Calm, [Next]_vars,
         NEW o \in Order, status'[o] = "delivered"
  PROVE  o \in accrued' \/ Owing(o)' # {}
<1> USE DEF At
<1>1. CASE status[o] # "delivered"
  <2>1. \A r \in Recoverer : ~RecoverAdopt(r)
    BY NoRecovery DEF Calm, Unhurried, RecoverSettle
  <2>2. PICK w \in Worker : DeliverOrder(w) /\ o = worker[w].order /\ Goto(w, "audit")
    BY <1>1, <2>1, BecomesDelivered
  <2>3. w \in Owing(o)'
    BY <2>2 DEF Owing, Goto, TypeOK, WorkerState
  <2> QED BY <2>3
<1>2. CASE status[o] = "delivered" /\ o \in accrued
  <2>1. accrued \subseteq accrued'
    BY DEF Next, vars, CallComplete, BeginComplete, CompleteOrder, ClaimOrder, PollWinner,
       ConsumePromo, ExtendRenewal, ReuseLinked, AddClient, SaveProfile, LinkProfile,
       DeliverOrder, AuditDelivery, AccrueReferral, RestorePromo, MarkFailed,
       ProvisioningError, Return, Crash, RecoverClaim, RecoverLookup, RecoverSettle,
       RecoverAdopt, RecoverRelease, RecoverAbort, GrowStale, CancelOrder, RefundOrder,
       LatePayment, ChatSelect, ChatCancel
  <2> QED BY <1>2, <2>1
<1>3. CASE status[o] = "delivered" /\ o \notin accrued
  <2>1. PICK v \in Worker : worker[v].order = o /\ worker[v].pc \in {"audit", "referral"}
    BY <1>3 DEF DeliveredIsAccrued, Calm
  <2>2. CASE worker'[v] = worker[v]
    BY <2>1, <2>2 DEF Owing
  <2>3. CASE AuditDelivery(v)
    <3>1. Goto(v, "referral")
      BY <2>1, <2>3 DEF AuditDelivery, Calm
    <3>2. v \in Owing(o)'
      BY <2>1, <3>1 DEF Owing, Goto, TypeOK, WorkerState
    <3> QED BY <3>2
  <2>4. CASE AccrueReferral(v)
    BY <2>1, <2>4 DEF AccrueReferral
  <2>5. CASE Moves(v)
    <3>1. AuditDelivery(v) \/ AccrueReferral(v)
      BY <2>1, <2>5 DEF Calm, Moves, CallComplete, BeginComplete, CompleteOrder, ClaimOrder,
         PollWinner, ConsumePromo, ExtendRenewal, ReuseLinked, AddClient, SaveProfile,
         LinkProfile, DeliverOrder, RestorePromo, MarkFailed, ProvisioningError, Return, Crash
    <3> QED BY <2>3, <2>4, <3>1
  <2> QED BY <2>2, <2>5, OneMoves
<1> QED BY <1>1, <1>2, <1>3

(* A delivered order has its referral commission, or the call that delivered
   it is about to write it, while threads neither die nor stall and no audit
   write fails. *)
THEOREM DeliveryIsAccrued == Spec => []DeliveredIsAccrued
<1>1. Init => DeliveredIsAccrued
  BY DEF Init, DeliveredIsAccrued, Status
<1>2. TypeOK /\ Attended_Inv /\ DeliveredIsAccrued /\ [Next]_vars => DeliveredIsAccrued'
  <2> SUFFICES ASSUME TypeOK, Attended_Inv, DeliveredIsAccrued, [Next]_vars, Calm,
                      NEW o \in Order, status'[o] = "delivered"
               PROVE  \/ o \in accrued'
                      \/ \E w \in Worker : /\ worker'[w].order = o
                                           /\ worker'[w].pc \in {"audit", "referral"}
    BY SameFaults DEF DeliveredIsAccrued, Calm
  <2> QED BY AccruedStep DEF Owing
<1> QED BY <1>1, <1>2, TypeCorrect, AttendedAlways, PTL DEF Spec

---------------------------------------------------------------------------
(* A period for every delivery of a renewal. The calls that have added the
   period of the order and not yet delivered it: *)
Unspent(o) == {w \in Worker : worker[w].order = o /\ worker[w].pc \in {"link", "deliver"}}

(* Every delivery, and every call that may yet make one, has its own period. *)
Paid(o) == deliveries[o] + Cardinality(Unspent(o)) <= grants[o]

PaidInv ==
  Unhurried =>
    /\ \A w \in Worker : worker[w].pc = "client" => worker[w].order \notin Renewal
    /\ \A o \in Renewal : Paid(o)

(* Counting the calls of an order: fewer calls, one call with one more
   delivery less, or one call more with one more period, keep the balance. *)
LEMMA Balance ==
  ASSUME NEW U, IsFiniteSet(U), NEW d \in Nat, NEW g \in Nat, d + Cardinality(U) <= g
  PROVE  /\ \A V \in SUBSET U, h \in Nat : h >= g => d + Cardinality(V) <= h
         /\ \A w \in U : (d + 1) + Cardinality(U \ {w}) <= g
         /\ \A w : w \notin U => d + Cardinality(U \cup {w}) <= g + 1
<1>1. Cardinality(U) \in Nat
  BY FS_CardinalityType
<1>2. ASSUME NEW V \in SUBSET U, NEW h \in Nat, h >= g PROVE d + Cardinality(V) <= h
  <2>1. Cardinality(V) <= Cardinality(U) /\ Cardinality(V) \in Nat
    BY FS_Subset, FS_CardinalityType
  <2> QED BY <1>1, <1>2, <2>1
<1>3. ASSUME NEW w \in U PROVE (d + 1) + Cardinality(U \ {w}) <= g
  <2>1. Cardinality(U \ {w}) = Cardinality(U) - 1
    BY FS_RemoveElement
  <2> QED BY <1>1, <2>1
<1>4. ASSUME NEW w, w \notin U PROVE d + Cardinality(U \cup {w}) <= g + 1
  <2>1. Cardinality(U \cup {w}) = Cardinality(U) + 1
    BY <1>4, FS_AddElement
  <2> QED BY <1>1, <2>1
<1> QED BY <1>2, <1>3, <1>4

(* A call that is about to link or deliver a renewal has just extended it, or
   was about to before. *)
LEMMA NewlyUnspent ==
  ASSUME TypeOK, PaidInv, Unhurried, [Next]_vars, NEW o \in Renewal,
         NEW v \in Unspent(o)', v \notin Unspent(o)
  PROVE  ExtendRenewal(v) /\ worker[v].order = o
<1> USE DEF At
<1>1. v \in Worker /\ worker'[v].order = o /\ worker'[v].pc \in {"link", "deliver"}
  BY DEF Unspent
<1>2. Moves(v)
  <2>1. worker'[v] # worker[v]
    BY <1>1 DEF Unspent
  <2> QED BY <1>1, <2>1, OneMoves
<1>3. SaveProfile(v) \/ ExtendRenewal(v) \/ LinkProfile(v) \/ ReuseLinked(v)
  BY <1>1, <1>2 DEF Moves, TypeOK, WorkerState, Goto, CallComplete, BeginComplete,
     CompleteOrder, ClaimOrder, PollWinner, ConsumePromo, AddClient, DeliverOrder,
     AuditDelivery, AccrueReferral, RestorePromo, MarkFailed, ProvisioningError, Return, Crash,
     IdleWorker
<1>4. worker[v].order = o
  BY <1>1, <1>3 DEF SaveProfile, ExtendRenewal, LinkProfile, ReuseLinked, Goto, TypeOK, WorkerState
<1>5. ~LinkProfile(v)
  BY <1>1, <1>4 DEF LinkProfile, Unspent
<1>6. ~SaveProfile(v) /\ ~ReuseLinked(v)
  BY <1>1, <1>4 DEF SaveProfile, ReuseLinked, PaidInv
<1> QED BY <1>3, <1>4, <1>5, <1>6

(* Only a call that had a period to spend delivers. *)
LEMMA NewDelivery ==
  ASSUME TypeOK, Attended_Inv, Unhurried, [Next]_vars, NEW o \in Order,
         deliveries'[o] # deliveries[o]
  PROVE  \E w \in Unspent(o) : /\ DeliverOrder(w)
                               /\ deliveries'[o] = deliveries[o] + 1
                               /\ Unspent(o)' = Unspent(o) \ {w} /\ grants' = grants
<1> USE DEF At
<1>1. PICK w \in Worker : DeliverOrder(w)
  BY NoRecovery DEF Next, vars, history, CallComplete, BeginComplete, CompleteOrder,
     ClaimOrder, PollWinner, ConsumePromo, ExtendRenewal, ReuseLinked, AddClient,
     SaveProfile, LinkProfile, AuditDelivery, AccrueReferral, RestorePromo, MarkFailed,
     ProvisioningError, Return, Crash, CancelOrder, RefundOrder, LatePayment, ChatSelect,
     ChatCancel
<1>2. worker[w].order = o /\ Deliver(o) /\ Goto(w, "audit") /\ grants' = grants
  BY <1>1 DEF DeliverOrder, Deliver, TypeOK
<1>3. w \in Unspent(o) /\ deliveries'[o] = deliveries[o] + 1
  BY <1>1, <1>2 DEF DeliverOrder, Unspent, Deliver, TypeOK
<1>4. Unspent(o)' = Unspent(o) \ {w}
  BY <1>2 DEF Unspent, Goto, TypeOK, WorkerState
<1> QED BY <1>1, <1>2, <1>3, <1>4

(* Every step leaves a period for each delivery. *)
LEMMA PaidStep ==
  ASSUME TypeOK, TypeOK', Attended_Inv, PaidInv, Unhurried, [Next]_vars, NEW o \in Renewal
  PROVE  Paid(o)'
<1> USE DEF At
<1>1. /\ o \in Order /\ Paid(o) /\ IsFiniteSet(Unspent(o))
      /\ deliveries[o] \in Nat /\ grants[o] \in Nat /\ grants'[o] \in Nat
  <2>1. IsFiniteSet(Unspent(o))
    BY OrderAssumption, FS_Subset DEF Unspent
  <2> QED BY <2>1, OrderAssumption DEF PaidInv, TypeOK
<1>2. CASE deliveries'[o] # deliveries[o]
  <2>1. PICK w \in Unspent(o) : /\ deliveries'[o] = deliveries[o] + 1
                                /\ Unspent(o)' = Unspent(o) \ {w} /\ grants' = grants
    BY <1>1, <1>2, NewDelivery
  <2>2. (deliveries[o] + 1) + Cardinality(Unspent(o) \ {w}) <= grants[o]
    BY <1>1, Balance DEF Paid
  <2> QED BY <2>1, <2>2 DEF Paid
<1>3. CASE deliveries'[o] = deliveries[o] /\ Unspent(o)' \subseteq Unspent(o)
  <2>1. grants'[o] >= grants[o]
    BY <1>1, StepGrows DEF Grows
  <2>2. deliveries[o] + Cardinality(Unspent(o)') <= grants'[o]
    BY <1>1, <1>3, <2>1, Balance DEF Paid
  <2> QED BY <1>3, <2>2 DEF Paid
<1>4. ASSUME deliveries'[o] = deliveries[o], NEW v \in Unspent(o)', v \notin Unspent(o)
      PROVE  Paid(o)'
  <2>1. ExtendRenewal(v) /\ worker[v].order = o
    BY <1>4, NewlyUnspent
  <2>2. grants'[o] = grants[o] + 1
    BY <1>1, <2>1 DEF ExtendRenewal, Grant, TypeOK
  <2>3. Unspent(o)' = Unspent(o) \cup {v}
    BY <1>4, <2>1 DEF ExtendRenewal, Unspent, Goto, TypeOK, WorkerState
  <2>4. deliveries[o] + Cardinality(Unspent(o) \cup {v}) <= grants[o] + 1
    BY <1>1, <1>4, Balance DEF Paid
  <2> QED BY <1>4, <2>2, <2>3, <2>4 DEF Paid
<1> QED BY <1>2, <1>3, <1>4

(* No delivery of a renewal is recorded for a period that was not added to the
   profile's expiry, for any number of orders, calls and cancellations, while
   threads neither die nor stall: what fails is undone before it is retried. *)
THEOREM RenewalIsPaidFor == Spec => []RenewalPaidFor
<1>1. Init => PaidInv
  <2> SUFFICES ASSUME Init, NEW o \in Renewal PROVE Paid(o)
    BY DEF Init, IdleWorker, PaidInv
  <2>1. Unspent(o) = {} /\ deliveries[o] = 0 /\ grants[o] = 0
    BY OrderAssumption DEF Init, IdleWorker, Unspent
  <2> QED BY <2>1, FS_EmptySet DEF Paid
<1>2. TypeOK /\ TypeOK' /\ Attended_Inv /\ PaidInv /\ [Next]_vars => PaidInv'
  <2> SUFFICES ASSUME TypeOK, TypeOK', Attended_Inv, PaidInv, [Next]_vars, Unhurried PROVE PaidInv'
    BY SameFaults DEF PaidInv, Unhurried
  <2>1. ASSUME NEW w \in Worker, worker'[w].pc = "client" PROVE worker'[w].order \notin Renewal
    <3>1. CASE worker'[w] = worker[w]
      BY <2>1, <3>1 DEF PaidInv
    <3>2. CASE Moves(w)
      <4>1. AddClient(w)
        BY <2>1, <3>2 DEF Moves, At, TypeOK, WorkerState, Goto, CallComplete, BeginComplete,
           CompleteOrder, ClaimOrder, PollWinner, ConsumePromo, ExtendRenewal, ReuseLinked,
           SaveProfile, LinkProfile, DeliverOrder, AuditDelivery, AccrueReferral,
           RestorePromo, MarkFailed, ProvisioningError, Return, Crash, IdleWorker
      <4> QED BY <4>1 DEF AddClient, Goto, TypeOK, WorkerState
    <3> QED BY <3>1, <3>2, OneMoves
  <2> QED BY <2>1, PaidStep DEF PaidInv
<1>3. TypeOK /\ PaidInv => RenewalPaidFor
  <2> SUFFICES ASSUME TypeOK, PaidInv, Unhurried, NEW o \in Renewal
               PROVE  deliveries[o] <= grants[o]
    BY DEF RenewalPaidFor, Unhurried
  <2>1. IsFiniteSet(Unspent(o))
    BY OrderAssumption, FS_Subset DEF Unspent
  <2>2. Cardinality(Unspent(o)) \in Nat
    BY <2>1, FS_CardinalityType
  <2>3. Paid(o) /\ deliveries[o] \in Nat /\ grants[o] \in Nat
    BY OrderAssumption DEF PaidInv, TypeOK
  <2> QED BY <2>2, <2>3 DEF Paid
<1> QED BY <1>1, <1>2, <1>3, TypeCorrect, AttendedAlways, PTL DEF Spec
==============================================================================
