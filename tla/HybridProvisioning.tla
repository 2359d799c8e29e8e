-------------------------- MODULE HybridProvisioning --------------------------
(***************************************************************************)
(* Provisioner.create_hybrid_profile_for_order: an order for a hybrid      *)
(* subscription is made of two profiles, tcp and xhttp, each an x-ui       *)
(* client and a row of the store under an alias derived from the order.    *)
(* An attempt that fails rolls the tcp leg back; the order may be tried    *)
(* again, and the next attempt reuses what it finds under the aliases.     *)
(* The reconciler purges the clients of deleted rows meanwhile.            *)
(***************************************************************************)
EXTENDS Integers

CONSTANT MaxAttempts  \* bound on the attempts of the order

ASSUME HybridAssumption == MaxAttempts \in Nat

VARIABLES
  leg,       \* the leg and the step the worker is at, or how the attempt ended
  legClient, \* legClient[l]: is there an x-ui client under the alias of l
  legRow,    \* legRow[l]: status of the latest row under the alias of l
  linked,    \* is the order linked to its profile
  attempts

hybridVars == <<leg, legClient, legRow, linked, attempts>>

Leg == {"tcp", "xhttp"}

HybridTypeOK ==
  /\ leg \in (Leg \X {"client", "row"})
         \cup {<<"order", s>> : s \in {"new", "link", "undo", "mark", "ready", "failed", "unmarked"}}
  /\ legClient \in [Leg -> BOOLEAN]
  /\ legRow \in [Leg -> {"none", "active", "deleted"}]
  /\ linked \in BOOLEAN
  /\ attempts \in 0..MaxAttempts

HybridInit ==
  /\ leg = <<"order", "new">>
  /\ legClient = [l \in Leg |-> FALSE]
  /\ legRow = [l \in Leg |-> "none"]
  /\ linked = FALSE
  /\ attempts = 0

(* complete_order claims the order, new or failed before. *)
StartHybrid ==
  /\ leg \in {<<"order", s>> : s \in {"new", "failed", "unmarked"}}
  /\ attempts < MaxAttempts
  /\ attempts' = attempts + 1
  /\ leg' = <<"tcp", "client">>
  /\ UNCHANGED <<legClient, legRow, linked>>

(* The client found under the alias is reused, else one is added. *)
AddLegClient(l) ==
  /\ leg = <<l, "client">>
  /\ legClient' = [legClient EXCEPT ![l] = TRUE]
  /\ leg' = <<l, "row">>
  /\ UNCHANGED <<legRow, linked, attempts>>

(* get_profile_by_xui_email finds the row whatever its status; only when there
   is none a new one is made. *)
SaveLegRow(l) ==
  /\ leg = <<l, "row">>
  /\ legRow' = [legRow EXCEPT ![l] = IF @ = "none" THEN "active" ELSE @]
  /\ leg' = IF l = "tcp" THEN <<"xhttp", "client">> ELSE <<"order", "link">>
  /\ UNCHANGED <<legClient, linked, attempts>>

(* A leg fails: the panel is down before or after the client was added, or the
   row cannot be saved. Only a finished tcp leg is rolled back. *)
FailLeg(l) ==
  /\ leg[1] = l
  /\ \/ UNCHANGED legClient
     \/ leg[2] = "client" /\ legClient' = [legClient EXCEPT ![l] = TRUE]
  /\ leg' = IF l = "tcp" THEN <<"order", "failed">> ELSE <<"order", "undo">>
  /\ UNCHANGED <<legRow, linked, attempts>>

(* The rollback deletes the tcp client by id, then by email; errors are logged. *)
UndoTcpClient ==
  /\ leg = <<"order", "undo">>
  /\ \E deleted \in BOOLEAN : legClient' = [legClient EXCEPT !["tcp"] = @ /\ ~deleted]
  /\ leg' = <<"order", "mark">>
  /\ UNCHANGED <<legRow, linked, attempts>>

(* Faulty variant of the next definition: the row stays. *)
_KeepTcpRow ==
  /\ leg = <<"order", "mark">>
  /\ leg' = <<"order", "failed">>
  /\ UNCHANGED <<legClient, legRow, linked, attempts>>

(* mark_profile_deleted, and the exception goes on to complete_order. *)
MarkTcpDeleted ==
  /\ leg = <<"order", "mark">>
  /\ legRow' = [legRow EXCEPT !["tcp"] = "deleted"]
  /\ leg' = <<"order", "failed">>
  /\ UNCHANGED <<legClient, linked, attempts>>

(* ... or it raises in its turn: the order fails the same way, but the row of
   the leg stays what it was. *)
FailMark ==
  /\ leg = <<"order", "mark">>
  /\ leg' = <<"order", "unmarked">>
  /\ UNCHANGED <<legClient, legRow, linked, attempts>>

(* link_order_profile and update_order_meta; the order is delivered next. *)
LinkHybrid ==
  /\ leg = <<"order", "link">>
  /\ linked' = TRUE
  /\ leg' = <<"order", "ready">>
  /\ UNCHANGED <<legClient, legRow, attempts>>

(* A store error there fails the order outside of the rollback. *)
FailLink ==
  /\ leg = <<"order", "link">>
  /\ linked' \in {linked, TRUE}
  /\ leg' = <<"order", "failed">>
  /\ UNCHANGED <<legClient, legRow, attempts>>

(* The reconciler deletes the client of a deleted row. *)
PurgeDeleted(l) ==
  /\ legRow[l] = "deleted"
  /\ legClient[l]
  /\ legClient' = [legClient EXCEPT ![l] = FALSE]
  /\ UNCHANGED <<leg, legRow, linked, attempts>>

(* ... and adds a client that is missing for an active one. *)
RestoreActive(l) ==
  /\ legRow[l] = "active"
  /\ ~legClient[l]
  /\ legClient' = [legClient EXCEPT ![l] = TRUE]
  /\ UNCHANGED <<leg, legRow, linked, attempts>>

HybridStep ==
  \/ \E l \in Leg : AddLegClient(l) \/ SaveLegRow(l)
  \/ UndoTcpClient
  \/ MarkTcpDeleted
  \/ LinkHybrid

HybridNext ==
  \/ StartHybrid
  \/ HybridStep
  \/ FailMark
  \/ FailLink
  \/ \E l \in Leg : FailLeg(l) \/ PurgeDeleted(l) \/ RestoreActive(l)

(* The worker goes on and the reconciler keeps passing; nobody has to try a
   failed order again. *)
HybridFairness ==
  /\ WF_hybridVars(HybridStep)
  /\ \A l \in Leg : WF_hybridVars(PurgeDeleted(l))

HybridSpec == HybridInit /\ [][HybridNext]_hybridVars /\ HybridFairness
-----------------------------------------------------------------------------
(* An order whose attempt failed after its tcp leg was complete leaves nobody
   connected through that leg, even when the rollback could not reach the
   panel: either the order is tried again or the client goes. The exception is
   a rollback whose mark_profile_deleted fails as well: the row stays active,
   and the reconciler keeps the client where it is, or puts it back. *)
FailedTcpGoes ==
  leg = <<"order", "undo">> ~>
    \/ ~legClient["tcp"]
    \/ leg \in (Leg \X {"client", "row"}) \cup {<<"order", "link">>}
    \/ leg = <<"order", "unmarked">>
=============================================================================
