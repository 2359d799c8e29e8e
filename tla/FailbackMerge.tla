----------------------------- MODULE FailbackMerge -----------------------------
(***************************************************************************)
(* failback_merge.py: the primary node stops, the standby serves from a    *)
(* snapshot (the baseline), and afterwards what both wrote is merged into  *)
(* the primary's vpn_shop.db and x-ui.db, each in a transaction of its     *)
(* own. The pipeline that calls it is external.                            *)
(*                                                                         *)
(* The databases hold what the three-way rules tell apart: orders that     *)
(* renew one profile with one promo code, the profile, its client in x-ui  *)
(* and the client's traffic. deleted_at goes with the status.              *)
(***************************************************************************)
EXTENDS Integers, FiniteSets, FiniteSetsExt

CONSTANTS
  RenewalDays,  \* days that a renewal adds; a failover is shorter than that
  LastDay,      \* bound on the days
  MaxWrites,    \* bound on what a node writes
  MaxFailures,  \* bound on the merges that fail and are repeated
  SplitBrain    \* may the primary go on after the standby was promoted

ASSUME FailbackAssumption ==
  /\ RenewalDays \in Nat /\ LastDay \in 1..RenewalDays /\ MaxWrites \in Nat /\ MaxFailures \in Nat
  /\ SplitBrain \in BOOLEAN

VARIABLES
  base,      \* the snapshot
  db,        \* databases of the two nodes
  before,    \* the primary's when the merge began
  refunded,  \* orders refunded on either node
  pipeline,  \* "primary", "standby", "vpn", "xui", "merged" or "fatal"
  mergeOk,   \* no error in this pipeline so far
  merges,    \* vpn_shop.db merges committed
  day,       \* days
  writes,    \* writes so far on each node
  failures   \* failed merges so far

failbackVars ==
  <<base, db, before, refunded, pipeline, mergeOk, merges, day, writes, failures>>

Side == {"nl", "fi"}
(* One order of the snapshot, one that each node takes itself. *)
Ord == {"old", "nl", "fi"}
OrdStatus == {"none", "waiting", "provisioning", "delivered", "cancelled"}

Database ==
  [order : [Ord -> OrdStatus], used : Int,
   profile : [status : {"active", "expired", "deleted"}, expires : Nat, renewed : Nat],
   client : [enable : BOOLEAN, expiry : Nat], up : Nat]

FailbackTypeOK ==
  /\ base \in Database
  /\ \A s \in Side : db[s] \in Database
  /\ before \in Database
  /\ refunded \subseteq Ord
  /\ pipeline \in {"primary", "standby", "vpn", "xui", "merged", "fatal"}
  /\ mergeOk \in BOOLEAN
  /\ merges \in Nat
  /\ day \in 1..LastDay
  /\ \A s \in Side : writes[s] \in 0..MaxWrites
  /\ failures \in 0..MaxFailures

SnapshotWith(status, expires) ==
  [order |-> [o \in Ord |-> IF o = "old" THEN status ELSE "none"], used |-> 1,
   profile |-> [status |-> "active", expires |-> expires, renewed |-> 0],
   client |-> [enable |-> TRUE, expiry |-> expires], up |-> 1]

FailbackInit ==
  /\ \E status \in {"waiting", "delivered"}, expires \in 2..3 :
       base = SnapshotWith(status, expires)
  /\ db = [s \in Side |-> base]
  /\ before = base
  /\ refunded = {}
  /\ pipeline = "primary"
  /\ mergeOk = TRUE
  /\ merges = 0
  /\ day = 1
  /\ writes = [s \in Side |-> 0]
  /\ failures = 0
-----------------------------------------------------------------------------
Serving(s) ==
  \/ s = "nl" /\ pipeline = "primary"
  \/ s = "nl" /\ pipeline = "standby" /\ SplitBrain
  \/ s = "fi" /\ pipeline = "standby"

NodeWrites(s, d) ==
  /\ Serving(s)
  /\ writes[s] < MaxWrites
  /\ db' = [db EXCEPT ![s] = d]
  /\ writes' = [writes EXCEPT ![s] = @ + 1]
  /\ UNCHANGED <<base, before, pipeline, mergeOk, merges, day, failures>>

TakeOrder(s) ==
  /\ db[s].order[s] = "none"
  /\ NodeWrites(s, [db[s] EXCEPT !.order[s] = "waiting", !.used = @ + 1])
  /\ UNCHANGED refunded

ClaimOrder(s, o) ==
  /\ db[s].order[o] = "waiting"
  /\ NodeWrites(s, [db[s] EXCEPT !.order[o] = "provisioning"])
  /\ UNCHANGED refunded

(* The renewal: a period more, and the client is enabled. *)
DeliverRenewal(s, o) ==
  LET expires == Max({db[s].profile.expires, day}) + RenewalDays
  IN /\ db[s].order[o] = "provisioning"
     /\ NodeWrites(s, [db[s] EXCEPT
          !.order[o] = "delivered",
          !.profile = [status |-> "active", expires |-> expires, renewed |-> day],
          !.client = [enable |-> TRUE, expiry |-> expires]])
     /\ UNCHANGED refunded

CancelOrder(s, o) ==
  /\ db[s].order[o] = "waiting"
  /\ NodeWrites(s, [db[s] EXCEPT !.order[o] = "cancelled", !.used = @ - 1])
  /\ UNCHANGED refunded

RefundOrder(s, o) ==
  /\ db[s].order[o] = "delivered"
  /\ NodeWrites(s, [db[s] EXCEPT !.order[o] = "cancelled", !.profile.status = "deleted",
                            !.client.enable = FALSE])
  /\ refunded' = refunded \cup {o}

ReapProfile(s) ==
  /\ db[s].profile.status = "active" /\ db[s].profile.expires <= day
  /\ NodeWrites(s, [db[s] EXCEPT !.profile.status = "expired", !.client.enable = FALSE])
  /\ UNCHANGED refunded

UseTraffic(s) ==
  /\ db[s].client.enable
  /\ NodeWrites(s, [db[s] EXCEPT !.up = @ + 1])
  /\ UNCHANGED refunded

PassDay ==
  /\ pipeline \in {"primary", "standby"}
  /\ day < LastDay
  /\ day' = day + 1
  /\ UNCHANGED <<base, db, before, refunded, pipeline, mergeOk, merges, writes, failures>>

(* promote_fi.sh: what the primary wrote after the snapshot is not there. *)
Promote ==
  /\ pipeline = "primary" /\ day < LastDay
  /\ pipeline' = "standby"
  /\ day' = day + 1
  /\ UNCHANGED <<base, db, before, refunded, mergeOk, merges, writes, failures>>

(* demote_fi.sh: the standby is quiet, the merge begins. *)
Demote ==
  /\ pipeline = "standby"
  /\ pipeline' = "vpn"
  /\ before' = db["nl"]
  /\ UNCHANGED <<base, db, refunded, mergeOk, merges, day, writes, failures>>
-----------------------------------------------------------------------------
(* Faulty variant of the next definition: D-02, without the baseline. *)
_MergedCount(n, f, b) == n + Max({0, f - n})
(* merge_counter_table, and the traffic of merge_xui. *)
MergedCount(n, f, b) == n + Max({0, f - b})

(* merge_profiles: the side that changed, else the one renewed later. *)
MergedProfile(n, f, b) ==
  [status |-> IF \/ f # b /\ n = b
                 \/ (f # b <=> n # b) /\ f.renewed > n.renewed
                THEN f.status ELSE n.status,
   expires |-> Max({n.expires, f.expires}), renewed |-> Max({n.renewed, f.renewed})]

OrderRank(status) ==
  CASE status = "waiting" -> 0
    [] status = "provisioning" -> 2
    [] status = "cancelled" -> 3
    [] status = "delivered" -> 4

(* resolve_order_status; rows that only one side has are kept or inserted. *)
MergedOrder(n, f, b) ==
  CASE f = "none" \/ n = f -> n
    [] n = "none" -> f
    [] n # f /\ f = b /\ n # "none" -> n
    [] n # f /\ n = b /\ f # b /\ f # "none" -> f
    [] OTHER -> IF OrderRank(f) > OrderRank(n) THEN f ELSE n

(* merge_xui: the side that changed the flag. *)
MergedEnable(n, f, b) == IF n # f /\ n = b THEN f ELSE n

CommitMerge(d) ==
  /\ db' = [db EXCEPT !["nl"] = d]
  /\ UNCHANGED <<mergeOk, failures>>
(* An error of any kind: the transaction is rolled back, the pipeline goes on. *)
FailMerge ==
  /\ failures < MaxFailures
  /\ failures' = failures + 1
  /\ mergeOk' = FALSE
  /\ UNCHANGED db

MergeVpnShop ==
  /\ pipeline = "vpn"
  /\ LET n == db["nl"]
         f == db["fi"]
     IN \/ /\ CommitMerge([n EXCEPT
                !.order = [o \in Ord |-> MergedOrder(n.order[o], f.order[o], base.order[o])],
                !.used = MergedCount(n.used, f.used, base.used),
                !.profile = MergedProfile(n.profile, f.profile, base.profile)])
           /\ merges' = merges + 1
        \/ FailMerge /\ UNCHANGED merges
  /\ pipeline' = "xui"
  /\ UNCHANGED <<base, before, refunded, day, writes>>

MergeXui ==
  /\ pipeline = "xui"
  /\ LET n == db["nl"]
         f == db["fi"]
     IN \/ /\ CommitMerge([n EXCEPT
                !.client = [enable |-> MergedEnable(n.client.enable, f.client.enable,
                                                    base.client.enable),
                            expiry |-> Max({n.client.expiry, f.client.expiry})],
                !.up = MergedCount(n.up, f.up, base.up)])
           /\ pipeline' = IF mergeOk THEN "merged" ELSE "fatal"
        \/ FailMerge /\ pipeline' = "fatal"
  /\ UNCHANGED <<base, before, refunded, merges, day, writes>>

(* The pipeline is run again after an error. *)
RerunMerge ==
  /\ pipeline = "fatal"
  /\ pipeline' = "vpn"
  /\ mergeOk' = TRUE
  /\ UNCHANGED <<base, db, before, refunded, merges, day, writes, failures>>

FailbackNext ==
  \/ \E s \in Side :
       \/ TakeOrder(s) \/ ReapProfile(s) \/ UseTraffic(s)
       \/ \E o \in Ord : ClaimOrder(s, o) \/ DeliverRenewal(s, o) \/ CancelOrder(s, o)
                         \/ RefundOrder(s, o)
  \/ PassDay \/ Promote \/ Demote
  \/ MergeVpnShop \/ MergeXui \/ RerunMerge

FailbackSpec == FailbackInit /\ [][FailbackNext]_failbackVars
-----------------------------------------------------------------------------
Nodes == {before, db["fi"]}
Holders(d) == {o \in Ord : d.order[o] \notin {"none", "cancelled"}}

(* D-01: what was delivered on either node and refunded on none is delivered
   after the merge, whatever the other node did with the order. *)
DeliveredStays ==
  merges > 0 =>
    \A d \in Nodes, o \in Ord \ refunded :
      d.order[o] = "delivered" => db["nl"].order[o] = "delivered"

(* D-02: no redemption gets lost; every order that both nodes did not change
   and that still holds a use of the code is counted, also when the merge is
   repeated. *)
UsesAreCounted ==
  merges > 0 /\ (\A o \in Ord : base.order[o] \in {before.order[o], db["fi"].order[o]})
    => db["nl"].used >= Cardinality(Holders(db["nl"]))

(* D-03: a profile that is active with paid time left on either node is active
   after the merge and keeps that time, when no refund took it. *)
PaidAccessKept ==
  merges > 0 /\ refunded = {} =>
    \A d \in Nodes :
      d.profile.status = "active" /\ d.profile.expires > day =>
        db["nl"].profile.status = "active" /\ db["nl"].profile.expires >= d.profile.expires

(* D-07: a client that was revoked stays disabled, unless the profile was
   renewed on the other node. *)
RevokedStays ==
  pipeline = "merged" =>
    \A d \in Nodes :
      d.profile.status = "deleted" /\ d.profile.renewed = db["nl"].profile.renewed
        => ~db["nl"].client.enable \/ db["nl"].profile.status = "active"

(* What the merge is for, for whatever both nodes wrote and however often it
   failed and was repeated. *)
MergeLosesNothing == DeliveredStays /\ UsesAreCounted /\ PaidAccessKept /\ RevokedStays
=============================================================================
