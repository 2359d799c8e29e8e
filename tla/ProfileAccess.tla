---------------------------- MODULE ProfileAccess ----------------------------
(***************************************************************************)
(* One paid profile on a mesh of nodes: its row in the cloud, the copy of  *)
(* the row each node's replica holds, and the x-ui client each node serves *)
(* it from. Renewals (Provisioner.renew_profile), the switch of the admin  *)
(* panel (set_profile_enabled), the reaper of the periodic tasks, refunds  *)
(* (revoke_profile_access), the cabinet's look at a profile and every      *)
(* node's XuiReconciler work on them concurrently.                         *)
(*                                                                         *)
(* The sale made the profile on one node and synchronised that node; the   *)
(* others have neither row nor client yet. Times are periods; x-ui's own   *)
(* tables are one client, since every writer writes all of them.           *)
(***************************************************************************)
EXTENDS Integers, FiniteSets, FiniteSetsExt

CONSTANTS
  Node,         \* nodes of the mesh
  Home,         \* the node the profile was sold on
  RenewalRun,   \* attempts to renew it, each by one worker
  NodeOf,       \* NodeOf[r]: the node that runs renewal r
  Period,       \* Period[r]: the time renewal r sells
  FirstExpiry,  \* when the sold period ends
  MaxTime,      \* bound on the clock
  MaxEvents     \* bound on uses of the switch, refunds and visits, together

ASSUME AccessAssumption ==
  /\ Home \in Node
  /\ NodeOf \in [RenewalRun -> Node]
  /\ Period \in [RenewalRun -> Nat \ {0}]
  /\ {FirstExpiry, MaxTime, MaxEvents} \subseteq Nat

VARIABLES
  clock,     \* real time, in periods
  row,       \* the row of profiles in the cloud
  copy,      \* copy[n]: the row as n's replica shows it
  client,    \* client[n]: n's x-ui client
  renewal,   \* the worker of each renewal
  reaper,    \* the reaper and the node it runs on
  switch,    \* the admin's switch
  plan,      \* plan[n]: what n's reconciler is about to write
  due,       \* the expiry the customer has paid for
  clashed,   \* has a writer of the expiry worked from values another one changed
  events     \* uses of the switch, refunds and visits so far

accessVars == <<clock, row, copy, client, renewal, reaper, switch, plan, due, clashed,
                events>>

NoRow == [status |-> "none", expires |-> 0]
NoClient == [on |-> FALSE, expires |-> 0, present |-> FALSE]
NoPlan == [do |-> "nothing"]
Idle == [at |-> "idle"]

(* The record of a worker with no renewal under way. *)
Ended(pc) == [pc |-> pc, seen |-> 0, since |-> 0, new |-> 0]

MaxExpiry == FirstExpiry + MaxTime + SumSet({Period[r] : r \in RenewalRun}) * Cardinality(RenewalRun)
RowState == [status : {"none", "active", "expired", "deleted"}, expires : 0..MaxExpiry]
ClientState == [on : BOOLEAN, expires : 0..MaxExpiry, present : BOOLEAN]

AccessTypeOK ==
  /\ clock \in 0..MaxTime
  /\ row \in RowState
  /\ copy \in [Node -> RowState]
  /\ client \in [Node -> ClientState]
  /\ \A r \in RenewalRun : renewal[r].pc \in {"idle", "client", "write", "extend", "done", "raised"}
  /\ reaper.at \in {"idle", "disable"}
  /\ switch.at \in {"idle", "write"}
  /\ \A n \in Node : plan[n].do \in {"nothing", "purge", "set"}
  /\ due \in 0..MaxExpiry
  /\ clashed \in BOOLEAN

AccessInit ==
  /\ clock = 0
  /\ row = [status |-> "active", expires |-> FirstExpiry]
  /\ copy = [n \in Node |-> IF n = Home THEN row ELSE NoRow]
  /\ client = [n \in Node |->
       IF n = Home THEN [on |-> TRUE, expires |-> FirstExpiry, present |-> TRUE] ELSE NoClient]
  /\ renewal = [r \in RenewalRun |-> Ended("idle")]
  /\ reaper = Idle
  /\ switch = Idle
  /\ plan = [n \in Node |-> NoPlan]
  /\ due = FirstExpiry
  /\ clashed = FALSE
  /\ events = 0

(* A write of the row goes to the cloud and, through the flush of the commit,
   to the writer's replica. *)
WriteRow(n, new) ==
  /\ row' = new
  /\ copy' = [copy EXCEPT ![n] = new]

(* A read of the row at n. A row that is missing, expired or past its time is
   read again after a synchronisation. *)
Refreshed(n) ==
  copy[n].status \in {"none", "expired"} \/ copy[n].expires <= clock
RowAt(n) == IF Refreshed(n) THEN row ELSE copy[n]
ReadRow(n) == copy' = [copy EXCEPT ![n] = RowAt(n)]

InFlight(r) == renewal[r].pc \in {"client", "write", "extend"}
Working == (\E r \in RenewalRun : InFlight(r)) \/ switch.at # "idle"
SetRenewal(r, rec) == renewal' = [renewal EXCEPT ![r] = rec]
-----------------------------------------------------------------------------
Tick ==
  /\ clock < MaxTime
  /\ clock' = clock + 1
  /\ UNCHANGED <<row, copy, client, renewal, reaper, switch, plan, due, clashed, events>>

(* n's replica catches up with the cloud. *)
SyncCopy(n) ==
  /\ copy[n] # row
  /\ copy' = [copy EXCEPT ![n] = row]
  /\ UNCHANGED <<clock, row, client, renewal, reaper, switch, plan, due, clashed, events>>

(* renew_profile: read the row. Two writers at once, or one that works from a
   replica or a client left behind by another node, are remembered. *)
ReadProfile(r) ==
  LET n == NodeOf[r] IN
  /\ renewal[r].pc = "idle"
  /\ ReadRow(n)
  /\ clashed' = (clashed \/ Working \/ RowAt(n) # row)
  /\ IF RowAt(n).status \in {"none", "deleted"}
       THEN SetRenewal(r, Ended("raised"))
       ELSE SetRenewal(r, [renewal[r] EXCEPT !.pc = "client", !.seen = RowAt(n).expires])
  /\ UNCHANGED <<clock, row, client, reaper, switch, plan, due, events>>

(* Faulty variant of the next definition: the new period starts today. *)
_ReadClientFromNow(r) ==
  LET n == NodeOf[r] IN
  /\ renewal[r].pc = "client"
  /\ client[n].present
  /\ SetRenewal(r, [renewal[r] EXCEPT !.pc = "write", !.since = clock,
                                      !.new = clock + Period[r]])
  /\ UNCHANGED <<clock, row, copy, client, reaper, switch, plan, due, clashed, events>>

(* renew_profile: read the client; the period is added to the latest of now,
   the row's expiry and the client's. *)
ReadClient(r) ==
  LET n == NodeOf[r] IN
  /\ renewal[r].pc = "client"
  /\ IF client[n].present
       THEN SetRenewal(r, [renewal[r] EXCEPT !.pc = "write", !.since = clock,
              !.new = Max({clock, renewal[r].seen, client[n].expires}) + Period[r]])
       ELSE SetRenewal(r, Ended("raised"))
  /\ UNCHANGED <<clock, row, copy, client, reaper, switch, plan, due, clashed, events>>

(* update_client_expiry_direct, or an exception before or after it took effect. *)
WriteClient(r) ==
  LET n == NodeOf[r] IN
  /\ renewal[r].pc = "write"
  /\ \E ok \in BOOLEAN, written \in BOOLEAN :
       /\ ok => written
       /\ client' = IF written /\ client[n].present
            THEN [client EXCEPT ![n].on = TRUE, ![n].expires = renewal[r].new]
            ELSE client
       /\ SetRenewal(r, IF ok THEN [renewal[r] EXCEPT !.pc = "extend"]
                                ELSE Ended("raised"))
  /\ UNCHANGED <<clock, row, copy, reaper, switch, plan, due, clashed, events>>

(* extend_profile: sets the expiry and makes the profile active, unless it was
   deleted meanwhile. *)
ExtendProfile(r) ==
  /\ renewal[r].pc = "extend"
  /\ IF row.status = "deleted"
       THEN UNCHANGED <<row, copy>>
       ELSE WriteRow(NodeOf[r], [status |-> "active", expires |-> renewal[r].new])
  /\ due' = Max({due, renewal[r].since}) + Period[r]
  /\ SetRenewal(r, Ended("done"))
  /\ UNCHANGED <<clock, client, reaper, switch, plan, clashed, events>>

(* set_profile_enabled at n: read row and client, then write the client back
   with the expiry it had. The row does not change. *)
StartSwitch(n, on) ==
  /\ events < MaxEvents
  /\ switch.at = "idle"
  /\ ReadRow(n)
  /\ RowAt(n).status \notin {"none", "deleted"}
  /\ client[n].present
  /\ switch' = [at |-> "write", node |-> n, on |-> on,
                expires |-> IF client[n].expires > 0 THEN client[n].expires
                            ELSE RowAt(n).expires]
  /\ events' = events + 1
  /\ clashed' = (clashed \/ Working)
  /\ UNCHANGED <<clock, row, client, renewal, reaper, plan, due>>

WriteSwitch ==
  /\ switch.at = "write"
  /\ client' = IF client[switch.node].present
       THEN [client EXCEPT ![switch.node].on = switch.on,
                           ![switch.node].expires = switch.expires]
       ELSE client
  /\ switch' = Idle
  /\ UNCHANGED <<clock, row, copy, renewal, reaper, plan, due, clashed, events>>

(* reap_expired_subscriptions on the node with the lease: the rows first, then
   that node's own clients by their own expiry and the same time. *)
ReapRows(n) ==
  /\ reaper.at = "idle"
  /\ \/ row.status = "active" /\ row.expires > 0 /\ row.expires <= clock
     \/ client[n].on /\ client[n].expires <= clock
  /\ IF row.status = "active" /\ row.expires > 0 /\ row.expires <= clock
       THEN WriteRow(n, [row EXCEPT !.status = "expired"])
       ELSE UNCHANGED <<row, copy>>
  /\ reaper' = [at |-> "disable", node |-> n, now |-> clock]
  /\ UNCHANGED <<clock, client, renewal, switch, plan, due, clashed, events>>

ReapClients ==
  /\ reaper.at = "disable"
  /\ LET n == reaper.node IN
     client' = IF client[n].on /\ client[n].expires > 0 /\ client[n].expires <= reaper.now
       THEN [client EXCEPT ![n].on = FALSE]
       ELSE client
  /\ reaper' = Idle
  /\ UNCHANGED <<clock, row, copy, renewal, switch, plan, due, clashed, events>>

(* revoke_profile_access for a refund handled at n: the row becomes expired,
   its expires_at stays; the node's client is disabled. *)
Revoke(n) ==
  /\ events < MaxEvents
  /\ events' = events + 1
  /\ IF row.status = "active"
       THEN WriteRow(n, [row EXCEPT !.status = "expired"])
       ELSE UNCHANGED <<row, copy>>
  /\ client' = IF client[n].present
       THEN [client EXCEPT ![n].on = FALSE, ![n].expires = 1]
       ELSE client
  /\ due' = 0
  /\ UNCHANGED <<clock, renewal, reaper, switch, plan, clashed>>

(* _renewal_target and _latest_renewable_profile_for_user at n: a profile with
   no client in this node's x-ui is marked deleted. *)
VisitCabinet(n) ==
  /\ events < MaxEvents
  /\ events' = events + 1
  /\ RowAt(n).status \notin {"none", "deleted"}
  /\ ~client[n].present
  /\ IF row.status # "deleted"
       THEN WriteRow(n, [row EXCEPT !.status = "deleted"])
       ELSE ReadRow(n) /\ UNCHANGED row
  /\ UNCHANGED <<clock, client, renewal, reaper, switch, plan, due, clashed>>
-----------------------------------------------------------------------------
(* Faulty variant of the next definition: clients of expired profiles are left
   as they are. *)
_WantedSkipsExpired(r) ==
  IF r.status = "deleted" THEN [do |-> "purge"]
  ELSE IF r.status # "active" THEN NoPlan
  ELSE [do |-> "set", on |-> r.expires > clock, expires |-> r.expires]

(* What a reconciler wants for a row: no client for a deleted profile, else
   one that is on while the profile is active and not past its time. *)
Wanted(r) ==
  IF r.status = "none" THEN NoPlan
  ELSE IF r.status = "deleted" THEN [do |-> "purge"]
  ELSE [do |-> "set", on |-> r.status = "active" /\ r.expires > clock, expires |-> r.expires]

Served(n) == [do |-> "set", on |-> client[n].on, expires |-> client[n].expires]

(* Nothing to change: no client to purge, or none wanted that is not there. *)
Aligned(n, want) ==
  \/ want.do = "nothing"
  \/ want.do = "purge" /\ ~client[n].present
  \/ want.do = "set" /\ client[n].present /\ Served(n) = want
  \/ want.do = "set" /\ ~client[n].present /\ ~want.on

(* reconcile_once at n, up to its first call of the panel: the rows of the
   replica, the clients and the time are read. An empty replica stops it. *)
LoadProfiles(n) ==
  /\ plan[n] = NoPlan
  /\ ~Aligned(n, Wanted(copy[n]))
  /\ plan' = [plan EXCEPT ![n] = Wanted(copy[n])]
  /\ UNCHANGED <<clock, row, copy, client, renewal, reaper, switch, due, clashed, events>>

(* The panel calls and the alignment of x-ui's tables; a panel call fails
   without undoing anything, and the pass repeats. *)
ApplyPlan(n) ==
  /\ plan[n] # NoPlan
  /\ client' = CASE plan[n].do = "purge" -> [client EXCEPT ![n] = NoClient]
                 [] plan[n].do = "set" /\ (client[n].present \/ plan[n].on) ->
                      [client EXCEPT ![n] = [present |-> TRUE, on |-> plan[n].on,
                                             expires |-> plan[n].expires]]
                 [] OTHER -> client
  /\ plan' = [plan EXCEPT ![n] = NoPlan]
  /\ UNCHANGED <<clock, row, copy, renewal, reaper, switch, due, clashed, events>>

RenewalStep(r) == ReadProfile(r) \/ ReadClient(r) \/ WriteClient(r) \/ ExtendProfile(r)
NodeStep(n) == SyncCopy(n) \/ LoadProfiles(n) \/ ApplyPlan(n)

AccessNext ==
  \/ Tick
  \/ \E r \in RenewalRun : RenewalStep(r)
  \/ \E n \in Node, on \in BOOLEAN : StartSwitch(n, on)
  \/ WriteSwitch
  \/ \E n \in Node : ReapRows(n) \/ Revoke(n) \/ VisitCabinet(n) \/ NodeStep(n)
  \/ ReapClients

(* Replicas keep synchronising, reconcilers keep passing; a call under way
   ends. The reaper is not needed for access to end. *)
AccessFairness ==
  /\ \A n \in Node :
       /\ WF_accessVars(SyncCopy(n))
       /\ WF_accessVars(LoadProfiles(n))
       /\ WF_accessVars(ApplyPlan(n))
  /\ \A r \in RenewalRun : WF_accessVars(RenewalStep(r))
  /\ WF_accessVars(WriteSwitch)

AccessSpec == AccessInit /\ [][AccessNext]_accessVars /\ AccessFairness
-----------------------------------------------------------------------------
(* Paid time is never lost: unless two writers worked at once or from values
   another node had not passed on, the row of a profile that was not deleted
   expires no earlier than everything paid since the last refund adds up to -
   whatever the reaper, the switch, the reconcilers and failed attempts that
   left the client extended did in between. *)
PaidTimeKept ==
  ~clashed /\ row.status # "deleted" => row.expires >= due

(* Every node comes to serve what the cloud says: once nothing writes any
   more, each node's client is on exactly while the profile is active and
   unexpired, with the row's expiry, and a deleted profile has no client. A
   reconciler that wrote a plan made from an old row, or a switch or a renewal
   that wrote an old expiry back, is put right. *)
ServesRow(n) ==
  LET live == row.status = "active" /\ row.expires > clock IN
  /\ row.status = "deleted" => ~client[n].present
  /\ live => client[n].present
  /\ client[n].present => client[n].on = live /\ client[n].expires = row.expires

AccessConverges == <>[](\A n \in Node : ServesRow(n))
=============================================================================
