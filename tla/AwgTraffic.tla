------------------------------- MODULE AwgTraffic -------------------------------
(***************************************************************************)
(* The traffic of one profile's AmneziaWG slots: the counters of the       *)
(* kernels, the daemon of each node that books what they counted, the      *)
(* quota with its monthly cycle, the soft disabling of the slots, the      *)
(* reconciliation of a node's peers with the database, and the handler     *)
(* that moves a slot to another country.                                   *)
(***************************************************************************)
EXTENDS Integers, FiniteSetsExt

CONSTANTS
  Node,         \* nodes with an AmneziaWG interface
  Row,          \* rows of awg_slots: <<slot_index, server_code>>
  WebNode,      \* nodes whose web process serves the customer
  Busy,         \* nodes where other customers have enabled slots
  Others,       \* how many peers of theirs a busy node has
  Quota,        \* awg_quota_bytes
  MaxBytes,     \* bound on the bytes moved
  MaxAwgEvents  \* bound on months begun, restarts, crashes, failed calls of awg, changes of
                \* country, and mass expiries of the other customers' slots

ASSUME AwgAssumption ==
  /\ IsFiniteSet(Node) /\ IsFiniteSet(Row)
  /\ Row \subseteq ((Nat \ {0}) \X Node)
  /\ WebNode \subseteq Node
  /\ Busy \subseteq Node
  /\ Quota \in Nat \ {0} /\ Others \in Nat
  /\ MaxBytes \in Nat /\ MaxAwgEvents \in Nat

VARIABLES
  enabled,    \* rows with enabled = 1
  conf,       \* rows whose peer is in awg0.conf of its node
  kernel,     \* rows whose peer is in the kernel of its node
  counter,    \* transfer counter of each peer in the kernel
  seen,       \* awg_last_counters.json of each node; -1: the peer is not in it
  used,       \* profiles.awg_used_bytes
  cycleSum,   \* bytes in awg_traffic_ledger collected since the cycle began
  resetDue,   \* awg_reset_at has passed
  daemon,     \* the pass of each node's daemon
  sums,       \* the ledger sum a daemon has read
  delta,      \* the deltas a daemon has collected
  tardy,      \* nodes whose deltas were collected before the cycle began
  toDisable,  \* rows a daemon is going to disable
  removing,   \* rows it has disabled and not yet removed from the kernel
  switch,     \* the running change of country
  moved,      \* bytes moved so far
  booked,     \* bytes in the whole ledger
  bookedBefore, \* the same when the cycle began
  awgEvents   \* which of the bounded events have happened, each at most once

awgVars == <<enabled, conf, kernel, counter, seen, used, cycleSum, resetDue, daemon, sums,
             delta, tardy, toDisable, removing, switch, moved, booked, bookedBefore, awgEvents>>
peerVars == <<conf, kernel, counter>>
ledgerVars == <<used, cycleSum, resetDue, booked, bookedBefore>>
passVars == <<sums, delta, tardy, toDisable, removing>>

At(n) == {r \in Row : r[2] = n}
AwgEvent == {"cycle", "restart", "crash", "switch", "awg", "others"}
NoSwitch == [from |-> <<>>, to |-> <<>>, host |-> "", stage |-> "none"]

AwgTypeOK ==
  /\ enabled \subseteq Row /\ conf \subseteq Row /\ kernel \subseteq Row
  /\ counter \in [Row -> 0..MaxBytes]
  /\ seen \in [Row -> -1..MaxBytes]
  /\ used \in 0..MaxBytes /\ cycleSum \in 0..MaxBytes
  /\ resetDue \in BOOLEAN
  /\ daemon \in [Node -> {"cycle", "newCycle", "reconcile", "collect", "record", "recheck",
                          "renewed", "evaluate", "disable", "remove"}]
  /\ sums \in [Node -> 0..MaxBytes] /\ delta \in [Node -> 0..MaxBytes] /\ tardy \subseteq Node
  /\ toDisable \in [Node -> SUBSET Row] /\ removing \in [Node -> SUBSET Row]
  /\ switch.stage \in {"none", "checked", "added", "moved"}
  /\ moved \in 0..MaxBytes /\ booked \in 0..MaxBytes /\ bookedBefore \in 0..MaxBytes
  /\ awgEvents \subseteq AwgEvent /\ Cardinality(awgEvents) <= MaxAwgEvents

AwgInit ==
  /\ \E r \in Row : enabled = {q \in Row : q = r \/ q[1] # r[1]}
  /\ conf = enabled /\ kernel = enabled
  /\ counter = [r \in Row |-> 0]
  /\ seen = [r \in Row |-> -1]
  /\ used = 0 /\ cycleSum = 0 /\ resetDue = FALSE
  /\ daemon = [n \in Node |-> "cycle"]
  /\ sums = [n \in Node |-> 0] /\ delta = [n \in Node |-> 0] /\ tardy = {}
  /\ toDisable = [n \in Node |-> {}] /\ removing = [n \in Node |-> {}]
  /\ switch = NoSwitch
  /\ moved = 0 /\ booked = 0 /\ bookedBefore = 0
  /\ awgEvents = {}

Advance(n, s) == daemon' = [daemon EXCEPT ![n] = s]
Count(e) ==
  /\ e \notin awgEvents
  /\ Cardinality(awgEvents) < MaxAwgEvents
  /\ awgEvents' = awgEvents \cup {e}

(* Peers that enter a kernel start at zero, those that stay keep their counter. *)
SetKernel(peers) ==
  /\ kernel' = peers
  /\ counter' = [r \in Row |-> IF r \in kernel \cap peers THEN counter[r] ELSE 0]

(* master_node_lock: a file of the host, so that it keeps the daemon of the
   host apart from the request, and no other one. *)
NodeFree(n) == ~(switch.stage \in {"added", "moved"} /\ switch.host = n)
-----------------------------------------------------------------------------
(* The customer moves a unit of data over a peer. *)
MoveData(r) ==
  /\ r \in kernel
  /\ moved < MaxBytes
  /\ counter' = [counter EXCEPT ![r] = @ + 1]
  /\ moved' = moved + 1
  /\ UNCHANGED <<enabled, conf, kernel, seen, ledgerVars, daemon, passVars, switch, awgEvents>>

(* The interface comes up again from awg0.conf, with its counters at 0. *)
RestartInterface(n) ==
  /\ Count("restart")
  /\ kernel' = (kernel \ At(n)) \cup (conf \cap At(n))
  /\ counter' = [r \in Row |-> IF r \in At(n) THEN 0 ELSE counter[r]]
  /\ UNCHANGED <<enabled, conf, seen, ledgerVars, daemon, passVars, switch, moved>>

(* A month of the profile begins: nothing of the ledger falls into it yet, nor
   will what a daemon has collected and not yet booked: the rows carry the time
   of the collection, and the sum of a month selects by it. *)
BeginCycle ==
  /\ Count("cycle")
  /\ resetDue' = TRUE
  /\ cycleSum' = 0
  /\ tardy' = {n \in Node : daemon[n] = "record"}
  /\ bookedBefore' = booked
  /\ UNCHANGED <<enabled, peerVars, seen, used, daemon, sums, delta, toDisable, removing, switch, moved,
                 booked>>

(* Many slots of other customers are disabled while their peers stay. *)
OthersExpire ==
  /\ Count("others")
  /\ UNCHANGED <<enabled, peerVars, seen, ledgerVars, daemon, passVars, switch, moved>>

(* The daemon dies and starts over; the file of the counters survives. *)
CrashDaemon(n) ==
  /\ Count("crash")
  /\ daemon[n] # "cycle"
  /\ Advance(n, "cycle")
  /\ sums' = [sums EXCEPT ![n] = 0]
  /\ delta' = [delta EXCEPT ![n] = 0]
  /\ tardy' = tardy \ {n}
  /\ toDisable' = [toDisable EXCEPT ![n] = {}]
  /\ removing' = [removing EXCEPT ![n] = {}]
  /\ UNCHANGED <<enabled, peerVars, seen, ledgerVars, switch, moved>>
-----------------------------------------------------------------------------
(* ensure_awg_cycle_up_to_date, called first in every pass and again by
   evaluate_profile_quota: the row and the sum of the ledger are read ... *)
ReadCycle(n) ==
  /\ daemon[n] \in {"cycle", "recheck"}
  /\ IF resetDue
       THEN /\ sums' = [sums EXCEPT ![n] = cycleSum]
            /\ Advance(n, IF daemon[n] = "cycle" THEN "newCycle" ELSE "renewed")
       ELSE /\ Advance(n, IF daemon[n] = "cycle" THEN "reconcile" ELSE "evaluate")
            /\ UNCHANGED sums
  /\ UNCHANGED <<enabled, peerVars, seen, ledgerVars, delta, tardy, toDisable, removing, switch, moved, awgEvents>>

(* Faulty variant of the next definition: the counter goes on. *)
_WriteCycleKeepsUsed(n) ==
  /\ daemon[n] \in {"newCycle", "renewed"}
  /\ resetDue' = FALSE
  /\ enabled' = IF used < Quota THEN Row ELSE enabled
  /\ sums' = [sums EXCEPT ![n] = 0]
  /\ Advance(n, IF daemon[n] = "newCycle" THEN "reconcile" ELSE "evaluate")
  /\ UNCHANGED <<peerVars, seen, used, cycleSum, booked, bookedBefore, delta, tardy, toDisable, removing, switch,
                 moved, awgEvents>>
(* ... and later written; every row of the profile is enabled again. *)
WriteCycle(n) ==
  /\ daemon[n] \in {"newCycle", "renewed"}
  /\ used' = sums[n]
  /\ resetDue' = FALSE
  /\ enabled' = IF sums[n] < Quota THEN Row ELSE enabled
  /\ sums' = [sums EXCEPT ![n] = 0]
  /\ Advance(n, IF daemon[n] = "newCycle" THEN "reconcile" ELSE "evaluate")
  /\ UNCHANGED <<peerVars, seen, cycleSum, booked, bookedBefore, delta, tardy, toDisable, removing, switch, moved,
                 awgEvents>>

(* The circuit breaker against mass deletions: more than ten peers of the node,
   or more than three and 30 %, would go. *)
TooManyGo(n) ==
  LET going == Cardinality((conf \ enabled) \cap At(n))
      all == Cardinality(conf \cap At(n)) + (IF n \in Busy THEN Others ELSE 0)
  IN \/ n \in Busy /\ "others" \in awgEvents
     \/ going > 10
     \/ going > 3 /\ 10 * going > 3 * all

(* reconcile_awg_peers: gives up when no slot of the node is enabled or the
   circuit breaker trips, which the daemon passes over, and does nothing when
   the file has what it should; syncconf may fail after the file was replaced. *)
ReconcilePeers(n) ==
  /\ daemon[n] = "reconcile"
  /\ NodeFree(n)
  /\ Advance(n, "collect")
  /\ \/ /\ n \in Busy \/ enabled \cap At(n) # {}
        /\ ~TooManyGo(n)
        /\ conf \cap At(n) # enabled \cap At(n)
        /\ conf' = (conf \ At(n)) \cup (enabled \cap At(n))
        /\ \/ SetKernel((kernel \ At(n)) \cup (enabled \cap At(n))) /\ UNCHANGED awgEvents
           \/ Count("awg") /\ UNCHANGED <<kernel, counter>>
     \/ /\ \/ n \notin Busy /\ enabled \cap At(n) = {}
           \/ TooManyGo(n)
           \/ conf \cap At(n) = enabled \cap At(n)
        /\ UNCHANGED <<peerVars, awgEvents>>
  /\ UNCHANGED <<enabled, seen, ledgerVars, passVars, switch, moved>>

(* calculate_monotonic_deltas for each peer: a counter below the last one seen
   has been reset. *)
DeltaOf ==
  [r \in Row |-> IF seen[r] >= 0 /\ counter[r] >= seen[r] THEN counter[r] - seen[r] ELSE counter[r]]

Peers(n) == kernel \cap At(n)

(* collect_node_deltas: the file of the counters is saved before the deltas
   are booked, so that a crash loses them rather than booking them twice. *)
Collect(n) ==
  /\ daemon[n] = "collect"
  /\ seen' = [r \in Row |-> IF r \in Peers(n) THEN counter[r] ELSE seen[r]]
  /\ delta' = [delta EXCEPT ![n] = SumFunctionOnSet(DeltaOf, Peers(n))]
  /\ Advance(n, IF delta'[n] = 0 THEN "cycle" ELSE "record")
  /\ UNCHANGED <<enabled, peerVars, ledgerVars, sums, tardy, toDisable, removing, switch, moved, awgEvents>>

(* record_awg_traffic_deltas: the rows and the increment in one transaction.
   The counter takes every delta, the sum of the month only its own. *)
Record(n) ==
  /\ daemon[n] = "record"
  /\ used' = used + delta[n]
  /\ cycleSum' = IF n \in tardy THEN cycleSum ELSE cycleSum + delta[n]
  /\ tardy' = tardy \ {n}
  /\ booked' = booked + delta[n]
  /\ delta' = [delta EXCEPT ![n] = 0]
  /\ Advance(n, "recheck")
  /\ UNCHANGED <<enabled, peerVars, seen, resetDue, bookedBefore, sums, toDisable, removing,
                 switch, moved, awgEvents>>

(* list_awg_slots: one row of each index, an enabled one first. *)
Listings ==
  {L \in SUBSET Row :
     \A i \in {r[1] : r \in Row} :
       /\ Cardinality({r \in L : r[1] = i}) = 1
       /\ \A r \in L : r[1] = i /\ r \notin enabled => \A q \in enabled : q[1] # i}

(* Faulty variant of the next definition: only the pass that reaches the limit
   disables. *)
_EvaluateAtLimit(n) ==
  /\ daemon[n] = "evaluate"
  /\ \E L \in Listings :
       toDisable' = [toDisable EXCEPT ![n] = IF used = Quota THEN L \cap enabled ELSE {}]
  /\ Advance(n, IF toDisable'[n] = {} THEN "cycle" ELSE "disable")
  /\ UNCHANGED <<enabled, peerVars, seen, ledgerVars, sums, delta, tardy, removing, switch, moved, awgEvents>>
(* evaluate_profile_quota and the start of enforce_quota_soft_disable. *)
Evaluate(n) ==
  /\ daemon[n] = "evaluate"
  /\ \E L \in Listings :
       toDisable' = [toDisable EXCEPT ![n] = IF used >= Quota THEN L \cap enabled ELSE {}]
  /\ Advance(n, IF toDisable'[n] = {} THEN "cycle" ELSE "disable")
  /\ UNCHANGED <<enabled, peerVars, seen, ledgerVars, sums, delta, tardy, removing, switch, moved, awgEvents>>

(* enforce_quota_soft_disable, one row after the other: the row first ... *)
DisableRow(n, r) ==
  /\ daemon[n] = "disable"
  /\ r \in toDisable[n]
  /\ enabled' = enabled \ {r}
  /\ toDisable' = [toDisable EXCEPT ![n] = @ \ {r}]
  /\ removing' = [removing EXCEPT ![n] = {r}]
  /\ Advance(n, "remove")
  /\ UNCHANGED <<peerVars, seen, ledgerVars, sums, delta, tardy, switch, moved, awgEvents>>

(* remove_slot_peer: the kernel first, then the file; either error is logged. *)
RemoveSlotPeer(rows) ==
  \/ SetKernel(kernel \ rows) /\ conf' = conf \ rows /\ UNCHANGED awgEvents
  \/ Count("awg") /\ SetKernel(kernel \ rows) /\ UNCHANGED conf
  \/ Count("awg") /\ conf' = conf \ rows /\ UNCHANGED <<kernel, counter>>

(* ... then its peer, if it is on this node. *)
RemovePeer(n) ==
  /\ daemon[n] = "remove"
  /\ NodeFree(n)
  /\ RemoveSlotPeer(removing[n] \cap At(n))
  /\ removing' = [removing EXCEPT ![n] = {}]
  /\ Advance(n, IF toDisable[n] = {} THEN "cycle" ELSE "disable")
  /\ UNCHANGED <<enabled, seen, ledgerVars, sums, delta, tardy, toDisable, switch, moved>>
-----------------------------------------------------------------------------
(* switch_awg_slot_country in the web process of node `host': the profile has
   quota left, the current row is an enabled one if there is one. *)
CheckSwitch(from, to, host) ==
  /\ switch = NoSwitch
  /\ Count("switch")
  /\ ~resetDue /\ used < Quota
  /\ from[1] = to[1] /\ from # to
  /\ from \in enabled \/ \A r \in enabled : r[1] # from[1]
  /\ switch' = [from |-> from, to |-> to, host |-> host, stage |-> "checked"]
  /\ UNCHANGED <<enabled, peerVars, seen, ledgerVars, daemon, passVars, moved>>

(* Under the locks of both nodes: the new peer is added, or the switch fails ... *)
AddTarget ==
  /\ switch.stage = "checked"
  /\ \/ /\ SetKernel(kernel \cup {switch.to})
        /\ \/ conf' = conf \cup {switch.to} /\ UNCHANGED awgEvents
           \/ Count("awg") /\ UNCHANGED conf
        /\ switch' = [switch EXCEPT !.stage = "added"]
     \/ /\ switch' = NoSwitch
        /\ UNCHANGED <<peerVars, awgEvents>>
  /\ UNCHANGED <<enabled, seen, ledgerVars, daemon, passVars, moved>>

(* ... the old one removed ... *)
RemoveCurrent ==
  /\ switch.stage = "added"
  /\ RemoveSlotPeer({switch.from})
  /\ switch' = [switch EXCEPT !.stage = "moved"]
  /\ UNCHANGED <<enabled, seen, ledgerVars, daemon, passVars, moved>>

(* ... and the flags set in one transaction. *)
SwitchRow ==
  /\ switch.stage = "moved"
  /\ enabled' = {r \in enabled : r[1] # switch.to[1]} \cup {switch.to}
  /\ switch' = NoSwitch
  /\ UNCHANGED <<peerVars, seen, ledgerVars, daemon, passVars, moved, awgEvents>>

(* The web process dies: the locks of the operating system are free again. *)
CrashSwitch ==
  /\ switch # NoSwitch
  /\ Count("crash")
  /\ switch' = NoSwitch
  /\ UNCHANGED <<enabled, peerVars, seen, ledgerVars, daemon, passVars, moved>>

DaemonStep(n) ==
  \/ ReadCycle(n) \/ WriteCycle(n) \/ ReconcilePeers(n) \/ Collect(n) \/ Record(n)
  \/ Evaluate(n) \/ RemovePeer(n)
  \/ \E r \in Row : DisableRow(n, r)

SwitchStep == AddTarget \/ RemoveCurrent \/ SwitchRow

AwgNext ==
  \/ \E n \in Node : DaemonStep(n) \/ CrashDaemon(n) \/ RestartInterface(n)
  \/ \E r \in Row : MoveData(r)
  \/ BeginCycle \/ OthersExpire
  \/ \E from, to \in Row, host \in WebNode : CheckSwitch(from, to, host)
  \/ SwitchStep
  \/ CrashSwitch

(* The daemons pass every minute and a running request goes on; customers,
   months, restarts and crashes come at will. *)
AwgFairness == WF_awgVars(SwitchStep) /\ \A n \in Node : WF_awgVars(DaemonStep(n))

AwgSpec == AwgInit /\ [][AwgNext]_awgVars /\ AwgFairness
-----------------------------------------------------------------------------
(* Nobody is charged for what he did not move: whatever restarts, crashes,
   removals and returns of peers come between two measurements, no byte is
   booked twice, and once a month has begun and been reset the counter holds no
   more than what was booked since it began: nothing that was booked before, by
   however many daemons the reset was read and written. What a daemon collected
   before the boundary and books after it is charged to the new month by the
   counter, though not by the ledger's sum: it is part of the bound. The clocks
   of the nodes are taken to agree on when the month begins. *)
NeverOvercharged ==
  /\ booked + SumFunctionOnSet(delta, Node) <= moved
  /\ ~resetDue => used <= booked - bookedBefore

(* A peer that moves data although the quota is used up leaves the kernel,
   whatever change of country raced the measurement that disabled the slots.
   Not counted: what moves during that change, what a crash, a failed call or a
   restart of the interface keeps from being measured or removed, a month that
   has begun, after which both countries of a slot may be enabled, and a node
   whose circuit breaker trips. *)
ExhaustedPeerGoes ==
  \A r \in Row : r[2] \in Busy =>
    ((used >= Quota /\ r \in kernel /\ DeltaOf[r] > 0 /\ switch = NoSwitch)
       ~> (r \notin kernel \/ used < Quota \/ TooManyGo(r[2])
            \/ awgEvents \cap {"crash", "restart", "cycle", "awg"} # {}))

=============================================================================
