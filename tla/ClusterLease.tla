---------------------------- MODULE ClusterLease ----------------------------
(***************************************************************************)
(* The database lease that is meant to let one node of the mesh run the    *)
(* periodic maintenance: Store.try_acquire_cluster_lease and the loop of   *)
(* ShopBot.run_periodic_tasks.                                             *)
(*                                                                         *)
(* Times are relative: `left' is what real time lacks to the expires_at of *)
(* the row, so no clock grows without bound. A node reads its own clock,   *)
(* which is ahead of real time by a constant offset.                       *)
(***************************************************************************)
EXTENDS Integers

CONSTANTS
  Node,    \* the nodes that run the loop, by holder_node
  NoNode,  \* the holder before the row exists
  TTL,     \* ttl_seconds of the lease
  Skew,    \* bound on the clock offsets
  MaxTask  \* bound on the duration of one round of periodic tasks

ASSUME LeaseAssumption ==
  /\ NoNode \notin Node
  /\ TTL \in Nat
  /\ Skew \in Nat
  /\ MaxTask \in Nat

VARIABLES
  offset,  \* offset[n]: how far n's clock is ahead; never changes
  holder,  \* cluster_leases.holder_node
  left,    \* cluster_leases.expires_at minus real time, not below 0
  phase,   \* what the loop of each node does
  age      \* how long each node has been running its current round

vars == <<offset, holder, left, phase, age>>

Phase == {"idle", "running", "down"}

Init ==
  /\ offset \in [Node -> 0..Skew]
  /\ holder = NoNode
  /\ left = 0
  /\ phase = [n \in Node |-> "idle"]
  /\ age = [n \in Node |-> 0]

(* Faulty variants of the next definition: an UPSERT without its WHERE, and a
   lease that is never taken from a holder. *)
MayAcquire_NoWhere(n) == TRUE
MayAcquire_HolderOnly(n) == holder \in {n, NoNode}
(* WHERE expires_at <= now OR holder_node = this node. *)
MayAcquire(n) == left <= offset[n] \/ holder = n

(* One pass of the loop that gets the thread lock and the lease: the tasks
   run without looking at the lease again. A pass that gets only one of the
   two changes nothing. *)
StartTasks(n) ==
  /\ phase[n] = "idle"
  /\ MayAcquire(n)
  /\ holder' = n
  /\ left' = offset[n] + TTL
  /\ phase' = [phase EXCEPT ![n] = "running"]
  /\ age' = [age EXCEPT ![n] = 0]
  /\ UNCHANGED offset

(* The thread lock is released; the lease is not, it just expires. *)
FinishTasks(n) ==
  /\ phase[n] = "running"
  /\ phase' = [phase EXCEPT ![n] = "idle"]
  /\ UNCHANGED <<offset, holder, left, age>>

Crash(n) ==
  /\ phase[n] # "down"
  /\ phase' = [phase EXCEPT ![n] = "down"]
  /\ UNCHANGED <<offset, holder, left, age>>

Restart(n) ==
  /\ phase[n] = "down"
  /\ phase' = [phase EXCEPT ![n] = "idle"]
  /\ UNCHANGED <<offset, holder, left, age>>

(* One second passes. No round lasts longer than MaxTask. *)
Tick ==
  /\ \A n \in Node : phase[n] = "running" => age[n] < MaxTask
  /\ left' = IF left > 0 THEN left - 1 ELSE 0
  /\ age' = [n \in Node |-> IF phase[n] = "running" THEN age[n] + 1 ELSE age[n]]
  /\ UNCHANGED <<offset, holder, phase>>

Next ==
  \/ \E n \in Node : StartTasks(n) \/ FinishTasks(n) \/ Crash(n) \/ Restart(n)
  \/ Tick

Spec == Init /\ [][Next]_vars

(* Time passes, tasks end, and a loop that keeps running keeps trying. *)
Fairness ==
  /\ WF_vars(Tick)
  /\ \A n \in Node : WF_vars(StartTasks(n)) /\ WF_vars(FinishTasks(n))

FairSpec == Spec /\ Fairness

---------------------------------------------------------------------------
TypeOK ==
  /\ offset \in [Node -> 0..Skew]
  /\ holder \in Node \cup {NoNode}
  /\ left \in 0..(Skew + TTL)
  /\ phase \in [Node -> Phase]
  /\ age \in [Node -> 0..MaxTask]

(* ARCHITECTURE.md:595, "Only the node holding the active lease executes
   cluster maintenance routines": two nodes never run the tasks at once, in
   spite of crashes, restarts and clocks that disagree. *)
Exclusive ==
  \A m, n \in Node : phase[m] = "running" /\ phase[n] = "running" => m = n

(* The reason: as long as a node runs, the row names it and still has what the
   round has not used of the TTL, more than the clocks can differ by. *)
LeaseCovers ==
  \A n \in Node : phase[n] = "running" =>
    /\ holder = n
    /\ left = offset[n] + TTL - age[n]
    /\ left > Skew

(* The lease of a node that died does not stop the maintenance: a node that
   stays up takes the lease over. *)
TakenOver ==
  \A m \in Node :
    (/\ <>[](phase[m] = "down")
     /\ \E n \in Node : <>[](phase[n] # "down"))
    => <>[](holder # m)
=============================================================================
