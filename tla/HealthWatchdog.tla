---------------------------- MODULE HealthWatchdog ----------------------------
(***************************************************************************)
(* cluster_watchdog.py: the daemons of which one at a time inspects the    *)
(* nodes and saves what it found to the health cache, and the answer that  *)
(* /api/internal/cluster/health gives from that cache.                     *)
(*                                                                         *)
(* An inspection (reading the AmneziaWG server's configuration over ssh)   *)
(* succeeds while the node is up. Times are ages, counted up to where the  *)
(* code no longer tells them apart, so that there is no bound on the clock *)
(* and none on the faults.                                                 *)
(***************************************************************************)
EXTENDS Naturals, Sequences

CONSTANTS
  Dog,            \* the watchdog daemons
  Once,           \* an administrator's `cluster_watchdog --once'
  NoDog,          \* nobody: the leader lock is free
  Watched,        \* the nodes in the order in which a cycle inspects them
  MaxStale,       \* MAX_STALE_SECONDS
  CheckInterval,  \* seconds between two cycles, or two tries of a follower
  MaxCycle        \* bound on the time that one cycle takes

WatchedNode == {Watched[i] : i \in DOMAIN Watched}

ASSUME WatchAssumption ==
  /\ Watched \in Seq(WatchedNode)
  /\ NoDog \notin Dog \cup {Once} /\ Once \notin Dog
  /\ {MaxStale, CheckInterval, MaxCycle} \subseteq Nat

VARIABLES
  up,           \* the nodes that can be inspected now
  sinceUp,      \* seconds since some node was up
  leaderLock,   \* the process that holds the flock
  dog,          \* what each process does
  healthCache   \* the cache file: "ok" and the age of the last success

watchVars == <<up, sinceUp, leaderLock, dog, healthCache>>

Process == Dog \cup {Once}
TooOld == MaxStale + 1
Forgotten == MaxStale + MaxCycle + 1

(* A process outside a cycle; `wait' is what it has yet to sleep. *)
Outside(at, wait) == [at |-> at, wait |-> wait, prev |-> TooOld, left |-> <<>>, healthy |-> FALSE]

WatchTypeOK ==
  /\ up \subseteq WatchedNode
  /\ sinceUp \in 0..Forgotten
  /\ leaderLock \in Dog \cup {NoDog}
  /\ dog \in [Process -> [at : {"off", "ready", "inspecting", "sleeping"}, wait : Nat,
                          prev : 0..TooOld, left : Seq(WatchedNode), healthy : BOOLEAN]]
  /\ healthCache \in [ok : BOOLEAN, age : 0..TooOld]

(* There is no cache file, which is as good as one without a success. *)
WatchInit ==
  /\ up = WatchedNode
  /\ sinceUp = 0
  /\ leaderLock = NoDog
  /\ dog = [p \in Process |-> Outside("off", 0)]
  /\ healthCache = [ok |-> FALSE, age |-> TooOld]

StartDog(p) ==
  /\ dog[p].at = "off"
  /\ dog' = [dog EXCEPT ![p] = Outside("ready", 0)]
  /\ UNCHANGED <<up, sinceUp, leaderLock, healthCache>>

(* A daemon that is not the leader tries the lock, without blocking; a
   follower tries again after the interval. *)
TryLeaderLock(p) ==
  /\ p \in Dog /\ dog[p].at = "ready" /\ leaderLock # p
  /\ \/ leaderLock = NoDog /\ leaderLock' = p /\ UNCHANGED dog
     \/ /\ leaderLock # NoDog
        /\ dog' = [dog EXCEPT ![p] = Outside("sleeping", CheckInterval)]
        /\ UNCHANGED leaderLock
  /\ UNCHANGED <<up, sinceUp, healthCache>>

(* A cycle begins by reading the time of the last success from the cache;
   --once runs one without the lock. *)
BeginCycle(p) ==
  /\ dog[p].at = "ready" /\ (leaderLock = p \/ p = Once)
  /\ dog' = [dog EXCEPT ![p] =
       [at |-> "inspecting", wait |-> MaxCycle, prev |-> healthCache.age,
        left |-> Watched, healthy |-> FALSE]]
  /\ UNCHANGED <<up, sinceUp, leaderLock, healthCache>>

CheckNodeHealth(p) ==
  /\ dog[p].at = "inspecting" /\ dog[p].left # <<>>
  /\ dog' = [dog EXCEPT ![p].left = Tail(@), ![p].healthy = @ \/ Head(dog[p].left) \in up]
  /\ UNCHANGED <<up, sinceUp, leaderLock, healthCache>>

(* What a finished cycle saves: the time of the last success moves only when
   some node was healthy. *)
CycleResult(p) == [ok |-> dog[p].healthy, age |-> IF dog[p].healthy THEN 0 ELSE dog[p].prev]

(* The cache is replaced in one step or, when the write fails, not at all;
   the daemon then sleeps, --once ends. *)
SaveHealthCache(p) ==
  /\ dog[p].at = "inspecting" /\ dog[p].left = <<>>
  /\ healthCache' \in {CycleResult(p), healthCache}
  /\ dog' = [dog EXCEPT ![p] =
       IF p = Once THEN Outside("off", 0) ELSE Outside("sleeping", CheckInterval)]
  /\ UNCHANGED <<up, sinceUp, leaderLock>>

WakeUp(p) ==
  /\ dog[p].at = "sleeping" /\ dog[p].wait = 0
  /\ dog' = [dog EXCEPT ![p] = Outside("ready", 0)]
  /\ UNCHANGED <<up, sinceUp, leaderLock, healthCache>>

(* A process dies; the kernel drops its lock. *)
CrashDog(p) ==
  /\ dog[p].at # "off"
  /\ dog' = [dog EXCEPT ![p] = Outside("off", 0)]
  /\ leaderLock' = IF leaderLock = p THEN NoDog ELSE leaderLock
  /\ UNCHANGED <<up, sinceUp, healthCache>>

ToggleNode(n) ==
  /\ up' = IF n \in up THEN up \ {n} ELSE up \cup {n}
  /\ sinceUp' = 0
  /\ UNCHANGED <<leaderLock, dog, healthCache>>

Older(age, most) == IF age < most THEN age + 1 ELSE most

(* Time passes; an inspection that hangs is cut by its timeout. *)
PassSecond ==
  /\ \A p \in Process : dog[p].at = "inspecting" => dog[p].wait > 0
  /\ dog' = [p \in Process |->
       [dog[p] EXCEPT !.wait = IF @ > 0 THEN @ - 1 ELSE 0, !.prev = Older(@, TooOld)]]
  /\ healthCache' = [healthCache EXCEPT !.age = Older(@, TooOld)]
  /\ sinceUp' = IF up = {} THEN Older(sinceUp, Forgotten) ELSE 0
  /\ UNCHANGED <<up, leaderLock>>

WatchNext ==
  \/ \E p \in Process :
       \/ StartDog(p) \/ TryLeaderLock(p) \/ BeginCycle(p) \/ CheckNodeHealth(p)
       \/ SaveHealthCache(p) \/ WakeUp(p) \/ CrashDog(p)
  \/ \E n \in WatchedNode : ToggleNode(n)
  \/ PassSecond

WatchSpec == WatchInit /\ [][WatchNext]_watchVars

-----------------------------------------------------------------------------
(* A faulty variant of the next definition: the age is not looked at. *)
_Fresh == healthCache.ok

(* The answer of get_health_status at this moment is 200, not 503. *)
Fresh == healthCache.ok /\ healthCache.age <= MaxStale

(* The endpoint fails closed: whichever daemons die, whoever else runs a
   cycle of his own and whichever writes of the cache fail, it answers 200
   only if some node was up within MAX_STALE_SECONDS and one cycle. *)
HealthFailsClosed == Fresh => sinceUp <= MaxStale + MaxCycle
=============================================================================
