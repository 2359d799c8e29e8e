------------------------------ MODULE BridgeGate ------------------------------
(***************************************************************************)
(* POST /api/bridge: a front end outside of the cluster asks a node, in    *)
(* signed requests, to create or renew profiles. A request names the time  *)
(* it was signed at; a node takes it while that is within a window of its  *)
(* own clock and remembers it, in memory, for twice the window. The        *)
(* network delivers a request as often and as late as it likes, to any     *)
(* node; nodes restart.                                                    *)
(*                                                                         *)
(* Only what changes profiles is modelled (provision_profile,              *)
(* renew_profile): it is tried once through the store and, if that fails,  *)
(* once more without it. The other requests read, or set what they name.   *)
(***************************************************************************)
EXTENDS Integers, FiniteSets

CONSTANTS
  BridgeRequest, \* requests that may be signed
  BridgeNode,    \* nodes that answer them
  NotSeen,       \* a request that a node does not remember
  Window,        \* MAX_CLOCK_SKEW_SECONDS
  MaxTime,       \* bound on the clock
  MaxRestarts    \* bound on the restarts of all nodes together

ASSUME BridgeAssumption ==
  Window \in Nat /\ MaxTime \in Nat /\ MaxRestarts \in Nat /\ NotSeen \notin Nat

VARIABLES
  clock,    \* the time, the same on every node
  signed,   \* the time each request was signed at, by the front end's clock
  seen,     \* _REPLAY_CACHE of each node's process
  job,      \* how many threads of a node are about to try a request for the 1st, 2nd time
  life,     \* restarts of each node so far
  heard,    \* the processes <<node, life>> that have taken a request
  effects,  \* how often a request has created or extended a profile
  late      \* first tries that failed after they had done so

bridgeVars == <<clock, signed, seen, job, life, heard, effects, late>>

Attempt == {"first", "second"}
NoJob == [n \in BridgeNode |-> [r \in BridgeRequest |-> [a \in Attempt |-> 0]]]

BridgeTypeOK ==
  /\ clock \in 0..MaxTime
  /\ signed \in [BridgeRequest -> 0..MaxTime \cup {NotSeen}]
  /\ seen \in [BridgeNode -> [BridgeRequest -> 0..MaxTime \cup {NotSeen}]]
  /\ job \in [BridgeNode -> [BridgeRequest -> [Attempt -> Nat]]]
  /\ life \in [BridgeNode -> 0..MaxRestarts]
  /\ heard \in [BridgeRequest -> SUBSET (BridgeNode \X (0..MaxRestarts))]
  /\ effects \in [BridgeRequest -> Nat] /\ late \in [BridgeRequest -> Nat]

BridgeInit ==
  /\ clock = 0
  /\ signed = [r \in BridgeRequest |-> NotSeen]
  /\ seen = [n \in BridgeNode |-> [r \in BridgeRequest |-> NotSeen]]
  /\ job = NoJob
  /\ life = [n \in BridgeNode |-> 0]
  /\ heard = [r \in BridgeRequest |-> {}]
  /\ effects = [r \in BridgeRequest |-> 0]
  /\ late = [r \in BridgeRequest |-> 0]
-----------------------------------------------------------------------------
(* sign_bridge_payload; the clock of the front end is any. *)
SignRequest(r, ts) ==
  /\ signed[r] = NotSeen
  /\ signed' = [signed EXCEPT ![r] = ts]
  /\ UNCHANGED <<clock, seen, job, life, heard, effects, late>>

Timely(r) == signed[r] # NotSeen /\ clock - signed[r] \in -Window..Window

(* Faulty variant of the next definition: a request is remembered for one
   window only. *)
_Remembered(n) == [r \in BridgeRequest |->
  IF seen[n][r] # NotSeen /\ seen[n][r] >= clock - Window THEN seen[n][r] ELSE NotSeen]
(* What is left of the cache once it has dropped what is older than two windows. *)
Remembered(n) == [r \in BridgeRequest |->
  IF seen[n][r] # NotSeen /\ seen[n][r] >= clock - 2 * Window THEN seen[n][r] ELSE NotSeen]

(* _check_and_record_replay, under its lock, and the dispatch of what it lets through *)
TakeRequest(n, r) ==
  /\ Timely(r)
  /\ Remembered(n)[r] = NotSeen
  /\ seen' = [seen EXCEPT ![n] = [Remembered(n) EXCEPT ![r] = clock]]
  /\ heard' = [heard EXCEPT ![r] = @ \cup {<<n, life[n]>>}]
  /\ job' = [job EXCEPT ![n][r]["first"] = @ + 1]
  /\ UNCHANGED <<clock, signed, life, effects, late>>

RefuseReplay(n, r) ==
  /\ Timely(r)
  /\ Remembered(n)[r] # NotSeen
  /\ seen' = [seen EXCEPT ![n] = Remembered(n)]
  /\ UNCHANGED <<clock, signed, job, life, heard, effects, late>>

Ends(n, r, a) == [job EXCEPT ![n][r][a] = @ - 1]

(* create_profile_for_order or renew_profile: it succeeds, or fails before or
   after it has reached the panel, and then the request is tried again without
   the order, or on the panel alone. *)
TryFirst(n, r) ==
  /\ job[n][r]["first"] > 0
  /\ \/ /\ job' = Ends(n, r, "first")
        /\ effects' = [effects EXCEPT ![r] = @ + 1]
        /\ UNCHANGED late
     \/ /\ job' = [Ends(n, r, "first") EXCEPT ![n][r]["second"] = @ + 1]
        /\ \/ UNCHANGED <<effects, late>>
           \/ /\ effects' = [effects EXCEPT ![r] = @ + 1]
              /\ late' = [late EXCEPT ![r] = @ + 1]
  /\ UNCHANGED <<clock, signed, seen, life, heard>>

(* _provision_profile or update_client_expiry_direct, the answer otherwise an error *)
TrySecond(n, r) ==
  /\ job[n][r]["second"] > 0
  /\ job' = Ends(n, r, "second")
  /\ \/ effects' = [effects EXCEPT ![r] = @ + 1]
     \/ UNCHANGED effects
  /\ UNCHANGED <<clock, signed, seen, life, heard, late>>

(* A new process of the node remembers nothing. *)
RestartBridge(n) ==
  /\ life[n] < MaxRestarts
  /\ life' = [life EXCEPT ![n] = @ + 1]
  /\ seen' = [seen EXCEPT ![n] = [r \in BridgeRequest |-> NotSeen]]
  /\ job' = [job EXCEPT ![n] = NoJob[n]]
  /\ UNCHANGED <<clock, signed, heard, effects, late>>

TickBridge ==
  /\ clock < MaxTime
  /\ clock' = clock + 1
  /\ UNCHANGED <<signed, seen, job, life, heard, effects, late>>

BridgeNext ==
  \/ TickBridge
  \/ \E r \in BridgeRequest, ts \in 0..MaxTime : SignRequest(r, ts)
  \/ \E n \in BridgeNode : RestartBridge(n)
  \/ \E n \in BridgeNode, r \in BridgeRequest :
       \/ TakeRequest(n, r) \/ RefuseReplay(n, r)
       \/ TryFirst(n, r) \/ TrySecond(n, r)

BridgeSpec == BridgeInit /\ [][BridgeNext]_bridgeVars
-----------------------------------------------------------------------------
(* However often and whenever a request is delivered, within the window or at
   its edges, it creates or extends a profile at most once for each process that
   takes it, and once more for a first try that failed after it had done so: no
   process forgets a request that it would still take. *)
RequestRunsOnce ==
  \A r \in BridgeRequest : effects[r] <= Cardinality(heard[r]) + late[r]
=============================================================================
