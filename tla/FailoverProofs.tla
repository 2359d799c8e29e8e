---------------------------- MODULE FailoverProofs ----------------------------
(***************************************************************************)
(* Proofs about what keeps a failover safe: the lease of the periodic      *)
(* tasks, the quiesce lease of the merge, the switch of the DNS records,   *)
(* the answer of the health endpoint, the hand-over of an OpenFlux room    *)
(* and the failback merge, for any number of daemons, nodes, domains,      *)
(* rooms, writes and faults and for any lengths of the leases and cycles.  *)
(***************************************************************************)
EXTENDS ClusterLease, HealthWatchdog, QuiesceGate, DnsFailover, OpenFluxHandover,
  FailbackMerge, FiniteSetTheorems, TLAPS

-----------------------------------------------------------------------------
(* The lease of the periodic tasks. It excludes when every round of them is
   shorter than the TTL by more than the clock skew. The code states no such
   bound, see ClusterLease and lease_long_tasks.cfg. *)

(* The lease variables keep their types, whatever the bounds are. *)
THEOREM LeaseTypeCorrect == Spec => []TypeOK
<1> USE LeaseAssumption
<1>1. Init => TypeOK
  BY DEF Init, TypeOK, Phase
<1>2. TypeOK /\ [Next]_vars => TypeOK'
  <2> SUFFICES ASSUME TypeOK, [Next]_vars PROVE TypeOK'
    OBVIOUS
  <2> USE DEF TypeOK, Phase
  <2>1. ASSUME NEW n \in Node, StartTasks(n) PROVE TypeOK'
    BY <2>1 DEF StartTasks
  <2>2. ASSUME NEW n \in Node, FinishTasks(n) \/ Crash(n) \/ Restart(n) PROVE TypeOK'
    BY <2>2 DEF FinishTasks, Crash, Restart
  <2>3. CASE Tick
    BY <2>3 DEF Tick
  <2>4. CASE UNCHANGED vars
    BY <2>4 DEF vars
  <2> QED BY <2>1, <2>2, <2>3, <2>4 DEF Next
<1> QED BY <1>1, <1>2, PTL DEF Spec

(* While a node runs the tasks the row names it and outlives its round. *)
THEOREM LeaseIsCovered ==
  ASSUME MaxTask + Skew < TTL
  PROVE  Spec => []LeaseCovers
<1> USE LeaseAssumption
<1>1. Init => LeaseCovers
  BY DEF Init, LeaseCovers
<1>2. TypeOK /\ TypeOK' /\ LeaseCovers /\ [Next]_vars => LeaseCovers'
  <2> SUFFICES ASSUME TypeOK, TypeOK', LeaseCovers, [Next]_vars,
                      NEW m \in Node, phase'[m] = "running"
               PROVE  holder' = m /\ left' = offset'[m] + TTL - age'[m] /\ left' > Skew
    BY DEF LeaseCovers
  <2> USE DEF TypeOK, LeaseCovers, Phase
  <2>1. ASSUME NEW n \in Node, StartTasks(n)
        PROVE  holder' = m /\ left' = offset'[m] + TTL - age'[m] /\ left' > Skew
    <3>1. ASSUME m # n PROVE FALSE
      \* A running m would have kept n out.
      BY <2>1, <3>1 DEF StartTasks, MayAcquire
    <3> QED BY <2>1, <3>1 DEF StartTasks
  <2>2. ASSUME NEW n \in Node, FinishTasks(n) \/ Crash(n) \/ Restart(n)
        PROVE  holder' = m /\ left' = offset'[m] + TTL - age'[m] /\ left' > Skew
    BY <2>2 DEF FinishTasks, Crash, Restart
  <2>3. CASE Tick
    BY <2>3 DEF Tick
  <2>4. CASE UNCHANGED vars
    BY <2>4 DEF vars
  <2> QED BY <2>1, <2>2, <2>3, <2>4 DEF Next
<1> QED BY <1>1, <1>2, LeaseTypeCorrect, PTL DEF Spec

(* Two nodes never run the periodic tasks at once if rounds are short. *)
THEOREM LeaseExcludes ==
  ASSUME MaxTask + Skew < TTL
  PROVE  Spec => []Exclusive
<1>1. LeaseCovers => Exclusive
  BY DEF LeaseCovers, Exclusive
<1> QED BY <1>1, LeaseIsCovered, PTL

-----------------------------------------------------------------------------
(* The quiesce lease. While the flag of the running lease is up, no write
   went in since the merge's start; so a heartbeat that finds it up tells
   the truth. *)
QuietInv ==
  /\ GateTypeOK
  /\ merge = "held" /\ gate.active => ~admitted
  /\ QuietWhileAcknowledged

(* The bounds, one by one. *)
LEMMA QuiesceBounds == QuiesceTTL \in Nat /\ MaxQuiesceTime \in Nat /\ MaxGateRestarts \in Nat
BY QuiesceAssumption

(* The service starts with an open gate and no merge. *)
LEMMA QuietInit == GateInit => QuietInv
<1> SUFFICES ASSUME GateInit PROVE QuietInv
  OBVIOUS
<1>1. gate \in [active : BOOLEAN, until : 0..MaxQuiesceTime + QuiesceTTL]
  BY QuiesceBounds DEF GateInit, OpenGate
<1>2. admitted \in BOOLEAN
  BY DEF GateInit
<1>3. GateTypeOK
  BY <1>1, <1>2, QuiesceBounds DEF GateInit, GateTypeOK
<1> QED BY <1>3 DEF GateInit, QuietInv, QuietWhileAcknowledged

(* No step of the merge, of a request, of the clock or of a restart lets a
   write in under a flag that a heartbeat would still find up. *)
LEMMA QuietStep == QuietInv /\ [GateNext]_gateVars => QuietInv'
<1> SUFFICES ASSUME QuietInv, [GateNext]_gateVars PROVE QuietInv'
  OBVIOUS
<1> USE QuiesceBounds DEF QuietInv, GateTypeOK, QuietWhileAcknowledged, OpenGate, Extended
<1>1. CASE QuiesceStart
  <2>1. admitted' = FALSE /\ admitted' \in BOOLEAN
    BY <1>1 DEF QuiesceStart
  <2>2. gate' \in [active : BOOLEAN, until : 0..MaxQuiesceTime + QuiesceTTL]
    BY <1>1 DEF QuiesceStart
  <2>3. GateTypeOK'
    BY <1>1, <2>1, <2>2 DEF QuiesceStart
  <2> QED BY <1>1, <2>1, <2>3 DEF QuiesceStart
<1>2. CASE QuiesceHeartbeat
  <2>1. gate' \in [active : BOOLEAN, until : 0..MaxQuiesceTime + QuiesceTTL]
    <3>1. gate' = Extended \/ gate' = gate
      BY <1>2 DEF QuiesceHeartbeat
    <3>2. Extended \in [active : BOOLEAN, until : 0..MaxQuiesceTime + QuiesceTTL]
      OBVIOUS
    <3> QED BY <3>1, <3>2
  <2>2. lastAck' \in {"none", "quiet", "disturbed"} /\ merge' \in {"none", "held"}
    BY <1>2 DEF QuiesceHeartbeat
  <2>3. GateTypeOK'
    BY <1>2, <2>1, <2>2 DEF QuiesceHeartbeat
  <2>4. CASE gate.active
    BY <1>2, <2>3, <2>4 DEF QuiesceHeartbeat
  <2>5. CASE ~gate.active
    BY <1>2, <2>3, <2>5 DEF QuiesceHeartbeat
  <2> QED BY <2>4, <2>5
<1>3. CASE QuiesceRelease
  BY <1>3 DEF QuiesceRelease
<1>4. CASE MergeDies
  BY <1>4 DEF MergeDies
<1>5. ASSUME NEW write \in BOOLEAN, HandleRequest(write) PROVE QuietInv'
  <2>1. gate' \in {gate, OpenGate} /\ GateTypeOK'
    BY <1>5 DEF HandleRequest, AfterLook
  <2>2. ASSUME merge' = "held", gate'.active PROVE ~admitted'
    <3>1. gate.active /\ gateClock < gate.until
      BY <1>5, <2>2 DEF HandleRequest, AfterLook
    <3>2. ~admitted
      BY <1>5, <2>2, <3>1 DEF HandleRequest
    <3> QED BY <1>5, <3>1, <3>2 DEF HandleRequest
  <2> QED BY <1>5, <2>1, <2>2 DEF HandleRequest
<1>6. CASE RestartService
  BY <1>6 DEF RestartService
<1>7. CASE GateTick
  BY <1>7 DEF GateTick
<1>8. CASE UNCHANGED gateVars
  BY <1>8 DEF gateVars
<1> QED BY <1>1, <1>2, <1>3, <1>4, <1>5, <1>6, <1>7, <1>8 DEF GateNext

(* A heartbeat of the merge is acknowledged only if no write was admitted
   since its start, for any length of the lease and any number of restarts. *)
THEOREM MergeIsQuiet == GateSpec => []QuietWhileAcknowledged
<1>1. QuietInv => QuietWhileAcknowledged
  BY DEF QuietInv
<1> QED BY <1>1, QuietInit, QuietStep, PTL DEF GateSpec

-----------------------------------------------------------------------------
(* The switch of the DNS records. While it runs, a domain has its new record
   or is still to be done. *)
Moved(d) == record[d] = [ip |-> failover.ip, proxied |-> FALSE]
Waiting(d) == \E i \in DOMAIN failover.todo : failover.todo[i] = d

SwitchInv ==
  /\ DnsTypeOK
  /\ failover.at \in {"asked", "search", "update"} => failover.country \in Country
  /\ failover.at \in {"search", "update"} =>
       /\ failover.ip \in Address
       /\ \A d \in Domain : Moved(d) \/ Waiting(d)
       /\ report = "none"
  /\ failover.at = "update" => failover.todo # <<>>
  /\ MovedTogether

(* No switch has begun. *)
LEMMA SwitchInit == DnsInit => SwitchInv
BY DnsAssumption DEF DnsInit, SwitchInv, DnsTypeOK, Idle, MovedTogether

(* An accepted answer takes the domain off the list and leaves its record
   set; the records set before it stay as they are. *)
LEMMA UpdateKeepsMoved ==
  ASSUME SwitchInv, UpdateRecord PROVE SwitchInv'
<1> USE DnsAssumption DEF SwitchInv, DnsTypeOK, MovedTogether
<1> DEFINE d == Head(failover.todo)
           wanted == [ip |-> failover.ip, proxied |-> FALSE]
<1>1. failover.at = "update" /\ failover.todo # <<>> /\ failover.todo \in Seq(Domain)
  BY DEF UpdateRecord
<1>2. d \in Domain /\ d = failover.todo[1] /\ Tail(failover.todo) \in Seq(Domain)
  BY <1>1
<1>3. failover.ip \in Address /\ report = "none"
  BY <1>1
<1>4. record' \in [Domain -> [ip : Address, proxied : BOOLEAN]]
  <2>1. wanted \in [ip : Address, proxied : BOOLEAN]
    BY <1>3
  <2>2. [wanted EXCEPT !.proxied = TRUE] \in [ip : Address, proxied : BOOLEAN]
    BY <1>3
  <2>3. record' \in {[record EXCEPT ![d] = wanted],
                    [record EXCEPT ![d] = [wanted EXCEPT !.proxied = TRUE]], record}
    BY DEF UpdateRecord
  <2> QED BY <1>2, <2>1, <2>2, <2>3
<1>5. \A e \in Domain : e # d => record'[e] = record[e]
  BY <1>2, <1>3 DEF UpdateRecord
<1>6. dnsFaults' \in 0..MaxDnsFaults
  BY DEF UpdateRecord, DnsFault
<1>7. CASE RecordAccepted(record'[d])
  <2>1. failover' = [failover EXCEPT !.at = "search", !.todo = Tail(@)] /\ report' = report
        /\ home' = home
    BY <1>7 DEF UpdateRecord
  <2>2. record'[d] = wanted
    BY <1>7 DEF RecordAccepted
  <2>3. ASSUME NEW e \in Domain PROVE Moved(e)' \/ Waiting(e)'
    <3>1. CASE e = d
      BY <2>1, <2>2, <3>1 DEF Moved
    <3>2. CASE e # d /\ Moved(e)
      BY <1>5, <2>1, <3>2 DEF Moved
    <3>3. CASE e # d /\ Waiting(e)
      <4>1. PICK i \in DOMAIN failover.todo : failover.todo[i] = e
        BY <3>3 DEF Waiting
      <4>2. i # 1 /\ i \in 2..Len(failover.todo)
        BY <1>1, <1>2, <3>3, <4>1
      <4>3. i - 1 \in DOMAIN Tail(failover.todo) /\ Tail(failover.todo)[i - 1] = e
        BY <1>1, <4>1, <4>2
      <4> QED BY <2>1, <4>3 DEF Waiting
    <3> QED BY <1>1, <3>1, <3>2, <3>3
  <2> QED BY <1>1, <1>2, <1>3, <1>4, <1>6, <2>1, <2>3
<1>8. CASE ~RecordAccepted(record'[d])
  <2>1. failover' = Idle /\ report' = "failed" /\ home' = home
    BY <1>8 DEF UpdateRecord
  <2> QED BY <1>4, <1>6, <2>1 DEF Idle
<1> QED BY <1>7, <1>8

(* No step of the bot, of Cloudflare, of the nodes or of a restart breaks it. *)
LEMMA SwitchStep == SwitchInv /\ [DnsNext]_dnsVars => SwitchInv'
<1> SUFFICES ASSUME SwitchInv, [DnsNext]_dnsVars PROVE SwitchInv'
  OBVIOUS
<1> USE DnsAssumption DEF SwitchInv, DnsTypeOK, MovedTogether, Idle, Moved, Waiting, DnsFault
<1>1. ASSUME NEW c \in Country, ShowFailoverConfirm(c) PROVE SwitchInv'
  <2>1. failover' = [at |-> "asked", country |-> c, ip |-> NoAddress, todo |-> <<>>]
    BY <1>1 DEF ShowFailoverConfirm
  <2>2. <<>> \in Seq(Domain)
    OBVIOUS
  <2> QED BY <1>1, <2>1, <2>2 DEF ShowFailoverConfirm
<1>2. CASE BeginSwitch
  <2>1. home[failover.country] \in Address
    BY <1>2 DEF BeginSwitch
  <2>2. failover' = [failover EXCEPT !.at = "search", !.ip = home[failover.country],
                                     !.todo = ManagedDomains]
    BY <1>2 DEF BeginSwitch
  <2>3. \A d \in Domain : Waiting(d)'
    BY <2>2 DEF Domain
  <2> QED BY <1>2, <2>1, <2>2, <2>3 DEF BeginSwitch
<1>3. CASE FailSwitch
  BY <1>3 DEF FailSwitch
<1>4. CASE SearchRecord
  BY <1>4 DEF SearchRecord
<1>5. CASE UpdateRecord
  BY <1>5, UpdateKeepsMoved
<1>6. CASE LoseUpdateAnswer
  <2>1. Head(failover.todo) \in Domain
    BY <1>6 DEF LoseUpdateAnswer
  <2> QED BY <1>6, <2>1 DEF LoseUpdateAnswer
<1>7. CASE ReportMoved
  <2>1. \A d \in Domain : record[d] = [ip |-> failover.ip, proxied |-> FALSE]
    BY <1>7 DEF ReportMoved
  <2> QED BY <1>7, <2>1 DEF ReportMoved
<1>8. ASSUME NEW c \in Country, NEW a \in Address, MoveNode(c, a) PROVE SwitchInv'
  BY <1>8 DEF MoveNode
<1>9. CASE RestartBot
  BY <1>9 DEF RestartBot
<1>10. CASE UNCHANGED dnsVars
  BY <1>10 DEF dnsVars
<1> QED BY <1>1, <1>2, <1>3, <1>4, <1>5, <1>6, <1>7, <1>8, <1>9, <1>10 DEF DnsNext

(* The administrator is told that the cluster moved only when all its domains
   point to one address, for any number of domains, nodes and faults. *)
THEOREM ReportIsTrue == DnsSpec => []MovedTogether
<1>1. SwitchInv => MovedTogether
  BY DEF SwitchInv
<1> QED BY <1>1, SwitchInit, SwitchStep, PTL DEF DnsSpec
-----------------------------------------------------------------------------
(* The health endpoint. A process that found a healthy node has done so
   within its cycle, and a cache that says "ok" is not older than its age
   and one cycle. *)
CycleInv ==
  \A p \in Process :
    dog[p].at = "inspecting" => /\ dog[p].wait <= MaxCycle
                                /\ dog[p].healthy => sinceUp + dog[p].wait <= MaxCycle

CacheInv ==
  healthCache.ok => healthCache.age = TooOld \/ sinceUp <= healthCache.age + MaxCycle

WatchInv ==
  /\ WatchTypeOK
  /\ up # {} => sinceUp = 0
  /\ CycleInv
  /\ CacheInv

(* The bounds, one by one. *)
LEMMA WatchBounds ==
  /\ MaxStale \in Nat /\ CheckInterval \in Nat /\ MaxCycle \in Nat
  /\ TooOld \in Nat /\ Forgotten \in Nat
BY WatchAssumption DEF TooOld, Forgotten

(* A process outside a cycle. *)
ProcessState == [at : {"off", "ready", "inspecting", "sleeping"}, wait : Nat,
                 prev : 0..TooOld, left : Seq(WatchedNode), healthy : BOOLEAN]

(* No process runs and no success is on file. *)
LEMMA WatchStart == WatchInit => WatchInv
<1> SUFFICES ASSUME WatchInit PROVE WatchInv
  OBVIOUS
<1> USE WatchBounds
<1>1. Outside("off", 0) \in ProcessState
  BY DEF Outside, ProcessState
<1>2. dog \in [Process -> ProcessState]
  BY <1>1 DEF WatchInit
<1>3. healthCache \in [ok : BOOLEAN, age : 0..TooOld] /\ ~healthCache.ok
  BY DEF WatchInit
<1>4. WatchTypeOK
  BY <1>2, <1>3 DEF WatchInit, WatchTypeOK, ProcessState
<1>5. CycleInv
  BY DEF WatchInit, CycleInv, Outside
<1> QED BY <1>3, <1>4, <1>5 DEF WatchInit, WatchInv, CacheInv

(* An age grows by one until it no longer matters. *)
LEMMA OlderGrows ==
  ASSUME NEW most \in Nat, NEW old \in 0..most
  PROVE  /\ Older(old, most) \in 0..most /\ Older(old, most) <= old + 1
         /\ Older(old, most) # most => Older(old, most) = old + 1
BY DEF Older

(* A process that leaves its cycle, or that is not in one, does no harm. *)
LEMMA LeavesCycle ==
  ASSUME WatchInv, NEW p \in Process, NEW at \in {"off", "ready", "sleeping"}, NEW wait \in Nat,
         dog' = [dog EXCEPT ![p] = Outside(at, wait)], UNCHANGED <<up, sinceUp>>
  PROVE  dog' \in [Process -> ProcessState] /\ CycleInv'
<1> USE WatchBounds
<1>1. Outside(at, wait) \in ProcessState
  BY DEF Outside, ProcessState
<1>2. dog' \in [Process -> ProcessState]
  BY <1>1 DEF WatchInv, WatchTypeOK, ProcessState
<1>3. CycleInv'
  BY DEF WatchInv, WatchTypeOK, CycleInv, Outside
<1> QED BY <1>2, <1>3

(* No step of a process, of a node or of the clock breaks it. *)
LEMMA WatchStep == WatchInv /\ [WatchNext]_watchVars => WatchInv'
<1> SUFFICES ASSUME WatchInv, [WatchNext]_watchVars PROVE WatchInv'
  OBVIOUS
<1> USE WatchBounds
<1>1. dog \in [Process -> ProcessState]
  BY DEF WatchInv, WatchTypeOK, ProcessState
<1>2. ASSUME UNCHANGED <<up, sinceUp, healthCache>>, leaderLock' \in Dog \cup {NoDog},
             dog' \in [Process -> ProcessState], CycleInv'
      PROVE  WatchInv'
  BY <1>2 DEF WatchInv, WatchTypeOK, CacheInv, ProcessState
<1>3. ASSUME NEW p \in Process, StartDog(p) PROVE WatchInv'
  BY <1>2, <1>3, LeavesCycle DEF StartDog, WatchInv, WatchTypeOK
<1>4. ASSUME NEW p \in Process, TryLeaderLock(p) PROVE WatchInv'
  <2>1. CASE UNCHANGED dog
    BY <1>1, <1>2, <1>4, <2>1 DEF TryLeaderLock, WatchInv, WatchTypeOK, CycleInv
  <2>2. CASE dog' = [dog EXCEPT ![p] = Outside("sleeping", CheckInterval)]
    BY <1>2, <1>4, <2>2, LeavesCycle DEF TryLeaderLock, WatchInv, WatchTypeOK
  <2> QED BY <1>4, <2>1, <2>2 DEF TryLeaderLock
<1>5. ASSUME NEW p \in Process, BeginCycle(p) PROVE WatchInv'
  <2> DEFINE new == [at |-> "inspecting", wait |-> MaxCycle, prev |-> healthCache.age,
                     left |-> Watched, healthy |-> FALSE]
  <2>1. dog' = [dog EXCEPT ![p] = new]
    BY <1>5 DEF BeginCycle
  <2>2. new \in ProcessState
    BY WatchAssumption DEF WatchInv, WatchTypeOK, ProcessState
  <2>3. dog' \in [Process -> ProcessState]
    BY <1>1, <2>1, <2>2
  <2>4. CycleInv'
    BY <1>1, <1>5, <2>1 DEF BeginCycle, WatchInv, CycleInv
  <2> QED BY <1>2, <1>5, <2>3, <2>4 DEF BeginCycle, WatchInv, WatchTypeOK
<1>6. ASSUME NEW p \in Process, CheckNodeHealth(p) PROVE WatchInv'
  <2>1. dog[p].left # <<>> /\ dog[p].left \in Seq(WatchedNode)
    BY <1>1, <1>6 DEF CheckNodeHealth, ProcessState
  <2>2. Tail(dog[p].left) \in Seq(WatchedNode)
    BY <2>1
  <2> DEFINE found == dog[p].healthy \/ Head(dog[p].left) \in up
  <2>3. dog' = [dog EXCEPT ![p] = [dog[p] EXCEPT !.left = Tail(@), !.healthy = found]]
    BY <1>1, <1>6 DEF CheckNodeHealth
  <2>4. found \in BOOLEAN
    BY <1>1 DEF ProcessState
  <2>5. dog' \in [Process -> ProcessState]
    BY <1>1, <2>2, <2>3, <2>4 DEF ProcessState
  <2>6. dog[p].at = "inspecting" /\ dog[p].wait <= MaxCycle /\ dog[p].wait \in Nat
    BY <1>1, <1>6 DEF CheckNodeHealth, WatchInv, CycleInv, ProcessState
  <2>7. found => sinceUp + dog[p].wait <= MaxCycle
    BY <1>1, <2>6 DEF WatchInv, CycleInv
  <2>8. CycleInv'
    BY <1>1, <1>6, <2>3, <2>6, <2>7 DEF CheckNodeHealth, WatchInv, CycleInv, ProcessState
  <2> QED BY <1>2, <1>6, <2>5, <2>8 DEF CheckNodeHealth, WatchInv, WatchTypeOK
<1>7. ASSUME NEW p \in Process, SaveHealthCache(p) PROVE WatchInv'
  <2>1. dog' \in [Process -> ProcessState] /\ CycleInv'
    BY <1>7, LeavesCycle DEF SaveHealthCache
  <2>2. CycleResult(p) \in [ok : BOOLEAN, age : 0..TooOld]
    BY <1>1 DEF CycleResult, ProcessState
  <2>3. healthCache' \in [ok : BOOLEAN, age : 0..TooOld]
    BY <1>7, <2>2 DEF SaveHealthCache, WatchInv, WatchTypeOK
  <2>4. dog[p].healthy => sinceUp <= MaxCycle
    <3>1. dog[p].wait \in Nat /\ sinceUp \in Nat
      BY <1>1 DEF WatchInv, WatchTypeOK, ProcessState
    <3> QED BY <1>7, <3>1 DEF SaveHealthCache, WatchInv, CycleInv
  <2>5. CacheInv'
    BY <1>7, <2>4 DEF SaveHealthCache, CycleResult, CacheInv, WatchInv
  <2> QED BY <1>7, <2>1, <2>3, <2>5 DEF SaveHealthCache, WatchInv, WatchTypeOK, ProcessState
<1>8. ASSUME NEW p \in Process, WakeUp(p) PROVE WatchInv'
  BY <1>2, <1>8, LeavesCycle DEF WakeUp, WatchInv, WatchTypeOK
<1>9. ASSUME NEW p \in Process, CrashDog(p) PROVE WatchInv'
  BY <1>2, <1>9, LeavesCycle DEF CrashDog, WatchInv, WatchTypeOK
<1>10. ASSUME NEW n \in WatchedNode, ToggleNode(n) PROVE WatchInv'
  <2>1. sinceUp' = 0 /\ up' \subseteq WatchedNode
    BY <1>10 DEF ToggleNode, WatchInv, WatchTypeOK
  <2>2. CycleInv'
    BY <1>1, <1>10, <2>1 DEF ToggleNode, WatchInv, CycleInv, ProcessState
  <2>3. CacheInv'
    BY <1>10, <2>1 DEF ToggleNode, WatchInv, WatchTypeOK, CacheInv
  <2> QED BY <1>10, <2>1, <2>2, <2>3 DEF ToggleNode, WatchInv, WatchTypeOK
<1>11. CASE PassSecond
  <2>1. sinceUp \in Nat /\ sinceUp <= Forgotten
    BY DEF WatchInv, WatchTypeOK
  <2>2. sinceUp' \in 0..Forgotten /\ sinceUp' <= sinceUp + 1 /\ (up' # {} => sinceUp' = 0)
    <3>1. sinceUp \in 0..Forgotten
      BY DEF WatchInv, WatchTypeOK
    <3>2. CASE up = {}
      BY <1>11, <3>1, <3>2, OlderGrows DEF PassSecond
    <3>3. CASE up # {}
      <4>1. sinceUp' = 0
        BY <1>11, <3>3 DEF PassSecond
      <4> QED BY <2>1, <4>1
    <3> QED BY <3>2, <3>3
  <2>3. dog' \in [Process -> ProcessState]
    <3>1. ASSUME NEW p \in Process
          PROVE  [dog[p] EXCEPT !.wait = IF @ > 0 THEN @ - 1 ELSE 0, !.prev = Older(@, TooOld)]
                   \in ProcessState
      <4>1. Older(dog[p].prev, TooOld) \in 0..TooOld
        BY <1>1, OlderGrows DEF ProcessState
      <4>2. (IF dog[p].wait > 0 THEN dog[p].wait - 1 ELSE 0) \in Nat
        BY <1>1 DEF ProcessState
      <4> QED BY <1>1, <4>1, <4>2 DEF ProcessState
    <3> QED BY <1>11, <3>1 DEF PassSecond
  <2>4. CycleInv'
    <3> SUFFICES ASSUME NEW p \in Process, dog'[p].at = "inspecting"
                 PROVE /\ dog'[p].wait <= MaxCycle
                       /\ dog'[p].healthy => sinceUp' + dog'[p].wait <= MaxCycle
      BY DEF CycleInv
    <3>1. dog[p].at = "inspecting" /\ dog'[p].healthy = dog[p].healthy
      BY <1>1, <1>11 DEF PassSecond, ProcessState
    <3>2. dog[p].wait \in Nat /\ dog[p].wait > 0 /\ dog'[p].wait = dog[p].wait - 1
      BY <1>1, <1>11, <3>1 DEF PassSecond, ProcessState
    <3> QED BY <2>1, <2>2, <3>1, <3>2 DEF WatchInv, CycleInv
  <2>5. /\ healthCache' = [healthCache EXCEPT !.age = Older(@, TooOld)]
        /\ Older(healthCache.age, TooOld) \in 0..TooOld
        /\ Older(healthCache.age, TooOld) # TooOld =>
             Older(healthCache.age, TooOld) = healthCache.age + 1
    BY <1>11, OlderGrows DEF PassSecond, WatchInv, WatchTypeOK
  <2>6. healthCache' \in [ok : BOOLEAN, age : 0..TooOld]
    BY <2>5 DEF WatchInv, WatchTypeOK
  <2>7. CacheInv'
    <3> SUFFICES ASSUME healthCache'.ok, healthCache'.age # TooOld
                 PROVE  sinceUp' <= healthCache'.age + MaxCycle
      BY DEF CacheInv
    <3>1. healthCache.ok /\ healthCache.age \in 0..TooOld
      BY <2>5 DEF WatchInv, WatchTypeOK
    <3>2. healthCache'.age = healthCache.age + 1
      BY <2>5, <3>1 DEF WatchInv, WatchTypeOK
    <3>3. healthCache.age # TooOld
      BY <2>6, <3>1, <3>2
    <3>4. sinceUp <= healthCache.age + MaxCycle
      BY <3>1, <3>3 DEF WatchInv, CacheInv
    <3> QED BY <2>1, <2>2, <3>1, <3>2, <3>4
  <2> QED BY <1>11, <2>2, <2>3, <2>4, <2>6, <2>7
        DEF PassSecond, WatchInv, WatchTypeOK, ProcessState
<1>12. CASE UNCHANGED watchVars
  BY <1>12 DEF watchVars, WatchInv, WatchTypeOK, CycleInv, CacheInv
<1> QED BY <1>3, <1>4, <1>5, <1>6, <1>7, <1>8, <1>9, <1>10, <1>11, <1>12 DEF WatchNext

(* The health endpoint fails closed, for any daemons, nodes and failed writes
   and any age at which an answer is stale. *)
THEOREM EndpointFailsClosed == WatchSpec => []HealthFailsClosed
<1>1. WatchInv => HealthFailsClosed
  <2> SUFFICES ASSUME WatchInv, Fresh PROVE sinceUp <= MaxStale + MaxCycle
    BY DEF HealthFailsClosed
  <2>1. healthCache.age # TooOld /\ healthCache.age \in Nat /\ sinceUp \in Nat
    BY WatchBounds DEF Fresh, TooOld, WatchInv, WatchTypeOK
  <2> QED BY <2>1, WatchBounds DEF Fresh, WatchInv, CacheInv
<1> QED BY <1>1, WatchStart, WatchStep, PTL DEF WatchSpec
-----------------------------------------------------------------------------
(* The hand-over of an OpenFlux slot. What is begun, and the row it was begun
   with. *)
Begun ==
  [op : {"activate", "start", "confirm", "cancel", "heal"}, stage : {"docker", "write"},
   target : Server \cup {NoServer}, room : Room \cup {NoRoom}, row : SlotRow]
Offers(row) == row.status = "migrating" => row.pendingServer \in Server /\ row.pendingRoom \in Room

FluxTypes ==
  /\ FluxTypeOK
  /\ fluxJob \in [FluxThread -> Begun \cup {NoJob}]
  /\ Offers(slot)
  /\ \A t \in FluxThread : fluxJob[t] # NoJob =>
       /\ Offers(fluxJob[t].row)
       /\ fluxJob[t].op = "confirm" => fluxJob[t].row.status = "migrating"
       /\ fluxJob[t].op \in {"activate", "start"} =>
            fluxJob[t].target \in Server /\ fluxJob[t].room \in Room
       /\ fluxJob[t].op \in {"confirm", "cancel"} => fluxJob[t].target = NoServer

(* One thing at a time: the job that is under way has the row as it is, and
   what it has started serves; a clean-up comes after its job. *)
Busy(t) == fluxJob[t] # NoJob
JobFits(t) ==
  LET j == fluxJob[t] IN
  /\ j.row = slot
  /\ \/ /\ j.op = "activate" /\ slot.status = "uninitialized"
        /\ j.stage = "write" => worker[<<j.target, "main">>] = j.room
     \/ /\ j.op = "start" /\ slot.status = "active"
        /\ j.stage = "write" => worker[<<j.target, "pending">>] = j.room
     \/ j.op = "cancel" /\ slot.status = "migrating"
     \/ j.op = "confirm" /\ slot.status = "migrating" /\ j.stage = "write"
OneAtATime ==
  /\ dead = {}
  /\ \A t, u \in FluxThread : Busy(t) /\ Busy(u) => t = u
  /\ \A t \in FluxThread : Busy(t) => cleanups = {} /\ JobFits(t)
  /\ \A k, l \in cleanups : k = l
SlotServed ==
  /\ slot.status # "uninitialized" =>
       /\ slot.server \in Server /\ slot.room \in Room
       /\ cleanups = {} => worker[<<slot.server, "main">>] = slot.room
  /\ slot.status = "migrating" =>
       /\ cleanups = {}
       /\ \/ worker[<<slot.pendingServer, "pending">>] = slot.pendingRoom
          \/ \E t \in FluxThread : fluxJob[t].op = "cancel"
  /\ \A k \in cleanups : /\ slot.status = "active" /\ slot.server = k.new
                         /\ worker[<<k.new, "pending">>] = slot.room

FluxInv == FluxTypes /\ (~overlap /\ fluxEvents = 0 => OneAtATime /\ SlotServed)

(* A room that is asked for is one of the site's. *)
LEMMA FreshRoomIsRoom == RoomsLeft => FreshRoom \in Room
BY DEF RoomsLeft, FreshRoom

(* What a thread begins. *)
Begins(t) ==
  \/ \E s \in Server : BeginActivate(t, s) \/ BeginStart(t, s)
  \/ BeginConfirm(t) \/ BeginCancel(t) \/ BeginHeal(t)
Faults == (\E r \in Room : RoomDies(r)) \/ (\E c \in Container : LoseContainer(c)) \/ RestartProcess

(* Each step is one of a thread, of a clean-up, or a fault. *)
LEMMA FluxSteps ==
  ASSUME [FluxNext]_fluxVars
  PROVE  \/ \E t \in FluxThread : Begins(t) \/ StartWorker(t) \/ StopPending(t) \/ WriteSlot(t)
         \/ \E k \in cleanups : CleanupStop(k) \/ CleanupRename(k)
         \/ Faults
         \/ UNCHANGED fluxVars
BY DEF FluxNext, FluxThread, Begins, JobStep, CleanupStep, Faults

(* A thread begins with the row as it is. *)
LEMMA BeginsJob ==
  ASSUME FluxTypes, NEW t \in FluxThread, Begins(t)
  PROVE  \E j \in Begun :
           /\ fluxJob' = [fluxJob EXCEPT ![t] = j] /\ j.row = slot /\ fluxJob[t] = NoJob
           /\ j.op = "confirm" => slot.status = "migrating"
           /\ j.op \in {"activate", "start"} => j.target \in Server /\ j.room \in Room
           /\ j.op \in {"confirm", "cancel"} => j.target = NoServer
           /\ \/ j.op = "activate" /\ j.stage = "docker" /\ slot.status = "uninitialized"
              \/ j.op = "start" /\ j.stage = "docker" /\ slot.status = "active"
              \/ j.op = "cancel" /\ slot.status = "migrating"
              \/ j.op = "confirm" /\ j.stage = "write" /\ slot.status = "migrating"
              \/ /\ j.op = "heal" /\ slot.status # "uninitialized"
                 /\ slot.room \in dead \/ worker[<<slot.server, "main">>] = NoRoom
<1> DEFINE Job(op, stage, target, room) ==
             [op |-> op, stage |-> stage, target |-> target, room |-> room, row |-> slot]
<1>0. slot \in SlotRow
  BY DEF FluxTypes, FluxTypeOK
<1>1. ASSUME NEW s \in Server, BeginActivate(t, s) \/ BeginStart(t, s)
      PROVE  \E op \in {"activate", "start"} :
               /\ slot.status = IF op = "activate" THEN "uninitialized" ELSE "active"
               /\ fluxJob' = [fluxJob EXCEPT ![t] = Job(op, "docker", s, FreshRoom)]
               /\ fluxJob[t] = NoJob /\ FreshRoom \in Room
  BY <1>1, FreshRoomIsRoom DEF BeginActivate, BeginStart, Begin
<1>2. CASE \E s \in Server : BeginActivate(t, s) \/ BeginStart(t, s)
  <2>1. PICK s \in Server, op \in {"activate", "start"} :
               /\ slot.status = IF op = "activate" THEN "uninitialized" ELSE "active"
               /\ fluxJob' = [fluxJob EXCEPT ![t] = Job(op, "docker", s, FreshRoom)]
               /\ fluxJob[t] = NoJob /\ FreshRoom \in Room
    BY <1>1, <1>2
  <2>2. Job(op, "docker", s, FreshRoom) \in Begun
    BY <1>0, <2>1 DEF Begun
  <2> QED BY <2>1, <2>2
<1>3. CASE BeginConfirm(t)
  <2>1. Job("confirm", "write", NoServer, NoRoom) \in Begun
    BY <1>0 DEF Begun
  <2> QED BY <1>3, <2>1 DEF BeginConfirm, Begin
<1>4. CASE BeginCancel(t)
  <2>1. Job("cancel", "docker", NoServer, NoRoom) \in Begun
    BY <1>0 DEF Begun
  <2> QED BY <1>4, <2>1 DEF BeginCancel, Begin
<1>5. CASE BeginHeal(t)
  <2>1. PICK room \in Room \cup {NoRoom} :
          /\ fluxJob' = [fluxJob EXCEPT ![t] = Job("heal", "docker", slot.server, room)]
          /\ fluxJob[t] = NoJob /\ slot.status # "uninitialized"
          /\ slot.room \in dead \/ worker[<<slot.server, "main">>] = NoRoom
    BY <1>0, <1>5, FreshRoomIsRoom DEF BeginHeal, Begin, SlotRow
  <2>2. Job("heal", "docker", slot.server, room) \in Begun
    BY <1>0 DEF Begun, SlotRow
  <2> QED BY <2>1, <2>2
<1> QED BY <1>2, <1>3, <1>4, <1>5 DEF Begins

(* The writes of a job keep the row one. *)
LEMMA RowStaysRow ==
  ASSUME FluxTypes, NEW t \in FluxThread, WriteSlot(t)
  PROVE  slot' \in SlotRow /\ Offers(slot')
<1> DEFINE j == fluxJob[t]
<1>1. j \in Begun /\ j # NoJob /\ slot \in SlotRow /\ Offers(slot) /\ Offers(j.row) /\ slot' = RowAfter(j)
  BY DEF WriteSlot, FluxTypes, FluxTypeOK, NoJob
<1>2. /\ j.target \in Server \cup {NoServer} /\ j.room \in Room \cup {NoRoom}
      /\ j.row.pendingServer \in Server \cup {NoServer}
      /\ j.row.pendingRoom \in Room \cup {NoRoom}
  BY <1>1 DEF Begun, SlotRow
<1>3. CASE j.op = "activate"
  BY <1>1, <1>2, <1>3 DEF RowAfter, SlotRow, Offers
<1>4. CASE j.op = "start"
  <2>1. j.target \in Server /\ j.room \in Room
    BY <1>1, <1>4 DEF FluxTypes
  <2> QED BY <1>1, <1>2, <1>4, <2>1 DEF RowAfter, SlotRow, Offers
<1>5. CASE j.op = "cancel"
  BY <1>1, <1>2, <1>5 DEF RowAfter, SlotRow, Offers
<1>6. CASE j.op = "confirm"
  BY <1>1, <1>2, <1>6 DEF RowAfter, SlotRow, Offers
<1>7. CASE j.op = "heal"
  BY <1>1, <1>2, <1>7 DEF RowAfter, SlotRow, Offers
<1> QED BY <1>1, <1>3, <1>4, <1>5, <1>6, <1>7 DEF Begun

(* A job that goes on does so with what it was begun with. *)
GoesOn(t) ==
  \/ Done(t)
  \/ SetJob(t, [fluxJob[t] EXCEPT !.stage = "write"])

(* A job keeps its kind while it begins, goes on, ends or is lost. *)
LEMMA JobTypes ==
  ASSUME FluxTypes,
         \/ UNCHANGED fluxJob
         \/ \E t \in FluxThread : Begins(t)
         \/ \E t \in FluxThread : fluxJob[t] \in Begun /\ GoesOn(t)
         \/ fluxJob' = [t \in FluxThread |-> NoJob]
  PROVE  /\ fluxJob' \in [FluxThread -> Begun \cup {NoJob}]
         /\ \A t \in FluxThread : fluxJob'[t] # NoJob =>
              /\ Offers(fluxJob'[t].row)
              /\ fluxJob'[t].op = "confirm" => fluxJob'[t].row.status = "migrating"
              /\ fluxJob'[t].op \in {"activate", "start"} =>
                   fluxJob'[t].target \in Server /\ fluxJob'[t].room \in Room
              /\ fluxJob'[t].op \in {"confirm", "cancel"} => fluxJob'[t].target = NoServer
<1>0. fluxJob \in [FluxThread -> Begun \cup {NoJob}]
  BY DEF FluxTypes
<1>1. CASE UNCHANGED fluxJob
  BY <1>1 DEF FluxTypes
<1>2. ASSUME NEW t \in FluxThread, NEW j \in Begun \cup {NoJob}, fluxJob' = [fluxJob EXCEPT ![t] = j],
             j # NoJob =>
               /\ Offers(j.row)
               /\ j.op = "confirm" => j.row.status = "migrating"
               /\ j.op \in {"activate", "start"} => j.target \in Server /\ j.room \in Room
               /\ j.op \in {"confirm", "cancel"} => j.target = NoServer
      PROVE  /\ fluxJob' \in [FluxThread -> Begun \cup {NoJob}]
             /\ \A u \in FluxThread : fluxJob'[u] # NoJob =>
                  /\ Offers(fluxJob'[u].row)
                  /\ fluxJob'[u].op = "confirm" => fluxJob'[u].row.status = "migrating"
                  /\ fluxJob'[u].op \in {"activate", "start"} =>
                       fluxJob'[u].target \in Server /\ fluxJob'[u].room \in Room
                  /\ fluxJob'[u].op \in {"confirm", "cancel"} => fluxJob'[u].target = NoServer
  BY <1>0, <1>2 DEF FluxTypes
<1>3. ASSUME NEW t \in FluxThread, Begins(t)
      PROVE  \E j \in Begun : /\ fluxJob' = [fluxJob EXCEPT ![t] = j]
                              /\ Offers(j.row)
                              /\ j.op = "confirm" => j.row.status = "migrating"
                              /\ j.op \in {"activate", "start"} => j.target \in Server /\ j.room \in Room
                              /\ j.op \in {"confirm", "cancel"} => j.target = NoServer
  <2>1. Offers(slot)
    BY DEF FluxTypes
  <2> QED BY <1>3, <2>1, BeginsJob
<1>4. ASSUME NEW t \in FluxThread, fluxJob[t] \in Begun, GoesOn(t)
      PROVE  \/ fluxJob' = [fluxJob EXCEPT ![t] = NoJob]
             \/ \E j \in Begun : /\ fluxJob' = [fluxJob EXCEPT ![t] = j]
                                 /\ Offers(j.row)
                                 /\ j.op = "confirm" => j.row.status = "migrating"
                                 /\ j.op \in {"activate", "start"} => j.target \in Server /\ j.room \in Room
                                 /\ j.op \in {"confirm", "cancel"} => j.target = NoServer
  <2> DEFINE j == [fluxJob[t] EXCEPT !.stage = "write"]
  <2>1. /\ j \in Begun /\ j.row = fluxJob[t].row /\ j.op = fluxJob[t].op
        /\ j.target = fluxJob[t].target /\ j.room = fluxJob[t].room /\ fluxJob[t] # NoJob
    BY <1>4 DEF Begun, NoJob
  <2>2. /\ Offers(fluxJob[t].row)
        /\ fluxJob[t].op = "confirm" => fluxJob[t].row.status = "migrating"
        /\ fluxJob[t].op \in {"activate", "start"} =>
             fluxJob[t].target \in Server /\ fluxJob[t].room \in Room
        /\ fluxJob[t].op \in {"confirm", "cancel"} => fluxJob[t].target = NoServer
    BY <1>4, <2>1 DEF FluxTypes
  <2>3. fluxJob' = [fluxJob EXCEPT ![t] = NoJob] \/ fluxJob' = [fluxJob EXCEPT ![t] = j]
    BY <1>4 DEF GoesOn, Done, SetJob
  <2> HIDE DEF j
  <2> QED BY <2>1, <2>2, <2>3
<1>5. CASE fluxJob' = [t \in FluxThread |-> NoJob]
  BY <1>5
<1> QED BY <1>1, <1>2, <1>3, <1>4, <1>5

(* What a step does to everything but the jobs. *)
LEMMA FluxTypesStep ==
  ASSUME FluxTypes, [FluxNext]_fluxVars PROVE FluxTypes'
<1>0. /\ slot \in SlotRow /\ worker \in [Container -> Room \cup {NoRoom}] /\ dead \subseteq Room
      /\ cleanups \subseteq [old : Server \cup {NoServer}, new : Server, stage : {"stop", "rename"}]
      /\ requests \in 0..MaxRequests /\ fluxEvents \in 0..MaxFluxEvents /\ overlap \in BOOLEAN
      /\ fluxJob \in [FluxThread -> Begun \cup {NoJob}] /\ Offers(slot)
      /\ MaxRequests \in Nat /\ MaxFluxEvents \in Nat
  BY FluxAssumption DEF FluxTypes, FluxTypeOK
<1> DEFINE Rest ==
      /\ slot' \in SlotRow /\ Offers(slot') /\ worker' \in [Container -> Room \cup {NoRoom}]
      /\ dead' \subseteq Room
      /\ cleanups' \subseteq [old : Server \cup {NoServer}, new : Server, stage : {"stop", "rename"}]
      /\ requests' \in 0..MaxRequests /\ fluxEvents' \in 0..MaxFluxEvents /\ overlap' \in BOOLEAN
           Jobs ==
      \/ UNCHANGED fluxJob
      \/ \E t \in FluxThread : Begins(t)
      \/ \E t \in FluxThread : fluxJob[t] \in Begun /\ GoesOn(t)
      \/ fluxJob' = [t \in FluxThread |-> NoJob]
<1>1. ASSUME NEW t \in FluxThread, Begins(t) PROVE Rest /\ Jobs
  <2>1. PICK op, stage, target, room : Begin(t, op, stage, target, room)
    BY <1>1 DEF Begins, BeginActivate, BeginStart, BeginConfirm, BeginCancel, BeginHeal
  <2>2. requests' \in 0..MaxRequests
    BY <1>0, <2>1 DEF Begin
  <2>3. overlap' \in BOOLEAN
    BY <2>1, ZenonT(20) DEF Begin
  <2> QED BY <1>0, <1>1, <2>1, <2>2, <2>3 DEF Begin
<1>2. ASSUME NEW t \in FluxThread, StartWorker(t) \/ StopPending(t) \/ WriteSlot(t)
      PROVE  fluxJob[t] \in Begun /\ GoesOn(t)
  BY <1>0, <1>2 DEF StartWorker, StopPending, WriteSlot, GoesOn, NoJob
<1>3. ASSUME NEW t \in FluxThread, StartWorker(t) PROVE Rest
  <2>1. fluxJob[t].room \in Room \cup {NoRoom}
    BY <1>2, <1>3 DEF Begun
  <2>2. worker' \in [Container -> Room \cup {NoRoom}] /\ fluxEvents' \in 0..MaxFluxEvents
    BY <1>0, <1>3, <2>1 DEF StartWorker
  <2> QED BY <1>0, <1>3, <2>2 DEF StartWorker
<1>4. ASSUME NEW t \in FluxThread, StopPending(t) PROVE Rest
  BY <1>0, <1>4 DEF StopPending
<1>5. ASSUME NEW t \in FluxThread, WriteSlot(t) PROVE Rest
  <2> DEFINE k == [old |-> fluxJob[t].row.server, new |-> fluxJob[t].row.pendingServer, stage |-> "stop"]
  <2>1. fluxJob[t] # NoJob /\ fluxJob[t].row \in SlotRow
    BY <1>2, <1>5 DEF Begun, NoJob
  <2>2. fluxJob[t].op = "confirm" => fluxJob[t].row.pendingServer \in Server
    BY <1>5, <2>1 DEF FluxTypes, Offers
  <2>3. fluxJob[t].op = "confirm" =>
          k \in [old : Server \cup {NoServer}, new : Server, stage : {"stop", "rename"}]
    BY <2>1, <2>2 DEF SlotRow
  <2>4. cleanups' = IF fluxJob[t].op = "confirm" THEN cleanups \cup {k} ELSE cleanups
    BY <1>5 DEF WriteSlot
  <2>5. cleanups' \subseteq [old : Server \cup {NoServer}, new : Server, stage : {"stop", "rename"}]
    BY <1>0, <2>3, <2>4
  <2> QED BY <1>0, <1>5, <2>5, RowStaysRow DEF WriteSlot
<1>6. ASSUME NEW k \in cleanups, CleanupStop(k) \/ CleanupRename(k) PROVE Rest /\ Jobs
  <2>1. k.new \in Server /\ [k EXCEPT !.stage = "rename"] \in
          [old : Server \cup {NoServer}, new : Server, stage : {"stop", "rename"}]
    BY <1>0
  <2>2. <<k.new, "pending">> \in Container
    BY <2>1 DEF Container
  <2>3. worker' \in [Container -> Room \cup {NoRoom}]
    BY <1>0, <1>6, <2>2 DEF CleanupStop, CleanupRename
  <2> QED BY <1>0, <1>6, <2>1, <2>3 DEF CleanupStop, CleanupRename
<1>7. ASSUME Faults PROVE Rest /\ Jobs
  <2>1. dead' \subseteq Room
    BY <1>0, <1>7 DEF Faults, RoomDies, LoseContainer, RestartProcess
  <2> QED BY <1>0, <1>7, <2>1 DEF Faults, RoomDies, LoseContainer, RestartProcess, Fault
<1>8. ASSUME UNCHANGED fluxVars PROVE Rest /\ Jobs
  BY <1>0, <1>8 DEF fluxVars
<1>9. Rest /\ Jobs
  BY <1>1, <1>2, <1>3, <1>4, <1>5, <1>6, <1>7, <1>8, FluxSteps
<1>10. \A t \in FluxThread :
          /\ fluxJob'[t].op \in {"none", "activate", "start", "confirm", "cancel", "heal"}
          /\ fluxJob'[t].stage \in {"idle", "docker", "write"}
          /\ fluxJob'[t].target \in Server \cup {NoServer}
          /\ fluxJob'[t].room \in Room \cup {NoRoom}
  <2>1. fluxJob' \in [FluxThread -> Begun \cup {NoJob}]
    BY <1>9, JobTypes
  <2> QED BY <2>1 DEF Begun, NoJob
<1>11. FluxTypeOK'
  BY <1>9, <1>10 DEF FluxTypeOK
<1> QED BY <1>9, <1>11, JobTypes DEF FluxTypes

(* As long as nothing overlaps and nothing fails, there is one thing at a time
   and the slot is served. *)
LEMMA HandoverStep ==
  ASSUME FluxInv, [FluxNext]_fluxVars, ~overlap', fluxEvents' = 0
  PROVE  OneAtATime' /\ SlotServed'
<1>0. /\ slot \in SlotRow /\ worker \in [Container -> Room \cup {NoRoom}]
      /\ cleanups \subseteq [old : Server \cup {NoServer}, new : Server, stage : {"stop", "rename"}]
      /\ fluxEvents \in Nat /\ overlap \in BOOLEAN
      /\ fluxJob \in [FluxThread -> Begun \cup {NoJob}] /\ Offers(slot)
      /\ NoRoom \notin Room
  BY FluxAssumption DEF FluxInv, FluxTypes, FluxTypeOK
<1>1. ~Faults
  BY <1>0 DEF Faults, RoomDies, LoseContainer, RestartProcess, Fault
<1>2. ~overlap /\ fluxEvents = 0 /\ dead' = dead
  <2>1. ASSUME NEW t \in FluxThread, Begins(t)
        PROVE  (overlap => overlap') /\ UNCHANGED <<fluxEvents, dead>>
    <3>1. PICK op, stage, target, room : Begin(t, op, stage, target, room)
      BY <2>1 DEF Begins, BeginActivate, BeginStart, BeginConfirm, BeginCancel, BeginHeal
    <3> QED BY <3>1 DEF Begin
  <2>2. ASSUME NEW t \in FluxThread, StartWorker(t) \/ StopPending(t) \/ WriteSlot(t)
        PROVE  overlap' = overlap /\ fluxEvents = 0 /\ dead' = dead
    BY <1>0, <2>2 DEF StartWorker, StopPending, WriteSlot
  <2>3. ASSUME NEW k \in cleanups, CleanupStop(k) \/ CleanupRename(k)
        PROVE  UNCHANGED <<overlap, fluxEvents, dead>>
    BY <2>3 DEF CleanupStop, CleanupRename
  <2> QED BY <1>0, <1>1, <2>1, <2>2, <2>3, FluxSteps DEF fluxVars
<1>3. OneAtATime /\ SlotServed /\ FluxTypes
  BY <1>2 DEF FluxInv
<1>4. ASSUME NEW t \in FluxThread, Begins(t) PROVE OneAtATime' /\ SlotServed'
  <2>1. PICK op, stage, target, room : Begin(t, op, stage, target, room)
    BY <1>4 DEF Begins, BeginActivate, BeginStart, BeginConfirm, BeginCancel, BeginHeal
  <2>2. cleanups = {} /\ (\A u \in FluxThread : fluxJob[u] = NoJob) /\ UNCHANGED <<slot, worker, cleanups>>
    BY <2>1 DEF Begin
  <2>3. ~(slot.status # "uninitialized" /\ worker[<<slot.server, "main">>] = NoRoom)
    BY <1>0, <1>3, <2>2 DEF SlotServed
  <2>4. PICK j \in Begun :
             /\ fluxJob' = [fluxJob EXCEPT ![t] = j] /\ j.row = slot
             /\ \/ j.op = "activate" /\ j.stage = "docker" /\ slot.status = "uninitialized"
                \/ j.op = "start" /\ j.stage = "docker" /\ slot.status = "active"
                \/ j.op = "cancel" /\ slot.status = "migrating"
                \/ j.op = "confirm" /\ j.stage = "write" /\ slot.status = "migrating"
    BY <1>3, <1>4, <2>3, BeginsJob DEF OneAtATime
  <2>5. fluxJob'[t] = j /\ \A u \in FluxThread \ {t} : fluxJob'[u] = NoJob
    BY <1>0, <2>2, <2>4
  <2>6. OneAtATime'
    BY <1>2, <1>3, <2>2, <2>4, <2>5 DEF OneAtATime, Busy, JobFits
  <2>7. SlotServed'
    BY <1>3, <2>2 DEF SlotServed, NoJob
  <2> QED BY <2>6, <2>7
<1>5. ASSUME NEW t \in FluxThread, fluxJob[t] # NoJob, NEW j, j = fluxJob[t]
      PROVE  /\ cleanups = {} /\ JobFits(t) /\ j \in Begun /\ j.row = slot
             /\ \A u \in FluxThread \ {t} : fluxJob[u] = NoJob
             /\ j.op \in {"activate", "start"} => j.target \in Server /\ j.room \in Room
             /\ [j EXCEPT !.stage = "write"] \in Begun
  BY <1>0, <1>3, <1>5 DEF OneAtATime, Busy, JobFits, FluxTypes, Begun
<1>6. ASSUME NEW t \in FluxThread, StartWorker(t) \/ StopPending(t) \/ WriteSlot(t)
      PROVE  fluxJob[t] # NoJob
  BY <1>6 DEF StartWorker, StopPending, WriteSlot, NoJob
<1>7. ASSUME NEW t \in FluxThread, StartWorker(t) \/ StopPending(t) PROVE OneAtATime' /\ SlotServed'
  <2> DEFINE j == fluxJob[t]
             next == [j EXCEPT !.stage = "write"]
  <2>1. /\ cleanups = {} /\ JobFits(t) /\ j \in Begun /\ j.row = slot
        /\ \A u \in FluxThread \ {t} : fluxJob[u] = NoJob
        /\ j.op \in {"activate", "start"} => j.target \in Server /\ j.room \in Room
        /\ next \in Begun
    BY <1>5, <1>6, <1>7
  <2>2. /\ next.op = j.op /\ next.stage = "write" /\ next.row = j.row
        /\ next.target = j.target /\ next.room = j.room
    BY <2>1 DEF Begun
  <2>3. fluxJob' = [fluxJob EXCEPT ![t] = next] /\ UNCHANGED <<slot, cleanups>>
    BY <1>0, <1>2, <1>7, <2>1 DEF StartWorker, StopPending, SetJob, JobFits
  <2>4. fluxJob'[t] = next /\ \A u \in FluxThread \ {t} : fluxJob'[u] = NoJob
    BY <1>0, <2>1, <2>3
  <2> HIDE DEF next
  <2>5. CASE j.op = "activate"
    <3>1. worker' = [worker EXCEPT ![<<j.target, "main">>] = j.room] /\ slot.status = "uninitialized"
      BY <1>0, <1>2, <1>7, <2>1, <2>5 DEF StartWorker, StopPending, JobFits
    <3>2. worker'[<<j.target, "main">>] = j.room
      BY <1>0, <2>1, <2>5, <3>1 DEF Container
    <3>3. OneAtATime'
      BY <1>2, <1>3, <2>1, <2>2, <2>3, <2>4, <2>5, <3>1, <3>2 DEF OneAtATime, Busy, JobFits
    <3>4. SlotServed'
      BY <2>1, <2>3, <3>1 DEF SlotServed
    <3> QED BY <3>3, <3>4
  <2>6. CASE j.op = "start"
    <3>1. worker' = [worker EXCEPT ![<<j.target, "pending">>] = j.room] /\ slot.status = "active"
      BY <1>0, <1>2, <1>7, <2>1, <2>6 DEF StartWorker, StopPending, JobFits
    <3>2. worker'[<<j.target, "pending">>] = j.room
      BY <1>0, <2>1, <2>6, <3>1 DEF Container
    <3>3. OneAtATime'
      BY <1>2, <1>3, <2>1, <2>2, <2>3, <2>4, <2>6, <3>1, <3>2 DEF OneAtATime, Busy, JobFits
    <3>4. worker'[<<slot.server, "main">>] = worker[<<slot.server, "main">>]
      BY <1>0, <1>3, <3>1 DEF Container, SlotServed
    <3>5. SlotServed'
      BY <1>3, <2>1, <2>3, <3>1, <3>4 DEF SlotServed
    <3> QED BY <3>3, <3>5
  <2>7. CASE j.op = "cancel"
    <3>1. /\ slot.status = "migrating"
          /\ worker' = worker \/ worker' = [worker EXCEPT ![<<j.row.pendingServer, "pending">>] = NoRoom]
      BY <1>7, <2>1, <2>7 DEF StartWorker, StopPending, JobFits
    <3>2. worker'[<<slot.server, "main">>] = worker[<<slot.server, "main">>]
      BY <1>0, <1>3, <3>1 DEF Container, SlotServed
    <3>3. OneAtATime'
      BY <1>2, <1>3, <2>1, <2>2, <2>3, <2>4, <2>7, <3>1 DEF OneAtATime, Busy, JobFits
    <3>4. SlotServed'
      BY <1>3, <2>1, <2>2, <2>3, <2>4, <2>7, <3>1, <3>2 DEF SlotServed
    <3> QED BY <3>3, <3>4
  <2> QED BY <1>7, <2>1, <2>5, <2>6, <2>7 DEF StartWorker, StopPending, JobFits
<1>8. ASSUME NEW t \in FluxThread, WriteSlot(t) PROVE OneAtATime' /\ SlotServed'
  <2> DEFINE j == fluxJob[t]
  <2>1. /\ cleanups = {} /\ JobFits(t) /\ j \in Begun /\ j.row = slot /\ j.stage = "write"
        /\ \A u \in FluxThread \ {t} : fluxJob[u] = NoJob
        /\ j.op \in {"activate", "start"} => j.target \in Server /\ j.room \in Room
        /\ slot' = RowAfter(j) /\ worker' = worker
    BY <1>5, <1>6, <1>8 DEF WriteSlot
  <2>2. \A u \in FluxThread : fluxJob'[u] = NoJob
    BY <1>0, <1>8, <2>1 DEF WriteSlot, Done, SetJob
  <2>3. CASE j.op = "confirm"
    <3> DEFINE k == [old |-> slot.server, new |-> slot.pendingServer, stage |-> "stop"]
    <3>1. cleanups' = {k} /\ k.new = slot.pendingServer
      BY <1>8, <2>1, <2>3 DEF WriteSlot
    <3> HIDE DEF k
    <3>2. /\ slot.status = "migrating" /\ slot.pendingServer \in Server /\ slot.pendingRoom \in Room
          /\ worker[<<slot.pendingServer, "pending">>] = slot.pendingRoom
      BY <1>0, <1>3, <2>1, <2>3 DEF JobFits, SlotServed, Offers, NoJob
    <3>3. /\ slot'.status = "active" /\ slot'.server = slot.pendingServer
          /\ slot'.room = slot.pendingRoom
      BY <1>0, <2>1, <2>3 DEF RowAfter, SlotRow
    <3>4. OneAtATime'
      BY <1>2, <1>3, <2>2, <3>1 DEF OneAtATime, Busy
    <3> QED BY <2>1, <3>1, <3>2, <3>3, <3>4 DEF SlotServed
  <2>4. CASE j.op # "confirm"
    <3>1. cleanups' = {}
      BY <1>8, <2>1, <2>4 DEF WriteSlot
    <3>2. OneAtATime'
      BY <1>2, <1>3, <2>2, <3>1 DEF OneAtATime, Busy
    <3>3. CASE j.op = "activate"
      <4>1. slot'.status = "active" /\ slot'.server = j.target /\ slot'.room = j.room
        BY <1>0, <2>1, <3>3 DEF RowAfter, SlotRow
      <4> QED BY <2>1, <3>1, <3>2, <3>3, <4>1 DEF SlotServed, JobFits
    <3>4. CASE j.op = "start"
      <4>1. /\ slot'.status = "migrating" /\ slot'.server = slot.server /\ slot'.room = slot.room
            /\ slot'.pendingServer = j.target /\ slot'.pendingRoom = j.room
        BY <1>0, <2>1, <3>4 DEF RowAfter, SlotRow
      <4> QED BY <1>3, <2>1, <3>1, <3>2, <3>4, <4>1 DEF SlotServed, JobFits
    <3>5. CASE j.op = "cancel"
      <4>1. /\ slot'.status = "active" /\ slot'.server = slot.server /\ slot'.room = slot.room
        BY <1>0, <2>1, <3>5 DEF RowAfter, SlotRow
      <4> QED BY <1>3, <2>1, <3>1, <3>2, <3>5, <4>1 DEF SlotServed, JobFits
    <3> QED BY <2>1, <2>4, <3>3, <3>4, <3>5 DEF JobFits
  <2> QED BY <2>3, <2>4
<1>9. ASSUME NEW k \in cleanups, CleanupStop(k) \/ CleanupRename(k) PROVE OneAtATime' /\ SlotServed'
  <2>1. /\ \A t \in FluxThread : fluxJob[t] = NoJob
        /\ cleanups = {k} /\ k.new \in Server /\ UNCHANGED <<slot, fluxJob>>
        /\ slot.status = "active" /\ slot.server = k.new /\ worker[<<k.new, "pending">>] = slot.room
    BY <1>0, <1>3, <1>9 DEF OneAtATime, Busy, SlotServed, CleanupStop, CleanupRename
  <2>2. CASE CleanupStop(k)
    <3> DEFINE next == [k EXCEPT !.stage = "rename"]
    <3>1. cleanups' = {next} /\ next.new = k.new
      BY <1>0, <2>1, <2>2 DEF CleanupStop
    <3>2. worker'[<<k.new, "pending">>] = slot.room
      BY <1>0, <2>1, <2>2 DEF CleanupStop, Container
    <3> HIDE DEF next
    <3>3. OneAtATime'
      BY <1>2, <1>3, <2>1, <3>1 DEF OneAtATime, Busy
    <3> QED BY <1>3, <2>1, <3>1, <3>2, <3>3 DEF SlotServed
  <2>3. CASE CleanupRename(k)
    <3>1. cleanups' = {} /\ worker'[<<k.new, "main">>] = slot.room
      BY <1>0, <2>1, <2>3 DEF CleanupRename, Container
    <3>2. OneAtATime'
      BY <1>2, <1>3, <2>1, <3>1 DEF OneAtATime, Busy
    <3> QED BY <1>3, <2>1, <3>1, <3>2 DEF SlotServed
  <2> QED BY <1>9, <2>2, <2>3
<1>10. CASE UNCHANGED fluxVars
  BY <1>3, <1>10 DEF fluxVars, OneAtATime, SlotServed, Busy, JobFits
<1> QED BY <1>1, <1>4, <1>7, <1>8, <1>9, <1>10, FluxSteps

(* A hand-over without an interruption: as long as nothing overlaps and no fault
   happens, the room of the row is served before, during and after a hand-over,
   and the room on offer while it may be confirmed, for any number of nodes,
   rooms, customers' threads and watchdogs. *)
THEOREM HandoverIsSeamless == FluxSpec => []HandoverKeepsRoom
<1>1. FluxInit => FluxInv
  <2> SUFFICES ASSUME FluxInit PROVE FluxInv
    OBVIOUS
  <2>1. EmptySlot \in SlotRow
    BY DEF EmptySlot, SlotRow
  <2>2. FluxTypeOK
    <3>1. \A t \in FluxThread : /\ fluxJob[t].op = "none" /\ fluxJob[t].stage = "idle"
                               /\ fluxJob[t].target = NoServer /\ fluxJob[t].room = NoRoom
      BY DEF FluxInit, NoJob
    <3>2. 0 \in 0..MaxRequests /\ 0 \in 0..MaxFluxEvents
      BY FluxAssumption
    <3> QED BY <2>1, <3>1, <3>2 DEF FluxInit, FluxTypeOK
  <2>3. Offers(slot)
    BY DEF FluxInit, EmptySlot, Offers
  <2>4. FluxTypes
    BY <2>2, <2>3 DEF FluxInit, FluxTypes
  <2> QED BY <2>4 DEF FluxInit, FluxInv, OneAtATime, SlotServed, Busy, EmptySlot
<1>2. FluxInv /\ [FluxNext]_fluxVars => FluxInv'
  BY FluxTypesStep, HandoverStep DEF FluxInv
<1>3. FluxInv => HandoverKeepsRoom
  <2> SUFFICES ASSUME FluxInv, ~overlap, fluxEvents = 0
               PROVE  /\ slot.status # "uninitialized" => Serves(slot.server, slot.room)
                      /\ slot.status = "migrating" /\ (\A t \in FluxThread : fluxJob[t].op # "cancel")
                           => Serves(slot.pendingServer, slot.pendingRoom)
    BY DEF HandoverKeepsRoom
  <2>1. SlotServed /\ Offers(slot) /\ NoServer \notin Server
    BY FluxAssumption DEF FluxInv, FluxTypes
  <2> QED BY <2>1 DEF SlotServed, Serves, Offers
<1> QED BY <1>1, <1>2, <1>3, PTL DEF FluxSpec

-----------------------------------------------------------------------------
(* The merge after a failover. What a node's writes leave of the snapshot: the
   other node's order is not there, a paid period is never shortened, what was
   delivered stays so unless refunded, a client is enabled exactly with an
   active profile, and a code's uses cover the orders that hold one. d is the
   database, b the snapshot, taken the refunded orders and t the day. *)
NodeInv(d, other, b, taken, t) ==
  /\ d \in Database
  /\ d.order[other] = "none" /\ d.order["old"] # "none"
  /\ \A o \in Ord \ taken : b.order[o] = "delivered" => d.order[o] = "delivered"
  /\ d.used >= Cardinality(Holders(d))
  /\ d.profile.expires >= b.profile.expires
  /\ d.profile.renewed \in 0..t
  /\ d.profile.renewed = 0 => d.profile.expires = b.profile.expires
  /\ d.profile.renewed > 0 => d.profile.expires >= d.profile.renewed + RenewalDays
  /\ d.profile.status = "expired" => d.profile.expires <= t
  /\ d.profile.status = "deleted" => taken # {}
  /\ d.client.enable <=> d.profile.status = "active"

(* What the merge makes of the two nodes, however often it is repeated. *)
Running == {"primary", "standby"}
Own == IF pipeline \in Running THEN db["nl"] ELSE before
Merged(o) == MergedOrder(before.order[o], db["fi"].order[o], base.order[o])
OneSided == \A o \in Ord : base.order[o] \in {before.order[o], db["fi"].order[o]}
MergeInv ==
  /\ db["nl"] \in Database
  /\ merges = 0 /\ pipeline \notin Running =>
       /\ db["nl"].order = before.order /\ db["nl"].used = before.used
       /\ db["nl"].profile = before.profile
  /\ merges > 0 =>
       /\ pipeline \notin Running
       /\ \A o \in Ord : db["nl"].order[o] = Merged(o)
       /\ OneSided => db["nl"].used >= Cardinality(Holders(db["nl"]))
       /\ db["nl"].profile = MergedProfile(before.profile, db["fi"].profile, base.profile)
  /\ LET enable == MergedEnable(before.client.enable, db["fi"].client.enable, base.client.enable) IN
     /\ pipeline = "merged" => db["nl"].client.enable = enable
     /\ pipeline \notin Running => db["nl"].client.enable \in {before.client.enable, enable}

FailbackInv ==
  /\ \E status \in {"waiting", "delivered"}, expires \in Nat : base = SnapshotWith(status, expires)
  /\ db = [s \in Side |-> db[s]]
  /\ before \in Database /\ refunded \subseteq Ord /\ merges \in Nat /\ day \in 1..LastDay
  /\ pipeline \in {"primary", "standby", "vpn", "xui", "merged", "fatal"}
  /\ NodeInv(Own, "fi", base, refunded, day) /\ NodeInv(db["fi"], "nl", base, refunded, day)
  /\ MergeInv

(* The orders that hold a use of the code, one by one. *)
Held(status) == IF status \in {"none", "cancelled"} THEN 0 ELSE 1

(* The uses held in a database are those of its three orders together. *)
LEMMA HoldersCount ==
  ASSUME NEW d
  PROVE  Cardinality(Holders(d)) =
           Held(d.order["old"]) + Held(d.order["nl"]) + Held(d.order["fi"])
<1> DEFINE One(o) == {p \in {o} : d.order[p] \notin {"none", "cancelled"}}
<1>1. ASSUME NEW S, IsFiniteSet(S), NEW o, o \notin S
      PROVE  IsFiniteSet(S \cup One(o)) /\ Cardinality(S \cup One(o)) = Cardinality(S) + Held(d.order[o])
  <2>1. CASE d.order[o] \in {"none", "cancelled"}
    <3>1. S \cup One(o) = S
      BY <2>1
    <3>2. Cardinality(S) \in Nat
      BY <1>1, FS_CardinalityType
    <3> QED BY <1>1, <2>1, <3>1, <3>2 DEF Held
  <2>2. CASE d.order[o] \notin {"none", "cancelled"}
    <3>1. S \cup One(o) = S \cup {o}
      BY <2>2
    <3>2. IsFiniteSet(S \cup {o}) /\ Cardinality(S \cup {o}) = Cardinality(S) + 1
      BY <1>1, FS_AddElement
    <3> QED BY <2>2, <3>1, <3>2 DEF Held
  <2> QED BY <2>1, <2>2
<1>2. IsFiniteSet({}) /\ Cardinality({}) = 0
  BY FS_EmptySet
<1>3. IsFiniteSet({} \cup One("old")) /\ Cardinality({} \cup One("old")) = 0 + Held(d.order["old"])
  BY <1>1, <1>2
<1>4. "nl" \notin {} \cup One("old")
  OBVIOUS
<1>5. /\ IsFiniteSet(({} \cup One("old")) \cup One("nl"))
      /\ Cardinality(({} \cup One("old")) \cup One("nl")) = 0 + Held(d.order["old"]) + Held(d.order["nl"])
  BY <1>1, <1>3, <1>4
<1>6. "fi" \notin ({} \cup One("old")) \cup One("nl")
  OBVIOUS
<1>7. Cardinality((({} \cup One("old")) \cup One("nl")) \cup One("fi"))
        = 0 + Held(d.order["old"]) + Held(d.order["nl"]) + Held(d.order["fi"])
  BY <1>1, <1>5, <1>6
<1>8. Holders(d) = (({} \cup One("old")) \cup One("nl")) \cup One("fi")
  BY DEF Holders, Ord
<1>9. \A status : Held(status) \in Nat
  BY DEF Held
<1> HIDE DEF One
<1> QED BY <1>7, <1>8, <1>9

(* The greater of two numbers. *)
LEMMA MaxOfTwo ==
  ASSUME NEW a \in Int, NEW b \in Int
  PROVE  Max({a, b}) \in {a, b} /\ Max({a, b}) >= a /\ Max({a, b}) >= b
<1>1. \E x \in {a, b} : \A y \in {a, b} : x >= y
  <2>1. CASE a >= b
    BY <2>1
  <2>2. CASE ~(a >= b)
    BY <2>2
  <2> QED BY <2>1, <2>2
<1>2. Max({a, b}) \in {a, b} /\ \A y \in {a, b} : Max({a, b}) >= y
  BY <1>1 DEF Max
<1> QED BY <1>2

(* A merge that is repeated makes of an order and of a flag what it made
   before. *)
LEMMA MergeTwice ==
  /\ \A n, f, b \in OrdStatus :
        LET m == MergedOrder(n, f, b) IN m \in OrdStatus /\ MergedOrder(m, f, b) = m
  /\ \A n, f, b \in BOOLEAN :
        LET m == MergedEnable(n, f, b) IN m \in BOOLEAN /\ MergedEnable(m, f, b) = m
<1>1. ASSUME NEW n \in OrdStatus, NEW f \in OrdStatus, NEW b \in OrdStatus
      PROVE  /\ MergedOrder(n, f, b) \in OrdStatus
             /\ MergedOrder(MergedOrder(n, f, b), f, b) = MergedOrder(n, f, b)
  <2>1. CASE f = "none" \/ n = f
    BY <2>1 DEF MergedOrder
  <2>2. CASE f # "none" /\ n # f /\ n = "none"
    BY <2>2 DEF MergedOrder
  <2>3. CASE f # "none" /\ n # f /\ n # "none" /\ f = b
    BY <2>3 DEF MergedOrder
  <2>4. CASE f # "none" /\ n # f /\ n # "none" /\ f # b /\ n = b
    BY <2>4 DEF MergedOrder
  <2>5. CASE f # "none" /\ n # f /\ n # "none" /\ f # b /\ n # b
    <3>1. MergedOrder(n, f, b) = IF OrderRank(f) > OrderRank(n) THEN f ELSE n
      BY <2>5 DEF MergedOrder
    <3>2. MergedOrder(f, f, b) = f
      BY DEF MergedOrder
    <3> QED BY <3>1, <3>2
  <2> QED BY <2>1, <2>2, <2>3, <2>4, <2>5
<1>2. ASSUME NEW n \in BOOLEAN, NEW f \in BOOLEAN, NEW b \in BOOLEAN
      PROVE  /\ MergedEnable(n, f, b) \in BOOLEAN
             /\ MergedEnable(MergedEnable(n, f, b), f, b) = MergedEnable(n, f, b)
  BY DEF MergedEnable
<1> QED BY <1>1, <1>2

(* So it does of a profile, that started active and that each node changed by
   giving it time, taking none. *)
Profile == [status : {"active", "expired", "deleted"}, expires : Nat, renewed : Nat]

(* A merged profile merged again is the same. *)
LEMMA MergeProfileTwice ==
  ASSUME NEW n \in Profile, NEW f \in Profile, NEW b \in Profile,
         b.renewed = 0, n.expires >= b.expires, f.expires >= b.expires,
         n.renewed = 0 => n.expires = b.expires
  PROVE  LET m == MergedProfile(n, f, b) IN m \in Profile /\ MergedProfile(m, f, b) = m
<1> DEFINE status == IF \/ f # b /\ n = b
                        \/ (f # b <=> n # b) /\ f.renewed > n.renewed
                     THEN f.status ELSE n.status
           expires == Max({n.expires, f.expires})
           renewed == Max({n.renewed, f.renewed})
           m == [status |-> status, expires |-> expires, renewed |-> renewed]
<1>1. m = MergedProfile(n, f, b)
  BY DEF MergedProfile
<1>2. /\ n.expires \in Nat /\ f.expires \in Nat /\ b.expires \in Nat
      /\ n.renewed \in Nat /\ f.renewed \in Nat /\ b.renewed \in Nat
      /\ n.status \in {"active", "expired", "deleted"} /\ f.status \in {"active", "expired", "deleted"}
  BY DEF Profile
<1>3. /\ expires \in Nat /\ expires >= n.expires /\ expires >= f.expires
      /\ expires \in {n.expires, f.expires}
      /\ renewed \in Nat /\ renewed >= n.renewed /\ renewed >= f.renewed
      /\ renewed \in {n.renewed, f.renewed}
  <2> HIDE DEF status, m
  <2>1. /\ Max({n.expires, f.expires}) \in {n.expires, f.expires}
        /\ Max({n.expires, f.expires}) >= n.expires /\ Max({n.expires, f.expires}) >= f.expires
    <3>1. n.expires \in Int /\ f.expires \in Int
      BY <1>2
    <3> QED BY <3>1, MaxOfTwo
  <2>2. /\ Max({n.renewed, f.renewed}) \in {n.renewed, f.renewed}
        /\ Max({n.renewed, f.renewed}) >= n.renewed /\ Max({n.renewed, f.renewed}) >= f.renewed
    <3>1. n.renewed \in Int /\ f.renewed \in Int
      BY <1>2
    <3> QED BY <3>1, MaxOfTwo
  <2> QED BY <1>2, <2>1, <2>2
<1>4. Max({expires, f.expires}) = expires /\ Max({renewed, f.renewed}) = renewed
  <2>1. /\ Max({expires, f.expires}) \in {expires, f.expires}
        /\ Max({expires, f.expires}) >= expires /\ Max({expires, f.expires}) >= f.expires
    BY <1>2, <1>3, MaxOfTwo
  <2>2. /\ Max({renewed, f.renewed}) \in {renewed, f.renewed}
        /\ Max({renewed, f.renewed}) >= renewed /\ Max({renewed, f.renewed}) >= f.renewed
    BY <1>2, <1>3, MaxOfTwo
  <2> HIDE DEF expires, renewed
  <2> QED BY <1>2, <1>3, <2>1, <2>2
<1>5. status \in {f.status, n.status}
  OBVIOUS
<1>6. \A x, y \in Profile :
        x = y <=> x.status = y.status /\ x.expires = y.expires /\ x.renewed = y.renewed
  BY DEF Profile
<1>7. (IF \/ f # b /\ m = b
          \/ (f # b <=> m # b) /\ f.renewed > renewed
       THEN f.status ELSE status) = status
  <2>1. ~(f.renewed > renewed)
    <3> HIDE DEF renewed
    <3> QED BY <1>2, <1>3
  <2>2. CASE f # b /\ m = b
    <3>1. status = b.status /\ expires = b.expires /\ renewed = 0
      BY <2>2
    <3>2. n.renewed = 0 /\ n.expires = b.expires /\ f.renewed = 0 /\ f.expires = b.expires
      <4> HIDE DEF expires, renewed
      <4> QED BY <1>2, <1>3, <3>1
    <3>3. CASE status = f.status
      BY <2>1, <3>3
    <3>4. CASE status = n.status
      <4>1. n = b
        BY <1>6, <3>1, <3>2, <3>4
      <4>2. status = f.status
        BY <2>2, <4>1
      <4> QED BY <4>2
    <3> QED BY <1>5, <3>3, <3>4
  <2> QED BY <2>1, <2>2
<1>8. MergedProfile(m, f, b) = m
  <2>1. m.status = status /\ m.expires = expires /\ m.renewed = renewed
    OBVIOUS
  <2>2. MergedProfile(m, f, b) =
          [status |-> IF \/ f # b /\ m = b
                         \/ (f # b <=> m # b) /\ f.renewed > renewed
                      THEN f.status ELSE status,
           expires |-> Max({expires, f.expires}), renewed |-> Max({renewed, f.renewed})]
    <3> HIDE DEF status, expires, renewed
    <3> QED BY <2>1 DEF MergedProfile
  <2> HIDE DEF status, expires, renewed
  <2> QED BY <1>4, <1>7, <2>2
<1>9. m \in Profile
  <2> HIDE DEF status, expires, renewed
  <2> QED BY <1>2, <1>3, <1>5 DEF Profile
<1> QED BY <1>1, <1>8, <1>9


(* What holds of a node's database still does when a day passes and the other
   node refunds an order. *)
LEMMA NodeKept ==
  ASSUME NEW d, NEW other, NEW b, NEW taken, NEW t \in Nat, NodeInv(d, other, b, taken, t),
         NEW more, taken \subseteq more, NEW later \in Nat, later >= t
  PROVE  NodeInv(d, other, b, more, later)
<1>1. d.profile.renewed \in 0..later
  BY DEF NodeInv
<1>2. d.profile.status = "expired" => d.profile.expires <= later
  BY DEF NodeInv, Database
<1>3. \A o \in Ord \ more : b.order[o] = "delivered" => d.order[o] = "delivered"
  BY DEF NodeInv
<1>4. d.profile.status = "deleted" => more # {}
  BY DEF NodeInv
<1> QED BY <1>1, <1>2, <1>3, <1>4 DEF NodeInv

(* What a step to another status of one order does to the uses that are held. *)
LEMMA HeldAfter ==
  ASSUME NEW d \in Database, NEW o \in Ord, NEW status \in OrdStatus, NEW used \in Int,
         d.used >= Cardinality(Holders(d)),
         used - d.used >= Held(status) - Held(d.order[o]),
         NEW e \in Database, e.used = used, e.order = [d.order EXCEPT ![o] = status]
  PROVE  e.used >= Cardinality(Holders(e))
<1>1. \A x : Held(x) \in Int
  BY DEF Held
<1>2. Cardinality(Holders(d)) = Held(d.order["old"]) + Held(d.order["nl"]) + Held(d.order["fi"])
  BY HoldersCount
<1>3. Cardinality(Holders(e)) = Held(e.order["old"]) + Held(e.order["nl"]) + Held(e.order["fi"])
  BY HoldersCount
<1>4. d.order \in [Ord -> OrdStatus] /\ d.used \in Int
  BY DEF Database
<1>5. \A p \in Ord : e.order[p] = IF p = o THEN status ELSE d.order[p]
  BY <1>4
<1>6. Ord = {"old", "nl", "fi"}
  BY DEF Ord
<1>7. CASE o = "old"
  <2>1. e.order["old"] = status /\ e.order["nl"] = d.order["nl"] /\ e.order["fi"] = d.order["fi"]
    BY <1>5, <1>6, <1>7
  <2> QED BY <1>1, <1>2, <1>3, <1>4, <1>7, <2>1
<1>8. CASE o = "nl"
  <2>1. e.order["old"] = d.order["old"] /\ e.order["nl"] = status /\ e.order["fi"] = d.order["fi"]
    BY <1>5, <1>6, <1>8
  <2> QED BY <1>1, <1>2, <1>3, <1>4, <1>8, <2>1
<1>9. CASE o = "fi"
  <2>1. e.order["old"] = d.order["old"] /\ e.order["nl"] = d.order["nl"] /\ e.order["fi"] = status
    BY <1>5, <1>6, <1>9
  <2> QED BY <1>1, <1>2, <1>3, <1>4, <1>9, <2>1
<1> QED BY <1>6, <1>7, <1>8, <1>9

(* The fields of a database, and what a write leaves of them makes one again. *)
LEMMA DatabaseFields ==
  ASSUME NEW d \in Database
  PROVE  /\ DOMAIN d = {"order", "used", "profile", "client", "up"}
         /\ d.order \in [Ord -> OrdStatus] /\ d.used \in Int /\ d.profile \in Profile
         /\ d.client \in [enable : BOOLEAN, expiry : Nat] /\ d.up \in Nat
<1>1. d = [order |-> d.order, used |-> d.used, profile |-> d.profile,
           client |-> d.client, up |-> d.up]
  BY DEF Database
<1>2. DOMAIN d = {"order", "used", "profile", "client", "up"}
  BY <1>1
<1>3. d.order \in [Ord -> OrdStatus] /\ d.used \in Int /\ d.up \in Nat
  BY DEF Database
<1>4. d.profile \in Profile
  BY DEF Database, Profile
<1>5. d.client \in [enable : BOOLEAN, expiry : Nat]
  BY DEF Database
<1> QED BY <1>2, <1>3, <1>4, <1>5

(* A record of the right fields is a database. *)
LEMMA DatabaseOf ==
  ASSUME NEW e, DOMAIN e = {"order", "used", "profile", "client", "up"},
         e = [x \in DOMAIN e |-> e[x]],
         e.order \in [Ord -> OrdStatus], e.used \in Int, e.profile \in Profile,
         e.client \in [enable : BOOLEAN, expiry : Nat], e.up \in Nat
  PROVE  e \in Database
<1>1. e = [order |-> e.order, used |-> e.used, profile |-> e.profile, client |-> e.client, up |-> e.up]
  OBVIOUS
<1> QED BY <1>1 DEF Database, Profile

(* The writes to an order alone: it is taken, claimed or cancelled. *)
LEMMA OrderWrite ==
  ASSUME NEW d, NEW other \in Side, NEW b, NEW taken, NEW t \in Nat,
         NodeInv(d, other, b, taken, t), NEW o \in Ord \ {other}, NEW status, NEW change,
         \/ o \in Side /\ d.order[o] = "none" /\ status = "waiting" /\ change = 1
         \/ d.order[o] = "waiting" /\ status = "provisioning" /\ change = 0
         \/ d.order[o] = "waiting" /\ status = "cancelled" /\ change = -1
  PROVE  NodeInv([d EXCEPT !.order[o] = status, !.used = @ + change], other, b, taken, t)
<1> DEFINE e == [d EXCEPT !.order[o] = status, !.used = @ + change]
<1>1. d \in Database /\ d.order \in [Ord -> OrdStatus] /\ d.used \in Int
  BY DEF NodeInv, Database
<1>2. status \in OrdStatus /\ change \in Int /\ status \notin {"none", "delivered"} /\ d.order[o] # "delivered"
  BY DEF OrdStatus
<1>3. /\ e.order = [d.order EXCEPT ![o] = status] /\ e.used = d.used + change
      /\ e.profile = d.profile /\ e.client = d.client
  BY <1>1 DEF Database
<1>4. e \in Database
  <2>1. DOMAIN e = DOMAIN d /\ e = [x \in DOMAIN e |-> e[x]] /\ e.up = d.up
    BY <1>1, DatabaseFields
  <2>3. DOMAIN d = {"order", "used", "profile", "client", "up"} /\ d.profile \in Profile
        /\ d.client \in [enable : BOOLEAN, expiry : Nat] /\ d.up \in Nat
    BY <1>1, DatabaseFields
  <2>2. [d.order EXCEPT ![o] = status] \in [Ord -> OrdStatus] /\ d.used + change \in Int
    BY <1>1, <1>2
  <2> HIDE DEF e
  <2> QED BY <1>3, <2>1, <2>2, <2>3, DatabaseOf
<1>5. \A p \in Ord : e.order[p] = IF p = o THEN status ELSE d.order[p]
  BY <1>1, <1>3
<1>6. change >= Held(status) - Held(d.order[o])
  BY DEF Held
<1>7. d.used >= Cardinality(Holders(d))
  BY DEF NodeInv
<1>8. e.used >= Cardinality(Holders(e))
  <2>1. \A x : Held(x) \in Int
    BY DEF Held
  <2>2. d.used + change - d.used >= Held(status) - Held(d.order[o]) /\ d.used + change \in Int
    BY <1>1, <1>2, <1>6, <2>1
  <2> HIDE DEF e
  <2> QED BY <1>1, <1>2, <1>3, <1>4, <1>7, <2>2, HeldAfter
<1>9. e.order[other] = "none" /\ e.order["old"] # "none"
  <2>1. other \in Ord /\ "old" \in Ord
    BY DEF Ord, Side
  <2> HIDE DEF e
  <2> QED BY <1>2, <1>5, <2>1 DEF NodeInv
<1>10. \A p \in Ord \ taken : b.order[p] = "delivered" => e.order[p] = "delivered"
  <2> HIDE DEF e
  <2> QED BY <1>2, <1>5 DEF NodeInv
<1> HIDE DEF e
<1>11. NodeInv(e, other, b, taken, t)
  BY <1>3, <1>4, <1>8, <1>9, <1>10 DEF NodeInv
<1> QED BY <1>11 DEF e


(* A renewal is delivered: the profile gets a period from the day or from its
   end on. *)
LEMMA DeliveryWrite ==
  ASSUME NEW d, NEW other \in Side, NEW b \in Database, NEW taken, NEW t \in Nat \ {0},
         NodeInv(d, other, b, taken, t), NEW o \in Ord \ {other}, d.order[o] = "provisioning",
         NEW expires, expires = Max({d.profile.expires, t}) + RenewalDays
  PROVE  NodeInv([d EXCEPT !.order[o] = "delivered",
                           !.profile = [status |-> "active", expires |-> expires, renewed |-> t],
                           !.client = [enable |-> TRUE, expiry |-> expires]],
                 other, b, taken, t)
<1> DEFINE profile == [status |-> "active", expires |-> expires, renewed |-> t]
           client == [enable |-> TRUE, expiry |-> expires]
           e == [d EXCEPT !.order[o] = "delivered", !.profile = profile, !.client = client]
<1>1. d \in Database /\ d.order \in [Ord -> OrdStatus] /\ d.used \in Int
  BY DEF NodeInv, Database
<1>2. DOMAIN d = {"order", "used", "profile", "client", "up"} /\ d.up \in Nat /\ d.profile \in Profile
  BY <1>1, DatabaseFields
<1>3. expires \in Nat /\ expires >= d.profile.expires + RenewalDays /\ expires >= t + RenewalDays
  <2>1. d.profile.expires \in Nat /\ d.profile.expires \in Int /\ t \in Int
    BY <1>2 DEF Profile
  <2>2. /\ Max({d.profile.expires, t}) \in {d.profile.expires, t}
        /\ Max({d.profile.expires, t}) >= d.profile.expires /\ Max({d.profile.expires, t}) >= t
    BY <2>1, MaxOfTwo
  <2> QED BY <2>1, <2>2, FailbackAssumption
<1>4. /\ e.order = [d.order EXCEPT ![o] = "delivered"] /\ e.used = d.used
      /\ e.profile = profile /\ e.client = client /\ e.up = d.up
  BY <1>1, <1>2
<1>5. DOMAIN e = DOMAIN d /\ e = [x \in DOMAIN e |-> e[x]]
  BY <1>2
<1>6. [d.order EXCEPT ![o] = "delivered"] \in [Ord -> OrdStatus]
  BY <1>1 DEF OrdStatus
<1>7. profile \in Profile /\ client \in [enable : BOOLEAN, expiry : Nat]
  BY <1>3 DEF Profile
<1>8. profile.status = "active" /\ profile.expires = expires /\ profile.renewed = t /\ client.enable = TRUE
  OBVIOUS
<1> HIDE DEF e, profile, client
<1>9. e \in Database
  BY <1>1, <1>2, <1>4, <1>5, <1>6, <1>7, DatabaseOf
<1>10. \A p \in Ord : e.order[p] = IF p = o THEN "delivered" ELSE d.order[p]
  BY <1>1, <1>4
<1>11. e.used >= Cardinality(Holders(e))
  <2>1. "delivered" \in OrdStatus /\ d.used >= Cardinality(Holders(d))
    BY DEF OrdStatus, NodeInv
  <2>2. d.used - d.used >= Held("delivered") - Held(d.order[o])
    BY <1>1 DEF Held
  <2> QED BY <1>1, <1>4, <1>9, <2>1, <2>2, HeldAfter
<1>12. e.order[other] = "none" /\ e.order["old"] # "none"
  <2>1. other \in Ord /\ "old" \in Ord
    BY DEF Ord, Side
  <2> QED BY <1>10, <2>1 DEF NodeInv
<1>13. \A p \in Ord \ taken : b.order[p] = "delivered" => e.order[p] = "delivered"
  BY <1>10 DEF NodeInv
<1>14. /\ e.profile.expires >= b.profile.expires /\ e.profile.renewed \in 0..t
       /\ e.profile.renewed # 0 /\ e.profile.expires >= e.profile.renewed + RenewalDays
       /\ e.profile.status = "active"
  <2>1. d.profile.expires \in Nat /\ b.profile.expires \in Nat
    BY <1>2, DatabaseFields DEF Profile
  <2>2. d.profile.expires >= b.profile.expires
    BY DEF NodeInv
  <2> QED BY <1>3, <1>4, <1>8, <2>1, <2>2, FailbackAssumption
<1>15. e.client.enable
  BY <1>4, <1>8
<1>16. NodeInv(e, other, b, taken, t)
  BY <1>9, <1>11, <1>12, <1>13, <1>14, <1>15 DEF NodeInv
<1> QED BY <1>16 DEF e, profile, client

(* A refund takes the profile and its client, the reaper ends a profile whose
   time is over, and traffic changes nothing that counts here. *)
LEMMA OtherWrite ==
  ASSUME NEW d, NEW other \in Side, NEW b \in Database, NEW taken, NEW t \in Nat,
         NodeInv(d, other, b, taken, t)
  PROVE  /\ \A o \in Ord : d.order[o] = "delivered" =>
              NodeInv([d EXCEPT !.order[o] = "cancelled", !.profile.status = "deleted",
                                !.client.enable = FALSE], other, b, taken \cup {o}, t)
         /\ d.profile.expires <= t =>
              NodeInv([d EXCEPT !.profile.status = "expired", !.client.enable = FALSE],
                      other, b, taken, t)
         /\ NodeInv([d EXCEPT !.up = @ + 1], other, b, taken, t)
<1>1. /\ DOMAIN d = {"order", "used", "profile", "client", "up"}
      /\ d.order \in [Ord -> OrdStatus] /\ d.used \in Int /\ d.profile \in Profile
      /\ d.client \in [enable : BOOLEAN, expiry : Nat] /\ d.up \in Nat /\ d \in Database
  BY DatabaseFields DEF NodeInv
<1>2. ASSUME NEW status \in {"expired", "deleted"}
      PROVE  LET profile == [d.profile EXCEPT !.status = status]
                 client == [d.client EXCEPT !.enable = FALSE]
             IN /\ profile \in Profile /\ profile.status = status
                /\ profile.expires = d.profile.expires /\ profile.renewed = d.profile.renewed
                /\ client \in [enable : BOOLEAN, expiry : Nat] /\ client.enable = FALSE
  BY <1>1 DEF Profile
<1>3. ASSUME NEW o \in Ord, d.order[o] = "delivered"
      PROVE  NodeInv([d EXCEPT !.order[o] = "cancelled", !.profile.status = "deleted",
                               !.client.enable = FALSE], other, b, taken \cup {o}, t)
  <2> DEFINE e == [d EXCEPT !.order[o] = "cancelled", !.profile.status = "deleted",
                            !.client.enable = FALSE]
  <2>1. /\ e.order = [d.order EXCEPT ![o] = "cancelled"] /\ e.used = d.used /\ e.up = d.up
        /\ e.profile = [d.profile EXCEPT !.status = "deleted"]
        /\ e.client = [d.client EXCEPT !.enable = FALSE]
    BY <1>1
  <2>2. DOMAIN e = DOMAIN d /\ e = [x \in DOMAIN e |-> e[x]]
    BY <1>1
  <2> HIDE DEF e
  <2>3. [d.order EXCEPT ![o] = "cancelled"] \in [Ord -> OrdStatus]
    BY <1>1 DEF OrdStatus
  <2>4. /\ e.profile \in Profile /\ e.profile.status = "deleted"
        /\ e.profile.expires = d.profile.expires /\ e.profile.renewed = d.profile.renewed
        /\ e.client \in [enable : BOOLEAN, expiry : Nat] /\ e.client.enable = FALSE
    BY <1>2, <2>1
  <2>5. e \in Database
    BY <1>1, <2>1, <2>2, <2>3, <2>4, DatabaseOf
  <2>6. \A p \in Ord : e.order[p] = IF p = o THEN "cancelled" ELSE d.order[p]
    BY <1>1, <2>1
  <2>7. e.used >= Cardinality(Holders(e))
    <3>1. "cancelled" \in OrdStatus /\ d.used >= Cardinality(Holders(d))
      BY DEF OrdStatus, NodeInv
    <3>2. d.used - d.used >= Held("cancelled") - Held(d.order[o])
      BY <1>1 DEF Held
    <3> QED BY <1>1, <2>1, <2>5, <3>1, <3>2, HeldAfter
  <2>8. e.order[other] = "none" /\ e.order["old"] # "none"
    <3>1. other \in Ord /\ "old" \in Ord
      BY DEF Ord, Side
    <3> QED BY <1>3, <2>6, <3>1 DEF NodeInv
  <2>9. \A p \in Ord \ (taken \cup {o}) : b.order[p] = "delivered" => e.order[p] = "delivered"
    BY <2>6 DEF NodeInv
  <2>10. NodeInv(e, other, b, taken \cup {o}, t)
    BY <2>4, <2>5, <2>7, <2>8, <2>9 DEF NodeInv
  <2> QED BY <2>10 DEF e
<1>4. ASSUME d.profile.expires <= t
      PROVE  NodeInv([d EXCEPT !.profile.status = "expired", !.client.enable = FALSE],
                     other, b, taken, t)
  <2> DEFINE e == [d EXCEPT !.profile.status = "expired", !.client.enable = FALSE]
  <2>1. /\ e.order = d.order /\ e.used = d.used /\ e.up = d.up
        /\ e.profile = [d.profile EXCEPT !.status = "expired"]
        /\ e.client = [d.client EXCEPT !.enable = FALSE]
    BY <1>1
  <2>2. DOMAIN e = DOMAIN d /\ e = [x \in DOMAIN e |-> e[x]]
    BY <1>1
  <2> HIDE DEF e
  <2>3. /\ e.profile \in Profile /\ e.profile.status = "expired"
        /\ e.profile.expires = d.profile.expires /\ e.profile.renewed = d.profile.renewed
        /\ e.client \in [enable : BOOLEAN, expiry : Nat] /\ e.client.enable = FALSE
    BY <1>2, <2>1
  <2>4. e \in Database
    BY <1>1, <2>1, <2>2, <2>3, DatabaseOf
  <2>5. NodeInv(e, other, b, taken, t)
    BY <1>4, <2>1, <2>3, <2>4 DEF NodeInv, Holders
  <2> QED BY <2>5 DEF e
<1>5. NodeInv([d EXCEPT !.up = @ + 1], other, b, taken, t)
  <2> DEFINE e == [d EXCEPT !.up = @ + 1]
  <2>1. /\ e.order = d.order /\ e.used = d.used /\ e.up = d.up + 1
        /\ e.profile = d.profile /\ e.client = d.client
    BY <1>1
  <2>2. DOMAIN e = DOMAIN d /\ e = [x \in DOMAIN e |-> e[x]]
    BY <1>1
  <2> HIDE DEF e
  <2>3. e \in Database
    BY <1>1, <2>1, <2>2, DatabaseOf
  <2>4. NodeInv(e, other, b, taken, t)
    BY <2>1, <2>3 DEF NodeInv, Holders
  <2> QED BY <2>4 DEF e
<1> QED BY <1>3, <1>4, <1>5


(* The snapshot the nodes start from. *)
LEMMA SnapshotFacts ==
  ASSUME FailbackInv
  PROVE  /\ base \in Database
         /\ base.order["old"] \in {"waiting", "delivered"}
         /\ base.order["nl"] = "none" /\ base.order["fi"] = "none"
         /\ base.used = 1 /\ base.profile.status = "active" /\ base.profile.renewed = 0
         /\ base.client.enable = TRUE /\ base.up = 1
<1>1. PICK status \in {"waiting", "delivered"}, expires \in Nat : base = SnapshotWith(status, expires)
  BY DEF FailbackInv
<1>2. [o \in Ord |-> IF o = "old" THEN status ELSE "none"] \in [Ord -> OrdStatus]
  BY <1>1 DEF Ord, OrdStatus
<1>3. base.order = [o \in Ord |-> IF o = "old" THEN status ELSE "none"]
  BY <1>1 DEF SnapshotWith
<1>4. /\ DOMAIN base = {"order", "used", "profile", "client", "up"}
      /\ base = [x \in DOMAIN base |-> base[x]]
  BY <1>1 DEF SnapshotWith
<1>5. /\ base.used = 1 /\ base.profile = [status |-> "active", expires |-> expires, renewed |-> 0]
      /\ base.client = [enable |-> TRUE, expiry |-> expires] /\ base.up = 1
  BY <1>1 DEF SnapshotWith
<1>6. base.profile \in Profile /\ base.client \in [enable : BOOLEAN, expiry : Nat]
  BY <1>1, <1>5 DEF Profile
<1>7. base \in Database
  <2>1. base.order \in [Ord -> OrdStatus] /\ base.used \in Int /\ base.up \in Nat
    BY <1>2, <1>3, <1>5
  <2> QED BY <1>4, <1>6, <2>1, DatabaseOf
<1>8. "old" \in Ord /\ "nl" \in Ord /\ "fi" \in Ord
  BY DEF Ord
<1> QED BY <1>1, <1>3, <1>5, <1>7, <1>8

(* The node that is served writes into its own database. *)
Other(s) == IF s = "nl" THEN "fi" ELSE "nl"

(* A write that keeps what is known of its node keeps all, since no merge
   has run before it and none runs meanwhile. *)
LEMMA NodeWritesStep ==
  ASSUME FailbackInv, NEW s \in Side, NEW d, NodeWrites(s, d),
         refunded' \subseteq Ord, refunded \subseteq refunded',
         NodeInv(d, Other(s), base, refunded', day)
  PROVE  FailbackInv'
<1>1. /\ base' = base /\ before' = before /\ pipeline' = pipeline /\ merges' = merges /\ day' = day
      /\ db' = [db EXCEPT ![s] = d] /\ pipeline \in Running
  BY DEF NodeWrites, Serving, Running
<1>2. merges = 0
  BY <1>1 DEF FailbackInv, MergeInv
<1>3. db = [x \in Side |-> db[x]] /\ day \in Nat /\ day \in 1..LastDay
  BY FailbackAssumption DEF FailbackInv
<1>4. db' = [x \in Side |-> IF x = s THEN d ELSE db[x]] /\ db' = [x \in Side |-> db'[x]]
  BY <1>1, <1>3
<1>5. NodeInv(db["nl"], "fi", base, refunded, day) /\ NodeInv(db["fi"], "nl", base, refunded, day)
  BY <1>1 DEF FailbackInv, Own
<1>6. NodeInv(db["nl"], "fi", base, refunded', day) /\ NodeInv(db["fi"], "nl", base, refunded', day)
  BY <1>3, <1>5, NodeKept
<1>7. NodeInv(db'["nl"], "fi", base, refunded', day) /\ NodeInv(db'["fi"], "nl", base, refunded', day)
  BY <1>4, <1>6 DEF Other, Side
<1>8. NodeInv(Own, "fi", base, refunded, day)' /\ NodeInv(db["fi"], "nl", base, refunded, day)'
  BY <1>1, <1>7 DEF Own, NodeInv
<1>9. db'["nl"] \in Database
  BY <1>7 DEF NodeInv
<1>10. MergeInv'
  BY <1>1, <1>2, <1>9 DEF MergeInv, Running
<1> QED BY <1>1, <1>3, <1>4, <1>8, <1>10 DEF FailbackInv

(* Each write of a node keeps the invariant. *)
LEMMA WriteSteps ==
  ASSUME FailbackInv, NEW s \in Side,
         \/ TakeOrder(s) \/ ReapProfile(s) \/ UseTraffic(s)
         \/ \E o \in Ord : ClaimOrder(s, o) \/ DeliverRenewal(s, o) \/ CancelOrder(s, o)
                           \/ RefundOrder(s, o)
  PROVE  FailbackInv'
<1>1. Serving(s)
  BY DEF TakeOrder, ReapProfile, UseTraffic, ClaimOrder, DeliverRenewal, CancelOrder, RefundOrder, NodeWrites
<1>2. PICK d : d = db[s]
  OBVIOUS
<1>3. NodeInv(d, Other(s), base, refunded, day)
  BY <1>1, <1>2 DEF FailbackInv, Own, Other, Serving, Running, Side
<1>4. /\ Other(s) \in Side /\ s # Other(s) /\ day \in Nat \ {0} /\ base \in Database
      /\ refunded \subseteq Ord /\ s \in Ord
  <2>1. Other(s) \in Side /\ s # Other(s) /\ s \in Ord
    BY DEF Other, Side, Ord
  <2>2. base \in Database
    BY SnapshotFacts
  <2>3. refunded \subseteq Ord /\ day \in 1..LastDay
    BY DEF FailbackInv
  <2>4. day \in Nat \ {0}
    BY <2>3, FailbackAssumption
  <2> QED BY <2>1, <2>2, <2>3, <2>4
<1>5. \A o \in Ord : d.order[o] # "none" => o \in Ord \ {Other(s)}
  BY <1>3 DEF NodeInv
<1>6. CASE TakeOrder(s)
  <2>1. PICK e : e = [d EXCEPT !.order[s] = "waiting", !.used = @ + 1]
    OBVIOUS
  <2>2. NodeWrites(s, e) /\ d.order[s] = "none" /\ refunded' = refunded
    BY <1>2, <1>6, <2>1 DEF TakeOrder
  <2>3. NodeInv(e, Other(s), base, refunded, day)
    BY <1>3, <1>4, <2>1, <2>2, OrderWrite
  <2> QED BY <1>4, <2>2, <2>3, NodeWritesStep
<1>7. ASSUME NEW o \in Ord, ClaimOrder(s, o)
      PROVE  FailbackInv'
  <2>1. PICK e : e = [d EXCEPT !.order[o] = "provisioning"]
    OBVIOUS
  <2>2. NodeWrites(s, e) /\ d.order[o] = "waiting" /\ refunded' = refunded
    BY <1>2, <1>7, <2>1 DEF ClaimOrder
  <2>3. e = [d EXCEPT !.order[o] = "provisioning", !.used = @ + 0]
    <3>1. d \in Database
      BY <1>3 DEF NodeInv
    <3>2. d.used + 0 = d.used /\ DOMAIN d = {"order", "used", "profile", "client", "up"}
      BY <3>1, DatabaseFields
    <3> QED BY <2>1, <3>2
  <2>4. NodeInv(e, Other(s), base, refunded, day)
    BY <1>3, <1>4, <1>5, <2>2, <2>3, OrderWrite
  <2> QED BY <1>4, <2>2, <2>4, NodeWritesStep
<1>8. ASSUME NEW o \in Ord, DeliverRenewal(s, o)
      PROVE  FailbackInv'
  <2>1. PICK expires : expires = Max({d.profile.expires, day}) + RenewalDays
    OBVIOUS
  <2>2. PICK t : t = day
    OBVIOUS
  <2>3. PICK e : e = [d EXCEPT !.order[o] = "delivered",
                               !.profile = [status |-> "active", expires |-> expires, renewed |-> t],
                               !.client = [enable |-> TRUE, expiry |-> expires]]
    OBVIOUS
  <2>4. NodeWrites(s, e) /\ d.order[o] = "provisioning" /\ refunded' = refunded
    BY <1>2, <1>8, <2>1, <2>2, <2>3 DEF DeliverRenewal
  <2>5. NodeInv(e, Other(s), base, refunded, t)
    BY <1>3, <1>4, <1>5, <2>1, <2>2, <2>3, <2>4, DeliveryWrite
  <2> QED BY <1>4, <2>2, <2>4, <2>5, NodeWritesStep
<1>9. ASSUME NEW o \in Ord, CancelOrder(s, o)
      PROVE  FailbackInv'
  <2>1. PICK e : e = [d EXCEPT !.order[o] = "cancelled", !.used = @ - 1]
    OBVIOUS
  <2>2. NodeWrites(s, e) /\ d.order[o] = "waiting" /\ refunded' = refunded
    BY <1>2, <1>9, <2>1 DEF CancelOrder
  <2>3. e = [d EXCEPT !.order[o] = "cancelled", !.used = @ + (-1)]
    <3>1. d \in Database
      BY <1>3 DEF NodeInv
    <3>2. d.used - 1 = d.used + (-1) /\ DOMAIN d = {"order", "used", "profile", "client", "up"}
      BY <3>1, DatabaseFields
    <3> QED BY <2>1, <3>2
  <2>4. NodeInv(e, Other(s), base, refunded, day)
    BY <1>3, <1>4, <1>5, <2>2, <2>3, OrderWrite
  <2> QED BY <1>4, <2>2, <2>4, NodeWritesStep
<1>10. ASSUME NEW o \in Ord, RefundOrder(s, o)
       PROVE  FailbackInv'
  <2>1. PICK e : e = [d EXCEPT !.order[o] = "cancelled", !.profile.status = "deleted",
                               !.client.enable = FALSE]
    OBVIOUS
  <2>2. NodeWrites(s, e) /\ d.order[o] = "delivered" /\ refunded' = refunded \cup {o}
    BY <1>2, <1>10, <2>1 DEF RefundOrder
  <2>3. NodeInv(e, Other(s), base, refunded \cup {o}, day)
    BY <1>3, <1>4, <2>1, <2>2, OtherWrite
  <2>4. refunded' \subseteq Ord /\ refunded \subseteq refunded'
    BY <1>4, <2>2
  <2> QED BY <2>2, <2>3, <2>4, NodeWritesStep
<1>11. CASE ReapProfile(s)
  <2>1. PICK e : e = [d EXCEPT !.profile.status = "expired", !.client.enable = FALSE]
    OBVIOUS
  <2>2. NodeWrites(s, e) /\ d.profile.expires <= day /\ refunded' = refunded
    BY <1>2, <1>11, <2>1 DEF ReapProfile
  <2>3. NodeInv(e, Other(s), base, refunded, day)
    BY <1>3, <1>4, <2>1, <2>2, OtherWrite
  <2> QED BY <1>4, <2>2, <2>3, NodeWritesStep
<1>12. CASE UseTraffic(s)
  <2>1. PICK e : e = [d EXCEPT !.up = @ + 1]
    OBVIOUS
  <2>2. NodeWrites(s, e) /\ refunded' = refunded
    BY <1>2, <1>12, <2>1 DEF UseTraffic
  <2>3. NodeInv(e, Other(s), base, refunded, day)
    BY <1>3, <1>4, <2>1, <2>2, OtherWrite
  <2> QED BY <1>4, <2>2, <2>3, NodeWritesStep
<1> QED BY <1>6, <1>7, <1>8, <1>9, <1>10, <1>11, <1>12


(* A first merge counts the uses of both nodes once. *)
LEMMA UsesMerged ==
  ASSUME NEW n \in Database, NEW f \in Database, NEW b \in Database, NEW taken, NEW t,
         NodeInv(n, "fi", b, taken, t), NodeInv(f, "nl", b, taken, t),
         b.order["old"] \in {"waiting", "delivered"}, b.used = 1,
         b.order["old"] \in {n.order["old"], f.order["old"]},
         NEW m, m.used = MergedCount(n.used, f.used, b.used),
         \A o \in Ord : m.order[o] = MergedOrder(n.order[o], f.order[o], b.order[o])
  PROVE  m.used >= Cardinality(Holders(m))
<1>1. \A x : Held(x) \in Int /\ Held(x) >= 0 /\ Held(x) =< 1
  BY DEF Held
<1>2. Held("none") = 0 /\ Held(b.order["old"]) = 1
  BY DEF Held
<1>3. n.used \in Int /\ f.used \in Int
  BY DatabaseFields
<1>4. n.used >= Held(n.order["old"]) + Held(n.order["nl"])
  <2>1. n.used >= Cardinality(Holders(n)) /\ n.order["fi"] = "none"
    BY DEF NodeInv
  <2>2. Cardinality(Holders(n)) = Held(n.order["old"]) + Held(n.order["nl"]) + Held(n.order["fi"])
    BY HoldersCount
  <2> QED BY <1>1, <1>2, <2>1, <2>2
<1>5. f.used >= Held(f.order["old"]) + Held(f.order["fi"])
  <2>1. f.used >= Cardinality(Holders(f)) /\ f.order["nl"] = "none"
    BY DEF NodeInv
  <2>2. Cardinality(Holders(f)) = Held(f.order["old"]) + Held(f.order["nl"]) + Held(f.order["fi"])
    BY HoldersCount
  <2> QED BY <1>1, <1>2, <2>1, <2>2
<1>6. m.used \in Int /\ m.used >= n.used /\ m.used >= n.used + (f.used - 1)
  <2>1. /\ Max({0, f.used - 1}) \in {0, f.used - 1}
        /\ Max({0, f.used - 1}) >= 0 /\ Max({0, f.used - 1}) >= f.used - 1
    <3>1. 0 \in Int /\ f.used - 1 \in Int
      BY <1>3
    <3> QED BY <3>1, MaxOfTwo
  <2>2. m.used = n.used + Max({0, f.used - 1})
    BY DEF MergedCount
  <2> QED BY <1>3, <2>1, <2>2
<1>7. m.order["nl"] = n.order["nl"] /\ m.order["fi"] = f.order["fi"]
  <2>1. "nl" \in Ord /\ "fi" \in Ord /\ n.order["fi"] = "none" /\ f.order["nl"] = "none"
    BY DEF Ord, NodeInv
  <2> QED BY <2>1 DEF MergedOrder
<1>8. /\ b.order["old"] = f.order["old"] => m.order["old"] = n.order["old"]
      /\ b.order["old"] = n.order["old"] => m.order["old"] = f.order["old"]
  <2>1. "old" \in Ord /\ n.order["old"] # "none" /\ f.order["old"] # "none"
    BY DEF Ord, NodeInv
  <2>2. CASE n.order["old"] = f.order["old"]
    BY <2>1, <2>2 DEF MergedOrder
  <2>3. CASE n.order["old"] # f.order["old"]
    BY <2>1, <2>3 DEF MergedOrder
  <2> QED BY <2>2, <2>3
<1>9. Cardinality(Holders(m)) = Held(m.order["old"]) + Held(n.order["nl"]) + Held(f.order["fi"])
  BY <1>7, HoldersCount
<1>10. CASE b.order["old"] = f.order["old"]
  BY <1>1, <1>2, <1>3, <1>4, <1>5, <1>6, <1>8, <1>9, <1>10
<1>11. CASE b.order["old"] = n.order["old"]
  BY <1>1, <1>2, <1>3, <1>4, <1>5, <1>6, <1>8, <1>9, <1>11
<1> QED BY <1>10, <1>11

(* What the two merges find: a primary that was merged into never or already. *)
LEMMA NodesFacts ==
  ASSUME FailbackInv, pipeline \notin Running
  PROVE  /\ before \in Database /\ db["fi"] \in Database /\ db["nl"] \in Database
         /\ NodeInv(before, "fi", base, refunded, day) /\ NodeInv(db["fi"], "nl", base, refunded, day)
<1>1. NodeInv(before, "fi", base, refunded, day) /\ NodeInv(db["fi"], "nl", base, refunded, day)
  BY DEF FailbackInv, Own
<1> QED BY <1>1 DEF NodeInv, FailbackInv, MergeInv

(* The merge of vpn_shop.db commits, the first time or again. *)
LEMMA VpnMergeStep ==
  ASSUME FailbackInv, pipeline = "vpn", NEW m,
         m = [db["nl"] EXCEPT
                !.order = [o \in Ord |-> MergedOrder(db["nl"].order[o], db["fi"].order[o], base.order[o])],
                !.used = MergedCount(db["nl"].used, db["fi"].used, base.used),
                !.profile = MergedProfile(db["nl"].profile, db["fi"].profile, base.profile)]
  PROVE  /\ m \in Database /\ m.client = db["nl"].client
         /\ \A o \in Ord : m.order[o] = Merged(o)
         /\ OneSided => m.used >= Cardinality(Holders(m))
         /\ m.profile = MergedProfile(before.profile, db["fi"].profile, base.profile)
<1>1. PICK n, f, b, p : n = db["nl"] /\ f = db["fi"] /\ b = base /\ p = before
  OBVIOUS
<1>2. /\ n \in Database /\ f \in Database /\ b \in Database /\ p \in Database
      /\ NodeInv(p, "fi", b, refunded, day) /\ NodeInv(f, "nl", b, refunded, day)
      /\ b.order["old"] \in {"waiting", "delivered"} /\ b.used = 1 /\ b.profile.renewed = 0
  BY <1>1, NodesFacts, SnapshotFacts DEF Running
<1>3. /\ m = [n EXCEPT
                !.order = [o \in Ord |-> MergedOrder(n.order[o], f.order[o], b.order[o])],
                !.used = MergedCount(n.used, f.used, b.used),
                !.profile = MergedProfile(n.profile, f.profile, b.profile)]
      /\ merges \in Nat
  BY <1>1 DEF FailbackInv
<1>4. /\ DOMAIN n = {"order", "used", "profile", "client", "up"}
      /\ n.order \in [Ord -> OrdStatus] /\ n.used \in Int /\ n.profile \in Profile
      /\ n.client \in [enable : BOOLEAN, expiry : Nat] /\ n.up \in Nat
      /\ f.order \in [Ord -> OrdStatus] /\ f.used \in Int /\ f.profile \in Profile
      /\ b.order \in [Ord -> OrdStatus] /\ b.used \in Int /\ b.profile \in Profile
      /\ p.order \in [Ord -> OrdStatus] /\ p.profile \in Profile
  BY <1>2, DatabaseFields
<1>5. /\ m.order = [o \in Ord |-> MergedOrder(n.order[o], f.order[o], b.order[o])]
      /\ m.used = MergedCount(n.used, f.used, b.used)
      /\ m.profile = MergedProfile(n.profile, f.profile, b.profile)
      /\ m.client = n.client /\ m.up = n.up
      /\ DOMAIN m = DOMAIN n /\ m = [x \in DOMAIN m |-> m[x]]
  BY <1>3, <1>4
<1>6. \A o \in Ord : m.order[o] = MergedOrder(n.order[o], f.order[o], b.order[o])
  <2>1. m.order = [o \in Ord |-> MergedOrder(n.order[o], f.order[o], b.order[o])]
    BY <1>5
  <2> QED BY <2>1
<1>7. n.used + Max({0, f.used - b.used}) = m.used /\ m.used \in Int /\ m.used >= n.used
  <2>1. /\ Max({0, f.used - b.used}) \in {0, f.used - b.used} /\ Max({0, f.used - b.used}) >= 0
    <3>1. 0 \in Int /\ f.used - b.used \in Int
      BY <1>4
    <3> QED BY <3>1, MaxOfTwo
  <2>2. m.used = n.used + Max({0, f.used - b.used})
    BY <1>5 DEF MergedCount
  <2>3. n.used \in Int /\ f.used \in Int /\ b.used \in Int
    BY <1>4
  <2> QED BY <2>1, <2>2, <2>3
<1>8. /\ f.profile.expires >= b.profile.expires
      /\ p.profile.expires >= b.profile.expires
      /\ p.profile.renewed = 0 => p.profile.expires = b.profile.expires
  BY <1>2 DEF NodeInv
<1>9. /\ MergedProfile(p.profile, f.profile, b.profile) \in Profile
      /\ MergedProfile(MergedProfile(p.profile, f.profile, b.profile), f.profile, b.profile)
           = MergedProfile(p.profile, f.profile, b.profile)
  BY <1>2, <1>4, <1>8, MergeProfileTwice
<1>10. m.profile = MergedProfile(p.profile, f.profile, b.profile)
  <2>1. CASE merges = 0
    BY <1>1, <1>5, <2>1 DEF FailbackInv, MergeInv, Running
  <2>2. CASE merges > 0
    <3>1. n.profile = MergedProfile(p.profile, f.profile, b.profile)
      BY <1>1, <2>2 DEF FailbackInv, MergeInv
    <3> QED BY <1>5, <1>9, <3>1
  <2> QED BY <1>3, <2>1, <2>2
<1>11. \A o \in Ord : m.order[o] = MergedOrder(p.order[o], f.order[o], b.order[o])
  <2>1. CASE merges = 0
    BY <1>1, <1>6, <2>1 DEF FailbackInv, MergeInv, Running
  <2>2. CASE merges > 0
    <3>1. \A o \in Ord : n.order[o] = MergedOrder(p.order[o], f.order[o], b.order[o])
      BY <1>1, <2>2 DEF FailbackInv, MergeInv, Merged
    <3> QED BY <1>4, <1>6, <3>1, MergeTwice
  <2> QED BY <1>3, <2>1, <2>2
<1>12. ASSUME OneSided
       PROVE  m.used >= Cardinality(Holders(m))
  <2>1. CASE merges = 0
    <3>1. n.used = p.used /\ n.order = p.order
      BY <1>1, <2>1 DEF FailbackInv, MergeInv, Running
    <3>2. b.order["old"] \in {p.order["old"], f.order["old"]}
      BY <1>1, <1>12 DEF OneSided, Ord
    <3>3. m.used = MergedCount(p.used, f.used, b.used)
      BY <1>5, <3>1
    <3>4. PICK taken, t : NodeInv(p, "fi", b, taken, t) /\ NodeInv(f, "nl", b, taken, t)
      BY <1>2
    <3> QED BY <1>2, <1>11, <3>2, <3>3, <3>4, UsesMerged, ZenonT(60)
  <2>2. CASE merges > 0
    <3>1. n.used >= Cardinality(Holders(n))
      BY <1>1, <1>12, <2>2 DEF FailbackInv, MergeInv
    <3>2. \A o \in Ord : n.order[o] = m.order[o]
      BY <1>1, <1>11, <2>2 DEF FailbackInv, MergeInv, Merged
    <3>3. Holders(n) = Holders(m)
      BY <3>2 DEF Holders
    <3>4. Cardinality(Holders(n)) \in Int
      <4>1. \A x : Held(x) \in Int
        BY DEF Held
      <4> QED BY <4>1, HoldersCount
    <3> QED BY <1>4, <1>7, <3>1, <3>3, <3>4
  <2> QED BY <1>3, <2>1, <2>2
<1>13. m \in Database
  <2>1. m.order \in [Ord -> OrdStatus]
    <3>1. \A o \in Ord : MergedOrder(n.order[o], f.order[o], b.order[o]) \in OrdStatus
      BY <1>4, MergeTwice
    <3>2. m.order = [o \in Ord |-> MergedOrder(n.order[o], f.order[o], b.order[o])]
      BY <1>5
    <3> QED BY <3>1, <3>2
  <2>2. m.profile \in Profile
    BY <1>9, <1>10
  <2> QED BY <1>4, <1>5, <1>7, <2>1, <2>2, DatabaseOf
<1> QED BY <1>1, <1>5, <1>10, <1>11, <1>12, <1>13 DEF Merged


(* The merge of x-ui.db commits, the first time or again. *)
LEMMA XuiMergeStep ==
  ASSUME FailbackInv, pipeline = "xui", NEW m,
         m = [db["nl"] EXCEPT
                !.client = [enable |-> MergedEnable(db["nl"].client.enable, db["fi"].client.enable,
                                                    base.client.enable),
                            expiry |-> Max({db["nl"].client.expiry, db["fi"].client.expiry})],
                !.up = MergedCount(db["nl"].up, db["fi"].up, base.up)]
  PROVE  /\ m \in Database /\ m.order = db["nl"].order /\ m.used = db["nl"].used
         /\ m.profile = db["nl"].profile
         /\ m.client.enable = MergedEnable(before.client.enable, db["fi"].client.enable,
                                           base.client.enable)
<1>1. PICK n, f, b, p : n = db["nl"] /\ f = db["fi"] /\ b = base /\ p = before
  OBVIOUS
<1>2. n \in Database /\ f \in Database /\ b \in Database /\ p \in Database
  BY <1>1, NodesFacts, SnapshotFacts DEF Running
<1>3. PICK enable : enable = MergedEnable(n.client.enable, f.client.enable, b.client.enable)
  OBVIOUS
<1>4. PICK expiry : expiry = Max({n.client.expiry, f.client.expiry})
  OBVIOUS
<1>5. PICK up1 : up1 = MergedCount(n.up, f.up, b.up)
  OBVIOUS
<1>6. m = [n EXCEPT !.client = [enable |-> enable, expiry |-> expiry], !.up = up1]
  BY <1>1, <1>3, <1>4, <1>5
<1>7. /\ DOMAIN n = {"order", "used", "profile", "client", "up"}
      /\ n.order \in [Ord -> OrdStatus] /\ n.used \in Int /\ n.profile \in Profile
      /\ n.client \in [enable : BOOLEAN, expiry : Nat] /\ n.up \in Nat
      /\ f.client \in [enable : BOOLEAN, expiry : Nat] /\ f.up \in Nat
      /\ b.client \in [enable : BOOLEAN, expiry : Nat] /\ b.up \in Nat
      /\ p.client \in [enable : BOOLEAN, expiry : Nat]
  BY <1>2, DatabaseFields
<1>8. /\ m.order = n.order /\ m.used = n.used /\ m.profile = n.profile
      /\ m.client = [enable |-> enable, expiry |-> expiry] /\ m.up = up1
      /\ DOMAIN m = DOMAIN n /\ m = [x \in DOMAIN m |-> m[x]]
  BY <1>6, <1>7
<1>9. /\ n.client.enable \in BOOLEAN /\ f.client.enable \in BOOLEAN /\ b.client.enable \in BOOLEAN
      /\ p.client.enable \in BOOLEAN /\ n.client.expiry \in Nat /\ f.client.expiry \in Nat
  BY <1>7
<1>10. enable \in BOOLEAN
  BY <1>3, <1>9, MergeTwice
<1>11. expiry \in Nat
  <2>1. n.client.expiry \in Int /\ f.client.expiry \in Int
    BY <1>9
  <2>2. expiry \in {n.client.expiry, f.client.expiry}
    BY <1>4, <2>1, MaxOfTwo
  <2> QED BY <1>9, <2>2
<1>12. up1 \in Nat
  <2>1. 0 \in Int /\ f.up - b.up \in Int
    BY <1>7
  <2>2. Max({0, f.up - b.up}) \in {0, f.up - b.up} /\ Max({0, f.up - b.up}) >= 0
    BY <2>1, MaxOfTwo
  <2>3. up1 = n.up + Max({0, f.up - b.up})
    BY <1>5 DEF MergedCount
  <2> QED BY <1>7, <2>1, <2>2, <2>3
<1>13. m \in Database
  <2>1. m.client \in [enable : BOOLEAN, expiry : Nat] /\ m.up \in Nat
    BY <1>8, <1>10, <1>11, <1>12
  <2> QED BY <1>7, <1>8, <2>1, DatabaseOf
<1>14. enable = MergedEnable(p.client.enable, f.client.enable, b.client.enable)
  <2>1. \/ n.client.enable = p.client.enable
        \/ n.client.enable = MergedEnable(p.client.enable, f.client.enable, b.client.enable)
    BY <1>1 DEF FailbackInv, MergeInv, Running
  <2>2. MergedEnable(MergedEnable(p.client.enable, f.client.enable, b.client.enable),
                     f.client.enable, b.client.enable)
          = MergedEnable(p.client.enable, f.client.enable, b.client.enable)
    BY <1>9, MergeTwice
  <2> QED BY <1>3, <2>1, <2>2
<1>15. m.client.enable = enable
  BY <1>8
<1> QED BY <1>1, <1>8, <1>13, <1>14, <1>15

(* The steps of the days and of the pipeline keep the invariant. *)
LEMMA PipelineSteps ==
  ASSUME FailbackInv,
         \/ PassDay \/ Promote \/ Demote
         \/ MergeVpnShop \/ MergeXui \/ RerunMerge
  PROVE  FailbackInv'
<1>1. /\ day \in Nat /\ day \in 1..LastDay /\ merges \in Nat /\ db = [s \in Side |-> db[s]]
      /\ refunded \subseteq Ord /\ LastDay \in Nat /\ "nl" \in Side /\ "fi" \in Side /\ "nl" # "fi"
  BY FailbackAssumption DEF FailbackInv, Side
<1>2. CASE PassDay \/ Promote
  <2>1. /\ base' = base /\ db' = db /\ before' = before /\ refunded' = refunded /\ merges' = merges
        /\ day' = day + 1 /\ day < LastDay /\ pipeline \in Running /\ pipeline' \in Running
    BY <1>2 DEF PassDay, Promote, Running
  <2>2. merges = 0
    BY <2>1 DEF FailbackInv, MergeInv
  <2>3. NodeInv(db["nl"], "fi", base, refunded, day) /\ NodeInv(db["fi"], "nl", base, refunded, day)
    BY <2>1 DEF FailbackInv, Own
  <2>4. day' \in Nat /\ day' >= day /\ day' \in 1..LastDay
    BY <1>1, <2>1
  <2>5. NodeInv(db["nl"], "fi", base, refunded, day') /\ NodeInv(db["fi"], "nl", base, refunded, day')
    BY <1>1, <2>3, <2>4, NodeKept
  <2>6. NodeInv(Own, "fi", base, refunded, day)' /\ NodeInv(db["fi"], "nl", base, refunded, day)'
    BY <2>1, <2>5 DEF Own, NodeInv
  <2>7. MergeInv'
    BY <2>1, <2>2 DEF FailbackInv, MergeInv, Running
  <2> QED BY <1>1, <2>1, <2>4, <2>6, <2>7 DEF FailbackInv, Running
<1>3. CASE Demote
  <2>1. /\ base' = base /\ db' = db /\ before' = db["nl"] /\ refunded' = refunded /\ merges' = merges
        /\ day' = day /\ pipeline \in Running /\ pipeline' = "vpn"
    BY <1>3 DEF Demote, Running
  <2>2. merges = 0
    BY <2>1 DEF FailbackInv, MergeInv
  <2>3. NodeInv(db["nl"], "fi", base, refunded, day) /\ NodeInv(db["fi"], "nl", base, refunded, day)
    BY <2>1 DEF FailbackInv, Own
  <2>4. NodeInv(Own, "fi", base, refunded, day)' /\ NodeInv(db["fi"], "nl", base, refunded, day)'
    BY <2>1, <2>3 DEF Own, Running, NodeInv
  <2>5. db["nl"] \in Database
    BY <2>3 DEF NodeInv
  <2>6. MergeInv'
    BY <2>1, <2>2, <2>5 DEF MergeInv
  <2> QED BY <1>1, <2>1, <2>4, <2>5, <2>6 DEF FailbackInv
<1>4. ASSUME pipeline \notin Running, pipeline' \notin Running,
             pipeline' \in {"primary", "standby", "vpn", "xui", "merged", "fatal"},
             UNCHANGED <<base, before, refunded, day>>, merges' \in Nat,
             db' = [s \in Side |-> db'[s]], db'["fi"] = db["fi"], MergeInv'
      PROVE  FailbackInv'
  <2>1. NodeInv(before, "fi", base, refunded, day) /\ NodeInv(db["fi"], "nl", base, refunded, day)
    BY <1>4, NodesFacts
  <2>2. NodeInv(Own, "fi", base, refunded, day)' /\ NodeInv(db["fi"], "nl", base, refunded, day)'
    BY <1>4, <2>1 DEF Own, NodeInv
  <2> QED BY <1>4, <2>2 DEF FailbackInv
<1>5. CASE RerunMerge
  <2>1. /\ UNCHANGED <<base, db, before, refunded, merges, day>>
        /\ pipeline = "fatal" /\ pipeline' = "vpn"
    BY <1>5 DEF RerunMerge
  <2>2. MergeInv'
    BY <2>1 DEF FailbackInv, MergeInv, Merged, OneSided, Running
  <2> QED BY <1>1, <1>4, <2>1, <2>2 DEF Running
<1>6. CASE MergeVpnShop
  <2>1. /\ pipeline = "vpn" /\ pipeline' = "xui"
        /\ UNCHANGED <<base, before, refunded, day>>
    BY <1>6 DEF MergeVpnShop
  <2>2. CASE FailMerge /\ UNCHANGED merges
    <3>1. db' = db /\ merges' = merges
      BY <2>2 DEF FailMerge
    <3>2. MergeInv'
      BY <2>1, <3>1 DEF FailbackInv, MergeInv, Merged, OneSided, Running
    <3> QED BY <1>1, <1>4, <2>1, <3>1, <3>2 DEF Running
  <2>3. CASE ~(FailMerge /\ UNCHANGED merges)
    <3>1. PICK m :
            m = [db["nl"] EXCEPT
              !.order = [o \in Ord |-> MergedOrder(db["nl"].order[o], db["fi"].order[o], base.order[o])],
              !.used = MergedCount(db["nl"].used, db["fi"].used, base.used),
              !.profile = MergedProfile(db["nl"].profile, db["fi"].profile, base.profile)]
      OBVIOUS
    <3>2. db' = [db EXCEPT !["nl"] = m] /\ merges' = merges + 1
      BY <1>6, <2>3, <3>1 DEF MergeVpnShop, CommitMerge
    <3>3. /\ db'["nl"] = m /\ db'["fi"] = db["fi"] /\ db' = [s \in Side |-> db'[s]]
          /\ merges' \in Nat /\ merges' > 0
      BY <1>1, <3>2
    <3>4. /\ m \in Database /\ m.client = db["nl"].client
          /\ \A o \in Ord : m.order[o] = Merged(o)
          /\ OneSided => m.used >= Cardinality(Holders(m))
          /\ m.profile = MergedProfile(before.profile, db["fi"].profile, base.profile)
      BY <2>1, <3>1, VpnMergeStep
    <3>5. MergeInv'
      BY <2>1, <3>3, <3>4 DEF FailbackInv, MergeInv, Merged, OneSided, Holders, Running
    <3> QED BY <1>4, <2>1, <3>3, <3>5 DEF Running
  <2> QED BY <2>2, <2>3
<1>7. CASE MergeXui
  <2>1. /\ pipeline = "xui" /\ pipeline' \in {"merged", "fatal"}
        /\ UNCHANGED <<base, before, refunded, day, merges>>
    BY <1>7 DEF MergeXui
  <2>2. CASE FailMerge /\ pipeline' = "fatal"
    <3>1. db' = db
      BY <2>2 DEF FailMerge
    <3>2. MergeInv'
      BY <2>1, <2>2, <3>1 DEF FailbackInv, MergeInv, Merged, OneSided, Running
    <3> QED BY <1>1, <1>4, <2>1, <3>1, <3>2 DEF Running
  <2>3. CASE ~(FailMerge /\ pipeline' = "fatal")
    <3>1. PICK m :
            m = [db["nl"] EXCEPT
              !.client = [enable |-> MergedEnable(db["nl"].client.enable, db["fi"].client.enable,
                                                  base.client.enable),
                          expiry |-> Max({db["nl"].client.expiry, db["fi"].client.expiry})],
              !.up = MergedCount(db["nl"].up, db["fi"].up, base.up)]
      OBVIOUS
    <3>2. db' = [db EXCEPT !["nl"] = m]
      BY <1>7, <2>3, <3>1 DEF MergeXui, CommitMerge
    <3>3. db'["nl"] = m /\ db'["fi"] = db["fi"] /\ db' = [s \in Side |-> db'[s]]
      BY <1>1, <3>2
    <3>4. /\ m \in Database /\ m.order = db["nl"].order /\ m.used = db["nl"].used
          /\ m.profile = db["nl"].profile
          /\ m.client.enable = MergedEnable(before.client.enable, db["fi"].client.enable,
                                            base.client.enable)
      BY <2>1, <3>1, XuiMergeStep
    <3>5. MergeInv'
      BY <2>1, <3>3, <3>4 DEF FailbackInv, MergeInv, Merged, OneSided, Holders, Running
    <3> QED BY <1>1, <1>4, <2>1, <3>3, <3>5 DEF Running
  <2> QED BY <2>2, <2>3
<1> QED BY <1>2, <1>3, <1>5, <1>6, <1>7


(* In the initial states nothing was written since the snapshot. *)
LEMMA FailbackStarts == FailbackInit => FailbackInv
<1> SUFFICES ASSUME FailbackInit
             PROVE  FailbackInv
  OBVIOUS
<1>1. PICK status \in {"waiting", "delivered"}, expires \in Nat : base = SnapshotWith(status, expires)
  BY DEF FailbackInit
<1>2. /\ db = [s \in Side |-> base] /\ before = base /\ refunded = {} /\ pipeline = "primary"
      /\ merges = 0 /\ day = 1 /\ day \in 1..LastDay
  BY FailbackAssumption DEF FailbackInit
<1>3. /\ base.order = [o \in Ord |-> IF o = "old" THEN status ELSE "none"] /\ base.used = 1
      /\ base.profile = [status |-> "active", expires |-> expires, renewed |-> 0]
      /\ base.client = [enable |-> TRUE, expiry |-> expires] /\ base.up = 1
      /\ DOMAIN base = {"order", "used", "profile", "client", "up"}
      /\ base = [x \in DOMAIN base |-> base[x]]
  BY <1>1 DEF SnapshotWith
<1>4. base \in Database
  <2>1. base.order \in [Ord -> OrdStatus]
    BY <1>1, <1>3 DEF Ord, OrdStatus
  <2>2. base.profile \in Profile /\ base.client \in [enable : BOOLEAN, expiry : Nat]
    BY <1>1, <1>3 DEF Profile
  <2>3. base.used \in Int /\ base.up \in Nat
    BY <1>3
  <2> QED BY <1>3, <2>1, <2>2, <2>3, DatabaseOf
<1>5. base.order["old"] = status /\ base.order["nl"] = "none" /\ base.order["fi"] = "none"
  BY <1>3 DEF Ord
<1>6. base.used >= Cardinality(Holders(base))
  <2>1. Cardinality(Holders(base)) = Held(status) + Held("none") + Held("none")
    BY <1>5, HoldersCount
  <2> QED BY <1>1, <1>3, <2>1 DEF Held
<1>7. /\ base.profile.expires = expires /\ base.profile.renewed = 0
      /\ base.profile.status = "active" /\ base.client.enable = TRUE
  BY <1>3
<1>8. ASSUME NEW other \in Side
      PROVE  NodeInv(base, other, base, refunded, day)
  <2>1. base.order[other] = "none" /\ base.order["old"] # "none"
    BY <1>1, <1>5 DEF Side
  <2> QED BY <1>1, <1>2, <1>4, <1>6, <1>7, <2>1 DEF NodeInv
<1>9. Own = base /\ db["fi"] = base /\ db["nl"] = base /\ db = [s \in Side |-> db[s]]
  BY <1>2 DEF Own, Running, Side
<1>10. NodeInv(Own, "fi", base, refunded, day) /\ NodeInv(db["fi"], "nl", base, refunded, day)
  BY <1>8, <1>9 DEF Side
<1>11. MergeInv
  BY <1>2, <1>4, <1>9 DEF MergeInv, Running
<1> QED BY <1>1, <1>2, <1>4, <1>9, <1>10, <1>11 DEF FailbackInv

(* A delivered order that was not refunded is delivered after the merge: no
   status outranks it, and a node whose order differs from the snapshot's is
   believed before one whose does not. *)
LEMMA DeliveredWins ==
  ASSUME NEW n \in OrdStatus, NEW f \in OrdStatus, NEW b \in OrdStatus,
         b = "delivered" => n = "delivered" /\ f = "delivered",
         "delivered" \in {n, f}
  PROVE  MergedOrder(n, f, b) = "delivered"
<1>1. CASE n = f
  BY <1>1 DEF MergedOrder
<1>2. CASE n # f /\ n = "delivered"
  <2>1. CASE f = "none" \/ f = b
    BY <1>2, <2>1 DEF MergedOrder
  <2>2. CASE f # "none" /\ f # b
    <3>1. MergedOrder(n, f, b) = IF OrderRank(f) > OrderRank(n) THEN f ELSE n
      BY <1>2, <2>2 DEF MergedOrder
    <3>2. OrderRank(n) = 4 /\ OrderRank(f) \in 0..3
      BY <1>2, <2>2 DEF OrderRank, OrdStatus
    <3> QED BY <1>2, <3>1, <3>2
  <2> QED BY <2>1, <2>2
<1>3. CASE n # f /\ f = "delivered"
  <2>1. CASE n = "none" \/ n = b
    BY <1>3, <2>1 DEF MergedOrder
  <2>2. CASE n # "none" /\ n # b
    <3>1. MergedOrder(n, f, b) = IF OrderRank(f) > OrderRank(n) THEN f ELSE n
      BY <1>3, <2>2 DEF MergedOrder
    <3>2. OrderRank(f) = 4 /\ OrderRank(n) \in 0..3
      BY <1>3, <2>2 DEF OrderRank, OrdStatus
    <3> QED BY <1>3, <3>1, <3>2
  <2> QED BY <2>1, <2>2
<1> QED BY <1>1, <1>2, <1>3

(* An active profile with paid time stays active, and keeps its time, when the
   other node's was at most reaped: that one has less time, and one renewed on
   its node has time left for longer than the failover lasts. *)
LEMMA PaidTimeWins ==
  ASSUME NEW n, NEW f, NEW b \in Database, NEW t \in Nat, t =< RenewalDays,
         NodeInv(n, "fi", b, {}, t), NodeInv(f, "nl", b, {}, t), NEW d \in {n, f},
         b.profile.status = "active", b.profile.renewed = 0,
         d.profile.status = "active", d.profile.expires > t
  PROVE  LET m == MergedProfile(n.profile, f.profile, b.profile)
         IN  m.status = "active" /\ m.expires >= d.profile.expires
<1>1. n.profile \in Profile /\ f.profile \in Profile /\ b.profile \in Profile
  BY DatabaseFields DEF NodeInv
<1>2. PICK p, q, r : p = n.profile /\ q = f.profile /\ r = b.profile
  OBVIOUS
<1>3. /\ p \in Profile /\ q \in Profile /\ r \in Profile
      /\ p.expires \in Nat /\ q.expires \in Nat /\ r.expires \in Nat
      /\ p.renewed \in Nat /\ q.renewed \in Nat
      /\ p.status \in {"active", "expired", "deleted"} /\ q.status \in {"active", "expired", "deleted"}
  BY <1>1, <1>2 DEF Profile
<1>4. /\ p.expires >= r.expires /\ q.expires >= r.expires
      /\ p.status # "deleted" /\ q.status # "deleted"
      /\ p.status = "expired" => p.expires =< t
      /\ q.status = "expired" => q.expires =< t
      /\ p.renewed = 0 => p.expires = r.expires
      /\ q.renewed = 0 => q.expires = r.expires
  BY <1>2 DEF NodeInv
<1>5. /\ p.renewed > 0 => p.expires >= p.renewed + RenewalDays
      /\ q.renewed > 0 => q.expires >= q.renewed + RenewalDays
  BY <1>2 DEF NodeInv
<1>6. PICK m : m = MergedProfile(p, q, r)
  OBVIOUS
<1>7. /\ m.status = IF \/ q # r /\ p = r
                       \/ (q # r <=> p # r) /\ q.renewed > p.renewed
                    THEN q.status ELSE p.status
      /\ m.expires = Max({p.expires, q.expires})
  BY <1>6 DEF MergedProfile
<1>8. m.expires >= p.expires /\ m.expires >= q.expires
  <2>1. p.expires \in Int /\ q.expires \in Int
    BY <1>3
  <2> QED BY <1>7, <2>1, MaxOfTwo
<1>9. r.status = "active" /\ RenewalDays \in Nat
  BY <1>2, FailbackAssumption
<1>10. ASSUME p.status = "active", p.expires > t
       PROVE  m.status = "active"
  <2> SUFFICES ASSUME q.status = "expired"
               PROVE  m.status = p.status
    BY <1>3, <1>4, <1>7, <1>10
  <2>1. q # r /\ q.expires =< t
    BY <1>4, <1>9
  <2>2. q.renewed = 0
    BY <1>3, <1>4, <1>5, <1>9, <2>1
  <2>3. p # r
    BY <1>3, <1>4, <1>10, <2>1
  <2> QED BY <1>3, <1>7, <2>1, <2>2, <2>3
<1>11. ASSUME q.status = "active", q.expires > t
       PROVE  m.status = "active"
  <2> SUFFICES ASSUME p.status = "expired"
               PROVE  m.status = q.status
    BY <1>3, <1>4, <1>7, <1>11
  <2>1. p # r /\ p.expires =< t
    BY <1>4, <1>9
  <2>2. p.renewed = 0
    BY <1>3, <1>4, <1>5, <1>9, <2>1
  <2>3. q.expires > r.expires
    BY <1>3, <1>4, <1>11, <2>1
  <2>4. q # r /\ q.renewed > 0
    BY <1>3, <1>4, <2>3
  <2> QED BY <1>3, <1>7, <2>1, <2>2, <2>4
<1> QED BY <1>2, <1>3, <1>6, <1>8, <1>10, <1>11

(* MergeLosesNothing: for any days, writes and repeated merges, also when the
   primary went on beside the standby, the merge keeps what was delivered,
   counts every use, keeps paid time and enables no client that was revoked. *)
THEOREM MergeIsLossless == FailbackSpec => []MergeLosesNothing
<1>1. FailbackInit => FailbackInv
  BY FailbackStarts
<1>2. FailbackInv /\ [FailbackNext]_failbackVars => FailbackInv'
  <2> SUFFICES ASSUME FailbackInv, [FailbackNext]_failbackVars
               PROVE  FailbackInv'
    OBVIOUS
  <2>1. CASE UNCHANGED failbackVars
    <3>1. /\ base' = base /\ db' = db /\ before' = before /\ refunded' = refunded
          /\ pipeline' = pipeline /\ merges' = merges /\ day' = day
      BY <2>1 DEF failbackVars
    <3>2. NodeInv(Own, "fi", base, refunded, day)' /\ NodeInv(db["fi"], "nl", base, refunded, day)'
      BY <3>1 DEF FailbackInv, Own, NodeInv
    <3>3. MergeInv'
      BY <3>1 DEF FailbackInv, MergeInv, Merged, OneSided, Running
    <3> QED BY <3>1, <3>2, <3>3 DEF FailbackInv
  <2>2. CASE FailbackNext
    BY <2>2, WriteSteps, PipelineSteps DEF FailbackNext
  <2> QED BY <2>1, <2>2
<1>3. FailbackInv => MergeLosesNothing
  <2> SUFFICES ASSUME FailbackInv
               PROVE  MergeLosesNothing
    OBVIOUS
  <2>1. PICK n, f, b : n = before /\ f = db["fi"] /\ b = base
    OBVIOUS
  <2>2. /\ b \in Database /\ b.order["old"] \in {"waiting", "delivered"}
        /\ b.profile.status = "active" /\ b.profile.renewed = 0 /\ b.client.enable = TRUE
        /\ \A o \in Ord : b.order[o] \in OrdStatus
    <3>1. base \in Database /\ base.order \in [Ord -> OrdStatus]
      BY SnapshotFacts, DatabaseFields
    <3> QED BY <2>1, <3>1, SnapshotFacts
  <2>3. ASSUME pipeline \notin Running
        PROVE  /\ NodeInv(n, "fi", b, refunded, day) /\ NodeInv(f, "nl", b, refunded, day)
               /\ n \in Database /\ f \in Database
    BY <2>1, <2>3, NodesFacts
  <2>4. day \in Nat /\ day =< RenewalDays
    BY FailbackAssumption DEF FailbackInv
  <2>5. ASSUME merges > 0
        PROVE  /\ pipeline \notin Running
               /\ \A o \in Ord : db["nl"].order[o] = MergedOrder(n.order[o], f.order[o], b.order[o])
               /\ OneSided => db["nl"].used >= Cardinality(Holders(db["nl"]))
               /\ db["nl"].profile = MergedProfile(n.profile, f.profile, b.profile)
    BY <2>1, <2>5 DEF FailbackInv, MergeInv, Merged
  <2>6. DeliveredStays
    <3> SUFFICES ASSUME merges > 0, NEW d \in {n, f}, NEW o \in Ord \ refunded, d.order[o] = "delivered"
                 PROVE  db["nl"].order[o] = "delivered"
      BY <2>1 DEF DeliveredStays, Nodes
    <3>1. n.order[o] \in OrdStatus /\ f.order[o] \in OrdStatus /\ b.order[o] \in OrdStatus
      <4>1. n.order \in [Ord -> OrdStatus] /\ f.order \in [Ord -> OrdStatus]
        BY <2>3, <2>5, DatabaseFields
      <4> QED BY <2>2, <4>1
    <3>2. b.order[o] = "delivered" => n.order[o] = "delivered" /\ f.order[o] = "delivered"
      BY <2>3, <2>5 DEF NodeInv
    <3> QED BY <2>5, <3>1, <3>2, DeliveredWins
  <2>7. UsesAreCounted
    BY <2>5 DEF UsesAreCounted, OneSided
  <2>8. PaidAccessKept
    <3> SUFFICES ASSUME merges > 0, refunded = {}, NEW d \in {n, f},
                        d.profile.status = "active", d.profile.expires > day
                 PROVE  /\ db["nl"].profile.status = "active"
                        /\ db["nl"].profile.expires >= d.profile.expires
      BY <2>1 DEF PaidAccessKept, Nodes
    <3>1. NodeInv(n, "fi", b, {}, day) /\ NodeInv(f, "nl", b, {}, day)
      BY <2>3, <2>5
    <3>2. PICK m : m = MergedProfile(n.profile, f.profile, b.profile)
      OBVIOUS
    <3>3. b.profile.status = "active" /\ b.profile.renewed = 0 /\ b \in Database
      BY <2>2
    <3>4. m.status = "active" /\ m.expires >= d.profile.expires
      BY <2>4, <3>1, <3>2, <3>3, PaidTimeWins, ZenonT(60)
    <3> QED BY <2>5, <3>2, <3>4
  <2>9. RevokedStays
    <3> SUFFICES ASSUME pipeline = "merged", NEW d \in {n, f}, d.profile.status = "deleted"
                 PROVE  ~db["nl"].client.enable
      BY <2>1 DEF RevokedStays, Nodes
    <3>1. db["nl"].client.enable = MergedEnable(n.client.enable, f.client.enable, b.client.enable)
      BY <2>1 DEF FailbackInv, MergeInv
    <3>2. /\ n.client.enable \in BOOLEAN /\ f.client.enable \in BOOLEAN
          /\ n.client.enable <=> n.profile.status = "active"
          /\ f.client.enable <=> f.profile.status = "active"
      <4>1. /\ n.client \in [enable : BOOLEAN, expiry : Nat]
            /\ f.client \in [enable : BOOLEAN, expiry : Nat]
        BY <2>3, DatabaseFields DEF Running
      <4> QED BY <2>3, <4>1 DEF NodeInv, Running
    <3>3. n.client.enable = FALSE \/ f.client.enable = FALSE
      BY <3>2
    <3> QED BY <2>2, <3>1, <3>2, <3>3 DEF MergedEnable
  <2> QED BY <2>6, <2>7, <2>8, <2>9 DEF MergeLosesNothing
<1> QED BY <1>1, <1>2, <1>3, PTL DEF FailbackSpec
=============================================================================
