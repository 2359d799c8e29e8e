------------------------------- MODULE AccessProofs -------------------------
(***************************************************************************)
(* Proofs about what a customer has access to: the time of a profile that  *)
(* was paid for, the profile that a cabinet shows, and below them the      *)
(* connection of the libSQL replica that makes a transaction atomic, for   *)
(* any number of nodes, runs, links, threads and orders.                   *)
(***************************************************************************)
EXTENDS LibsqlReplica, ProfileAccess, CabinetLinks, FiniteSetTheorems, TLAPS

-----------------------------------------------------------------------------
(* The connection of the libSQL replica. *)

(* A thread that began with BEGIN, one inside of its transaction, one whose stream is being replaced,
   and one whose transaction was committed or is over. *)
Begun == {t \in Thread : manner[t] # "bare"}
Reconnecting == {"reconnect1", "reconnect2", "reconnectCommit"}
Inside == {"miss", "refreshing", "replaceInside", "write1", "write2", "commit"} \cup Reconnecting
Settled == {"flush", "syncing", "replace", "end"}

(* The lock is held exactly inside of a transaction that began with BEGIN and,
   at times, until its rollback; of such transactions the connection has pending
   writes of nobody but the holder. *)
HolderInv ==
  /\ ReplicaTypeOK
  /\ execLock # Syncer
  /\ stage[Syncer] \in {"idle", "syncing", "replace"}
  /\ broken \cap Begun = {}
  /\ \A t \in Begun : stage[t] \in Inside => execLock = t
  /\ \A t \in Thread : execLock = t => t \in Begun /\ stage[t] \in Inside \cup {"rollback"}
  /\ \A t \in Thread \ Begun : stage[t] \notin {"miss", "refreshing", "replaceInside", "rollback"}
  /\ \A t \in Thread : stage[t] # "end" => outcome[t] = "open"
  /\ ~stream => pending = {}
  /\ \A t \in Begun : stage[t] \notin Settled => WritesOf(t) \cap primary = {}
  /\ PendingBelongsToHolder

(* On a stream that was never lost the writes that a transaction has made are
   pending, and after its commit they are in the cloud. *)
UnbrokenInv ==
  losses = 0 =>
    /\ stream
    /\ \A p \in Thread \cup {Syncer} : stage[p] \notin Reconnecting \cup {"replace", "replaceInside"}
    /\ \A t \in Begun :
         /\ stage[t] \in {"write2", "commit"} => <<t, 1>> \in pending
         /\ stage[t] = "commit" => <<t, 2>> \in pending
         /\ stage[t] \in {"flush", "syncing"} => WritesOf(t) \subseteq primary

ReplicaInv == HolderInv /\ UnbrokenInv /\ AtomicCommit

(* Nothing is written and nobody holds a lock. *)
LEMMA ReplicaStart == ReplicaInit => ReplicaInv
<1> SUFFICES ASSUME ReplicaInit PROVE ReplicaInv
  OBVIOUS
<1>1. ReplicaTypeOK
  BY ReplicaAssumption DEF ReplicaInit, ReplicaTypeOK, ReplicaStage, Manner
<1> QED
  BY <1>1, ReplicaAssumption DEF ReplicaInit, ReplicaInv, HolderInv, UnbrokenInv, AtomicCommit,
     PendingBelongsToHolder, WritesOf, Begun, Inside, Settled, Reconnecting
(* Every step keeps the variables in their types. *)
LEMMA TypeStep ==
  ASSUME ReplicaTypeOK, [ReplicaNext]_replicaVars PROVE ReplicaTypeOK'
<1> USE ReplicaAssumption DEF ReplicaTypeOK, ReplicaStage, Manner, Go, Write
<1>1. ASSUME NEW t \in Thread, BeginTransaction(t) PROVE ReplicaTypeOK'
  BY <1>1 DEF BeginTransaction
<1>2. ASSUME NEW t \in Thread, NEW i \in {1, 2}, ExecuteWrite(t, i) PROVE ReplicaTypeOK'
  <2>1. pending' \subseteq Write
    BY <1>2 DEF ExecuteWrite, MayExecute, LeaveBody
  <2>2. stage' \in [Thread \cup {Syncer} -> ReplicaStage]
    BY <1>2 DEF ExecuteWrite, MayExecute, LeaveBody
  <2>3. retried' \in [Thread -> BOOLEAN]
    BY <1>2 DEF ExecuteWrite, MayExecute, LeaveBody
  <2> QED BY <1>2, <2>1, <2>2, <2>3 DEF ExecuteWrite, MayExecute, LeaveBody
<1>3. ASSUME NEW t \in Thread, RaiseInBody(t) PROVE ReplicaTypeOK'
  BY <1>3 DEF RaiseInBody, LeaveBody
<1>4. ASSUME NEW t \in Thread, Reconnect(t) PROVE ReplicaTypeOK'
  BY <1>4 DEF Reconnect, ConnectReplica
<1>5. ASSUME NEW t \in Thread, CommitTransaction(t) PROVE ReplicaTypeOK'
  <2>1. stage' \in [Thread \cup {Syncer} -> ReplicaStage] /\ outcome' \in [Thread -> {"open", "ok", "raised"}]
    BY <1>5 DEF CommitTransaction, FailCommit, LeaveBody
  <2>2. pending' \subseteq Write /\ primary' \subseteq Write /\ retried' \in [Thread -> BOOLEAN]
    BY <1>5 DEF CommitTransaction
  <2>3. execLock' \in Thread \cup {NoThread, Syncer} /\ broken' \subseteq Thread
    BY <1>5 DEF CommitTransaction, FailCommit, LeaveBody
  <2>4. UNCHANGED <<manner, syncLock, stream, replica, losses, syncs, unsynced>>
    BY <1>5 DEF CommitTransaction
  <2> QED BY <2>1, <2>2, <2>3, <2>4
<1>6. ASSUME NEW t \in Thread, Rollback(t) PROVE ReplicaTypeOK'
  BY <1>6 DEF Rollback, MayExecute
<1>7. ASSUME NEW t \in Thread, StartFlush(t) PROVE ReplicaTypeOK'
  BY <1>7 DEF StartFlush
<1>8. ASSUME NEW p \in Thread \cup {Syncer}, Sync(p) PROVE ReplicaTypeOK'
  BY <1>8 DEF Sync, SyncDone, FlushFailed
<1>9. ASSUME NEW p \in Thread \cup {Syncer}, ReplaceConnection(p) PROVE ReplicaTypeOK'
  BY <1>9 DEF ReplaceConnection, ConnectReplica, SyncDone
<1>10. ASSUME StartBackgroundSync PROVE ReplicaTypeOK'
  BY <1>10 DEF StartBackgroundSync
<1>11. ASSUME LoseStream PROVE ReplicaTypeOK'
  <2>1. stream' \in BOOLEAN
    BY <1>11 DEF LoseStream
  <2>2. losses' \in 0..MaxLosses
    BY <1>11 DEF LoseStream
  <2> QED BY <1>11, <2>1, <2>2 DEF LoseStream
<1>12. ASSUME UNCHANGED replicaVars PROVE ReplicaTypeOK'
  BY <1>12 DEF replicaVars
<1> HIDE DEF ReplicaTypeOK, ReplicaStage, Manner, Go, Write
<1> QED
  BY <1>1, <1>2, <1>3, <1>4, <1>5, <1>6, <1>7, <1>8, <1>9, <1>10, <1>11, <1>12
  DEF ReplicaNext, TransactionStep, SyncStep

(* Every step of a transaction, of a synchronisation or of the network leaves
   what is pending to the holder of the lock: also a rollback that takes the
   lock late and a connection that is replaced without it. *)
LEMMA HolderStep ==
  ASSUME HolderInv, ReplicaTypeOK', [ReplicaNext]_replicaVars PROVE HolderInv'
<1> USE ReplicaAssumption DEF HolderInv, ReplicaTypeOK, PendingBelongsToHolder, Begun, Inside, Settled, Reconnecting, WritesOf,
       Go, Write
<1>1. ASSUME NEW t \in Thread, BeginTransaction(t) PROVE HolderInv'
  BY <1>1 DEF BeginTransaction
<1>2. ASSUME NEW t \in Thread, NEW i \in {1, 2}, ExecuteWrite(t, i) PROVE HolderInv'
  BY <1>2 DEF ExecuteWrite, MayExecute, LeaveBody
<1>3. ASSUME NEW t \in Thread, RaiseInBody(t) PROVE HolderInv'
  BY <1>3 DEF RaiseInBody, LeaveBody
<1>4. ASSUME NEW t \in Thread, Reconnect(t) PROVE HolderInv'
  BY <1>4 DEF Reconnect, ConnectReplica
<1>5. ASSUME NEW t \in Thread, CommitTransaction(t) PROVE HolderInv'
  BY <1>5 DEF CommitTransaction, FailCommit, MayExecute, LeaveBody
<1>6. ASSUME NEW t \in Thread, Rollback(t) PROVE HolderInv'
  BY <1>6 DEF Rollback, MayExecute
<1>7. ASSUME NEW t \in Thread, StartFlush(t) PROVE HolderInv'
  BY <1>7 DEF StartFlush
<1>8. ASSUME NEW p \in Thread \cup {Syncer}, Sync(p) PROVE HolderInv'
  BY <1>8 DEF Sync, SyncDone, FlushFailed
<1>9. ASSUME NEW p \in Thread \cup {Syncer}, ReplaceConnection(p) PROVE HolderInv'
  BY <1>9 DEF ReplaceConnection, ConnectReplica, SyncDone
<1>10. ASSUME StartBackgroundSync PROVE HolderInv'
  BY <1>10 DEF StartBackgroundSync
<1>11. ASSUME LoseStream PROVE HolderInv'
  BY <1>11 DEF LoseStream
<1>12. ASSUME UNCHANGED replicaVars PROVE HolderInv'
  BY <1>12 DEF replicaVars
<1> HIDE DEF HolderInv, ReplicaTypeOK, PendingBelongsToHolder, Begun, Inside, Settled, Reconnecting, WritesOf,
         Go, Write
<1> QED
  BY <1>1, <1>2, <1>3, <1>4, <1>5, <1>6, <1>7, <1>8, <1>9, <1>10, <1>11, <1>12
  DEF ReplicaNext, TransactionStep, SyncStep

(* While no stream is lost nothing but a thread's own commit takes its writes
   off the connection. *)
LEMMA UnbrokenStep ==
  ASSUME HolderInv, UnbrokenInv, ReplicaTypeOK', [ReplicaNext]_replicaVars PROVE UnbrokenInv'
<1> USE ReplicaAssumption DEF HolderInv, UnbrokenInv, ReplicaTypeOK, PendingBelongsToHolder, Begun, Inside, Settled, Reconnecting, WritesOf, Go, Write
<1>1. ASSUME NEW t \in Thread, BeginTransaction(t) PROVE UnbrokenInv'
  BY <1>1 DEF BeginTransaction
<1>2. ASSUME NEW t \in Thread, NEW i \in {1, 2}, ExecuteWrite(t, i) PROVE UnbrokenInv'
  BY <1>2 DEF ExecuteWrite, MayExecute, LeaveBody
<1>3. ASSUME NEW t \in Thread, RaiseInBody(t) PROVE UnbrokenInv'
  BY <1>3 DEF RaiseInBody, LeaveBody
<1>4. ASSUME NEW t \in Thread, Reconnect(t) PROVE UnbrokenInv'
  BY <1>4 DEF Reconnect, ConnectReplica
<1>5. ASSUME NEW t \in Thread, CommitTransaction(t) PROVE UnbrokenInv'
  BY <1>5 DEF CommitTransaction, FailCommit, MayExecute, LeaveBody
<1>6. ASSUME NEW t \in Thread, Rollback(t) PROVE UnbrokenInv'
  <2>1. \A u \in Begun : stage[u] \notin {"write2", "commit"}
    BY <1>6 DEF Rollback, MayExecute
  <2>2. Begun' = Begun /\ \A u \in Begun : stage'[u] \notin {"write2", "commit"}
    BY <1>6, <2>1 DEF Rollback, MayExecute
  <2>3. \A u \in Thread : stage'[u] \in {"flush", "syncing"} => stage[u] = stage'[u]
    BY <1>6 DEF Rollback, MayExecute
  <2> QED BY <1>6, <2>2, <2>3 DEF Rollback, MayExecute
<1>7. ASSUME NEW t \in Thread, StartFlush(t) PROVE UnbrokenInv'
  BY <1>7 DEF StartFlush
<1>8. ASSUME NEW p \in Thread \cup {Syncer}, Sync(p) PROVE UnbrokenInv'
  BY <1>8 DEF Sync, SyncDone, FlushFailed
<1>9. ASSUME NEW p \in Thread \cup {Syncer}, ReplaceConnection(p) PROVE UnbrokenInv'
  BY <1>9 DEF ReplaceConnection, ConnectReplica, SyncDone
<1>10. ASSUME StartBackgroundSync PROVE UnbrokenInv'
  BY <1>10 DEF StartBackgroundSync
<1>11. ASSUME LoseStream PROVE UnbrokenInv'
  BY <1>11 DEF LoseStream
<1>12. ASSUME UNCHANGED replicaVars PROVE UnbrokenInv'
  BY <1>12 DEF replicaVars
<1> HIDE DEF HolderInv, UnbrokenInv, ReplicaTypeOK, PendingBelongsToHolder, Begun, Inside, Settled,
         Reconnecting, WritesOf, Go, Write
<1> QED
  BY <1>1, <1>2, <1>3, <1>4, <1>5, <1>6, <1>7, <1>8, <1>9, <1>10, <1>11, <1>12
  DEF ReplicaNext, TransactionStep, SyncStep

(* While no stream is lost every step keeps what is over all or nothing. *)
LEMMA AtomicStep ==
  ASSUME ReplicaInv, HolderInv', [ReplicaNext]_replicaVars PROVE AtomicCommit'
<1> USE ReplicaAssumption DEF ReplicaInv, AtomicCommit, HolderInv, UnbrokenInv, ReplicaTypeOK, PendingBelongsToHolder, Begun, Inside, Settled, Reconnecting, WritesOf, Go, Write
<1>1. ASSUME NEW t \in Thread, BeginTransaction(t) PROVE AtomicCommit'
  BY <1>1 DEF BeginTransaction
<1>2. ASSUME NEW t \in Thread, NEW i \in {1, 2}, ExecuteWrite(t, i) PROVE AtomicCommit'
  BY <1>2 DEF ExecuteWrite, MayExecute, LeaveBody
<1>3. ASSUME NEW t \in Thread, RaiseInBody(t) PROVE AtomicCommit'
  BY <1>3 DEF RaiseInBody, LeaveBody
<1>4. ASSUME NEW t \in Thread, Reconnect(t) PROVE AtomicCommit'
  BY <1>4 DEF Reconnect, ConnectReplica
<1>5. ASSUME NEW t \in Thread, CommitTransaction(t) PROVE AtomicCommit'
  BY <1>5 DEF CommitTransaction, FailCommit, MayExecute, LeaveBody
<1>6. ASSUME NEW t \in Thread, Rollback(t) PROVE AtomicCommit'
  BY <1>6 DEF Rollback, MayExecute
<1>7. ASSUME NEW t \in Thread, StartFlush(t) PROVE AtomicCommit'
  BY <1>7 DEF StartFlush
<1>8. ASSUME NEW p \in Thread \cup {Syncer}, Sync(p) PROVE AtomicCommit'
  <2> SUFFICES ASSUME losses' = 0, NEW t \in Thread, manner'[t] # "bare"
               PROVE  /\ outcome'[t] = "ok" => WritesOf(t) \subseteq primary'
                      /\ outcome'[t] = "ok" /\ t \notin unsynced' => WritesOf(t) \subseteq replica'
                      /\ outcome'[t] = "raised" => WritesOf(t) \cap primary' = {}
    BY DEF AtomicCommit
  <2>1. /\ losses = 0 /\ primary' = primary /\ stage[p] \in {"syncing", "refreshing"} /\ stream
        /\ t \notin broken /\ manner[t] # "bare"
    BY <1>8 DEF Sync, FlushFailed
  <2>2. outcome'[t] = outcome[t] \/ (t = p /\ stage[p] = "syncing" /\ outcome'[t] = "ok")
    BY <1>8, <2>1 DEF Sync, SyncDone, FlushFailed
  <2>3. t = p /\ stage[p] = "syncing" => WritesOf(t) \subseteq primary
    BY <2>1
  <2>4. replica' = primary \/ (replica' = replica /\ (stage[p] = "syncing" => p \in unsynced' \cup {Syncer}))
    BY <1>8, <2>1 DEF Sync, FlushFailed
  <2>5. unsynced \subseteq unsynced'
    BY <1>8 DEF Sync, FlushFailed
  <2> QED BY <2>1, <2>2, <2>3, <2>4, <2>5
<1>9. ASSUME NEW p \in Thread \cup {Syncer}, ReplaceConnection(p) PROVE AtomicCommit'
  BY <1>9 DEF ReplaceConnection, ConnectReplica, SyncDone
<1>10. ASSUME StartBackgroundSync PROVE AtomicCommit'
  BY <1>10 DEF StartBackgroundSync
<1>11. ASSUME LoseStream PROVE AtomicCommit'
  BY <1>11 DEF LoseStream
<1>12. ASSUME UNCHANGED replicaVars PROVE AtomicCommit'
  BY <1>12 DEF replicaVars
<1> HIDE DEF ReplicaInv, AtomicCommit, HolderInv, UnbrokenInv, ReplicaTypeOK, PendingBelongsToHolder,
         Begun, Inside, Settled, Reconnecting, WritesOf, Go, Write
<1> QED
  BY <1>1, <1>2, <1>3, <1>4, <1>5, <1>6, <1>7, <1>8, <1>9, <1>10, <1>11, <1>12
  DEF ReplicaNext, TransactionStep, SyncStep

(* The invariant holds throughout. *)
LEMMA ReplicaInvariant == ReplicaSpec => []ReplicaInv
<1>1. ReplicaInv /\ [ReplicaNext]_replicaVars => ReplicaInv'
  <2> SUFFICES ASSUME ReplicaInv, [ReplicaNext]_replicaVars PROVE ReplicaInv'
    OBVIOUS
  <2>1. HolderInv /\ UnbrokenInv /\ ReplicaTypeOK
    BY DEF ReplicaInv, HolderInv
  <2>2. ReplicaTypeOK'
    BY <2>1, TypeStep
  <2>3. HolderInv'
    BY <2>1, <2>2, HolderStep
  <2>4. UnbrokenInv'
    BY <2>1, <2>2, UnbrokenStep
  <2>5. AtomicCommit'
    BY <2>3, AtomicStep
  <2> QED BY <2>3, <2>4, <2>5 DEF ReplicaInv
<1> QED BY <1>1, ReplicaStart, PTL DEF ReplicaSpec

(* What a transaction that began with BEGIN has pending on the shared connection
   is under the lock it holds, and if it raised it left nothing in the cloud, for
   any number of threads, with or without BEGIN, of lost streams and of
   synchronisations. *)
THEOREM PendingIsHolders == ReplicaSpec => []PendingBelongsToHolder
<1>1. ReplicaInv => PendingBelongsToHolder
  BY DEF ReplicaInv, HolderInv
<1> QED BY <1>1, ReplicaInvariant, PTL

(* Transactions that began with BEGIN are atomic while no stream is lost, for any
   number of threads, those that write without BEGIN between them included, and
   of synchronisations. *)
THEOREM TransactionsAreAtomic == ReplicaSpec => []AtomicCommit
<1>1. ReplicaInv => AtomicCommit
  BY DEF ReplicaInv
<1> QED BY <1>1, ReplicaInvariant, PTL

-----------------------------------------------------------------------------
(* The paid time of a profile. The rows, clients and plans as far as a
   renewal reads them. *)
RowKind == [status : {"none", "active", "expired", "deleted"}, expires : Nat]
ClientKind == [on : BOOLEAN, expires : Nat, present : BOOLEAN]
RenewalKind ==
  [pc : {"idle", "client", "write", "extend", "done", "raised"}, seen : Nat, since : Nat, new : Nat]
AccessTypes ==
  /\ clock \in Nat /\ due \in Nat /\ clashed \in BOOLEAN
  /\ row \in RowKind
  /\ copy \in [Node -> RowKind]
  /\ client \in [Node -> ClientKind]
  /\ renewal \in [RenewalRun -> RenewalKind]
  /\ switch.at = "write" => switch.expires \in Nat /\ switch.on \in BOOLEAN
  /\ plan = [n \in Node |-> plan[n]]
  /\ \A n \in Node : plan[n].do = "set" => plan[n].expires \in Nat /\ plan[n].on \in BOOLEAN
  /\ \A n \in Node : plan[n].do \in {"nothing", "purge", "set"} /\ (plan[n].do = "nothing" => plan[n] = NoPlan)

(* Renewals that do not meet: one at a time, which has read an expiry that
   covers all that was paid and adds its period to no less. *)
AloneInv ==
  /\ \A r, s \in RenewalRun : InFlight(r) /\ InFlight(s) => r = s
  /\ row.status # "deleted" =>
       /\ row.expires >= due
       /\ \A r \in RenewalRun : InFlight(r) => renewal[r].seen >= due
  /\ \A r \in RenewalRun : renewal[r].pc \in {"write", "extend"} =>
       /\ renewal[r].new >= renewal[r].seen + Period[r]
       /\ renewal[r].new >= renewal[r].since + Period[r]
PaidInv == AccessTypes /\ (~clashed => AloneInv)

(* The constants, one by one. *)
LEMMA AccessBounds ==
  /\ Home \in Node /\ NodeOf \in [RenewalRun -> Node] /\ FirstExpiry \in Nat
  /\ \A r \in RenewalRun : Period[r] \in Nat /\ Period[r] > 0
BY AccessAssumption

(* The greatest of a few numbers. *)
LEMMA MaxOfSome ==
  /\ \A a, b \in Int : Max({a, b}) \in {a, b} /\ Max({a, b}) >= a /\ Max({a, b}) >= b
  /\ \A a, b, c \in Int :
       Max({a, b, c}) \in {a, b, c} /\ Max({a, b, c}) >= a /\ Max({a, b, c}) >= b /\ Max({a, b, c}) >= c
<1>1. ASSUME NEW a \in Int, NEW b \in Int
      PROVE  Max({a, b}) \in {a, b} /\ Max({a, b}) >= a /\ Max({a, b}) >= b
  <2>1. \E x \in {a, b} : \A y \in {a, b} : x >= y
    <3>1. CASE a >= b
      BY <3>1
    <3>2. CASE ~(a >= b)
      BY <3>2
    <3> QED BY <3>1, <3>2
  <2>2. Max({a, b}) \in {a, b} /\ \A y \in {a, b} : Max({a, b}) >= y
    BY <2>1 DEF Max
  <2> QED BY <2>2
<1>2. ASSUME NEW a \in Int, NEW b \in Int, NEW c \in Int
      PROVE  Max({a, b, c}) \in {a, b, c} /\ Max({a, b, c}) >= a /\ Max({a, b, c}) >= b /\ Max({a, b, c}) >= c
  <2>1. \E x \in {a, b, c} : \A y \in {a, b, c} : x >= y
    <3>1. CASE a >= b /\ a >= c
      BY <3>1
    <3>2. CASE b >= a /\ b >= c
      BY <3>2
    <3>3. CASE c >= a /\ c >= b
      BY <3>3
    <3> QED BY <3>1, <3>2, <3>3
  <2>2. Max({a, b, c}) \in {a, b, c} /\ \A y \in {a, b, c} : Max({a, b, c}) >= y
    BY <2>1 DEF Max
  <2> QED BY <2>2
<1> QED BY <1>1, <1>2

(* A row written or read is one of the right kind. *)
LEMMA RowsStay ==
  ASSUME AccessTypes, NEW n \in Node
  PROVE  /\ RowAt(n) \in RowKind
         /\ ReadRow(n) => copy' \in [Node -> RowKind]
         /\ \A new \in RowKind : WriteRow(n, new) => row' = new /\ copy' \in [Node -> RowKind]
         /\ [row EXCEPT !.status = "expired"] \in RowKind
         /\ [row EXCEPT !.status = "deleted"] \in RowKind
<1>1. RowAt(n) \in RowKind
  BY DEF AccessTypes, RowAt
<1>2. \A new \in RowKind : [copy EXCEPT ![n] = new] \in [Node -> RowKind]
  BY DEF AccessTypes
<1>3. row \in RowKind
  BY DEF AccessTypes
<1>4. [row EXCEPT !.status = "expired"] \in RowKind /\ [row EXCEPT !.status = "deleted"] \in RowKind
  BY <1>3 DEF RowKind
<1> QED BY <1>1, <1>2, <1>4 DEF ReadRow, WriteRow

(* A step that leaves the row's expiry, the renewals and what was paid alone
   cannot lose paid time. *)
LEMMA AloneStays ==
  ASSUME AccessTypes, ~clashed => AloneInv, renewal' = renewal, due' \in {due, 0},
         row' \in RowKind, row'.expires = row.expires,
         row.status = "deleted" => row'.status = "deleted",
         clashed => clashed'
  PROVE  ~clashed' => AloneInv'
<1> SUFFICES ASSUME ~clashed'
             PROVE  AloneInv'
  OBVIOUS
<1>1. AloneInv
  OBVIOUS
<1>2. \A r \in RenewalRun : InFlight(r)' <=> InFlight(r)
  BY DEF InFlight
<1>3. /\ due \in Nat /\ row.expires \in Nat /\ \A r \in RenewalRun : renewal[r].seen \in Nat
  BY DEF AccessTypes, RowKind, RenewalKind
<1>4. row'.status # "deleted" =>
        /\ row'.expires >= due'
        /\ \A r \in RenewalRun : InFlight(r) => renewal[r].seen >= due'
  BY <1>1, <1>3 DEF AloneInv
<1> QED BY <1>1, <1>2, <1>4 DEF AloneInv

(* A renewal reads the row, from which its expiry is counted; if another is
   under way, or the node's copy is behind, they have met. *)
LEMMA ReadProfileStep ==
  ASSUME PaidInv, NEW r \in RenewalRun, ReadProfile(r)
  PROVE  PaidInv'
<1>1. NodeOf[r] \in Node /\ Period[r] \in Nat
  BY AccessBounds
<1>2. /\ AccessTypes /\ RowAt(NodeOf[r]) \in RowKind /\ copy' \in [Node -> RowKind]
  BY <1>1, RowsStay DEF PaidInv, ReadProfile
<1>3. /\ renewal[r].pc = "idle" /\ clock' = clock /\ row' = row /\ client' = client /\ due' = due
      /\ plan' = plan /\ switch' = switch
      /\ clashed' = (clashed \/ Working \/ RowAt(NodeOf[r]) # row)
  BY DEF ReadProfile
<1>4. PICK seen \in Nat, status \in {"none", "active", "expired", "deleted"} :
        RowAt(NodeOf[r]).expires = seen /\ RowAt(NodeOf[r]).status = status
  BY <1>2 DEF RowKind
<1>5. CASE status \in {"none", "deleted"}
  <2>1. renewal' = [renewal EXCEPT ![r] = Ended("raised")]
    BY <1>4, <1>5 DEF ReadProfile, SetRenewal
  <2>2. renewal' \in [RenewalRun -> RenewalKind]
    BY <1>2, <2>1 DEF AccessTypes, Ended, RenewalKind
  <2>3. AccessTypes'
    BY <1>2, <1>3, <2>2 DEF AccessTypes, Working
  <2>4. \A s \in RenewalRun : renewal'[s] = IF s = r THEN Ended("raised") ELSE renewal[s]
    BY <1>2, <2>1 DEF AccessTypes
  <2>5. \A s \in RenewalRun : InFlight(s)' => InFlight(s) /\ s # r
    BY <2>4 DEF InFlight, Ended
  <2>6. ~clashed' => AloneInv'
    <3> SUFFICES ASSUME ~clashed'
                 PROVE  AloneInv'
      OBVIOUS
    <3>1. AloneInv
      BY <1>3 DEF PaidInv
    <3> QED BY <1>3, <2>4, <2>5, <3>1 DEF AloneInv, Ended
  <2> QED BY <2>3, <2>6 DEF PaidInv
<1>6. CASE status \notin {"none", "deleted"}
  <2>1. renewal' = [renewal EXCEPT ![r] = [renewal[r] EXCEPT !.pc = "client", !.seen = seen]]
    BY <1>4, <1>6 DEF ReadProfile, SetRenewal
  <2>2. renewal[r] \in RenewalKind
    BY <1>2 DEF AccessTypes
  <2>3. PICK new : new = [renewal[r] EXCEPT !.pc = "client", !.seen = seen]
    OBVIOUS
  <2>4. new \in RenewalKind /\ new.pc = "client" /\ new.seen = seen
    BY <2>2, <2>3 DEF RenewalKind
  <2>5. renewal' = [renewal EXCEPT ![r] = new]
    BY <2>1, <2>3
  <2>6. renewal' \in [RenewalRun -> RenewalKind]
    BY <1>2, <2>4, <2>5 DEF AccessTypes
  <2>7. AccessTypes'
    BY <1>2, <1>3, <2>6 DEF AccessTypes, Working
  <2>8. \A s \in RenewalRun : renewal'[s] = IF s = r THEN new ELSE renewal[s]
    BY <1>2, <2>5 DEF AccessTypes
  <2>9. ~clashed' => AloneInv'
    <3> SUFFICES ASSUME ~clashed'
                 PROVE  AloneInv'
      OBVIOUS
    <3>1. AloneInv /\ ~Working /\ RowAt(NodeOf[r]) = row
      BY <1>3 DEF PaidInv
    <3>2. \A s \in RenewalRun : InFlight(s)' => s = r
      BY <2>8, <3>1 DEF InFlight, Working
    <3>3. row.expires = seen /\ row.status # "deleted"
      BY <1>4, <1>6, <3>1
    <3>4. \A s \in RenewalRun : InFlight(s)' => renewal'[s].seen >= due'
      BY <1>3, <2>4, <2>8, <3>1, <3>2, <3>3 DEF AloneInv
    <3>5. \A s \in RenewalRun : renewal'[s].pc \in {"write", "extend"} => FALSE
      BY <2>4, <2>8, <3>1 DEF Working, InFlight
    <3> QED BY <1>3, <3>1, <3>2, <3>4, <3>5 DEF AloneInv
  <2> QED BY <2>7, <2>9 DEF PaidInv
<1> QED BY <1>5, <1>6


(* It reads the client and decides the new expiry, no less than what the row
   gave plus the period. *)
LEMMA ReadClientStep ==
  ASSUME PaidInv, NEW r \in RenewalRun, ReadClient(r)
  PROVE  PaidInv'
<1>1. NodeOf[r] \in Node /\ Period[r] \in Nat
  BY AccessBounds
<1>2. AccessTypes /\ renewal[r] \in RenewalKind
  BY DEF PaidInv, AccessTypes
<1>3. /\ renewal[r].pc = "client" /\ UNCHANGED <<clock, row, copy, client, switch, plan, due, clashed>>
  BY DEF ReadClient
<1>4. /\ clock \in Nat /\ renewal[r].seen \in Nat /\ client[NodeOf[r]].expires \in Nat
  BY <1>1, <1>2 DEF AccessTypes, RenewalKind, ClientKind
<1>5. PICK base : base = Max({clock, renewal[r].seen, client[NodeOf[r]].expires})
  OBVIOUS
<1>6. base \in Nat /\ base >= clock /\ base >= renewal[r].seen
  <2>1. clock \in Int /\ renewal[r].seen \in Int /\ client[NodeOf[r]].expires \in Int
    BY <1>4
  <2>2. /\ base \in {clock, renewal[r].seen, client[NodeOf[r]].expires}
        /\ base >= clock /\ base >= renewal[r].seen
    BY <1>5, <2>1, MaxOfSome
  <2> QED BY <1>4, <2>2
<1>7. PICK new : new = IF client[NodeOf[r]].present
                       THEN [renewal[r] EXCEPT !.pc = "write", !.since = clock, !.new = base + Period[r]]
                       ELSE Ended("raised")
  OBVIOUS
<1>8. renewal' = [renewal EXCEPT ![r] = new]
  BY <1>5, <1>7 DEF ReadClient, SetRenewal
<1>9. /\ new \in RenewalKind
      /\ \/ new.pc = "raised"
         \/ /\ new.pc = "write" /\ new.seen = renewal[r].seen /\ new.since = clock
            /\ new.new = base + Period[r]
  <2>1. base + Period[r] \in Nat
    BY <1>1, <1>6
  <2> QED BY <1>2, <1>4, <1>7, <2>1 DEF RenewalKind, Ended
<1>10. renewal' \in [RenewalRun -> RenewalKind]
  BY <1>2, <1>8, <1>9 DEF AccessTypes
<1>11. \A s \in RenewalRun : renewal'[s] = IF s = r THEN new ELSE renewal[s]
  BY <1>2, <1>8 DEF AccessTypes
<1>12. AccessTypes'
  BY <1>2, <1>3, <1>10 DEF AccessTypes
<1>13. ~clashed' => AloneInv'
  <2> SUFFICES ASSUME ~clashed'
               PROVE  AloneInv'
    OBVIOUS
  <2>1. AloneInv
    BY <1>3 DEF PaidInv
  <2>2. \A s \in RenewalRun : InFlight(s)' => InFlight(s) /\ renewal'[s].seen = renewal[s].seen
    BY <1>3, <1>9, <1>11 DEF InFlight
  <2>3. /\ \A s, u \in RenewalRun : InFlight(s)' /\ InFlight(u)' => s = u
        /\ row'.status # "deleted" =>
             /\ row'.expires >= due'
             /\ \A s \in RenewalRun : InFlight(s)' => renewal'[s].seen >= due'
    BY <1>3, <2>1, <2>2 DEF AloneInv
  <2>4. ASSUME NEW s \in RenewalRun, renewal'[s].pc \in {"write", "extend"}
        PROVE  /\ renewal'[s].new >= renewal'[s].seen + Period[s]
               /\ renewal'[s].new >= renewal'[s].since + Period[s]
    <3>1. CASE s = r
      BY <1>1, <1>4, <1>6, <1>9, <1>11, <2>4, <3>1
    <3>2. CASE s # r
      BY <1>11, <2>1, <2>4, <3>2 DEF AloneInv
    <3> QED BY <3>1, <3>2
  <2> QED BY <2>3, <2>4 DEF AloneInv
<1> QED BY <1>12, <1>13 DEF PaidInv

(* It writes the client, which is not the row. *)
LEMMA WriteClientStep ==
  ASSUME PaidInv, NEW r \in RenewalRun, WriteClient(r)
  PROVE  PaidInv'
<1>1. NodeOf[r] \in Node
  BY AccessBounds
<1>2. AccessTypes /\ renewal[r] \in RenewalKind /\ renewal[r].new \in Nat /\ client[NodeOf[r]] \in ClientKind
  BY <1>1 DEF PaidInv, AccessTypes, RenewalKind
<1>3. renewal[r].pc = "write" /\ UNCHANGED <<clock, row, copy, switch, plan, due, clashed>>
  BY DEF WriteClient
<1>4. PICK new : /\ renewal' = [renewal EXCEPT ![r] = new]
                 /\ new \in {[renewal[r] EXCEPT !.pc = "extend"], Ended("raised")}
  BY DEF WriteClient, SetRenewal
<1>5. client' \in [Node -> ClientKind]
  <2>1. PICK c : c = [client EXCEPT ![NodeOf[r]].on = TRUE, ![NodeOf[r]].expires = renewal[r].new]
    OBVIOUS
  <2>2. c \in [Node -> ClientKind]
    BY <1>1, <1>2, <2>1 DEF AccessTypes, ClientKind
  <2>3. client' \in {client, c}
    BY <2>1 DEF WriteClient
  <2> QED BY <1>2, <2>2, <2>3 DEF AccessTypes
<1>6. /\ new \in RenewalKind
      /\ \/ new.pc = "raised"
         \/ new.pc = "extend" /\ new.seen = renewal[r].seen /\ new.since = renewal[r].since
            /\ new.new = renewal[r].new
  BY <1>2, <1>4 DEF RenewalKind, Ended
<1>7. renewal' \in [RenewalRun -> RenewalKind]
  BY <1>2, <1>4, <1>6 DEF AccessTypes
<1>8. \A s \in RenewalRun : renewal'[s] = IF s = r THEN new ELSE renewal[s]
  BY <1>2, <1>4 DEF AccessTypes
<1>9. AccessTypes'
  BY <1>2, <1>3, <1>5, <1>7 DEF AccessTypes
<1>10. ~clashed' => AloneInv'
  <2> SUFFICES ASSUME ~clashed'
               PROVE  AloneInv'
    OBVIOUS
  <2>1. AloneInv
    BY <1>3 DEF PaidInv
  <2>2. \A s \in RenewalRun : InFlight(s)' => InFlight(s) /\ renewal'[s].seen = renewal[s].seen
    BY <1>3, <1>6, <1>8 DEF InFlight
  <2>3. \A s \in RenewalRun : renewal'[s].pc \in {"write", "extend"} =>
          /\ renewal[s].pc \in {"write", "extend"} /\ renewal'[s].new = renewal[s].new
          /\ renewal'[s].seen = renewal[s].seen /\ renewal'[s].since = renewal[s].since
    BY <1>3, <1>6, <1>8
  <2> QED BY <1>3, <2>1, <2>2, <2>3 DEF AloneInv
<1> QED BY <1>9, <1>10 DEF PaidInv

(* It writes the row: what was paid grows by the period, the row at least by
   as much. *)
LEMMA ExtendProfileStep ==
  ASSUME PaidInv, NEW r \in RenewalRun, ExtendProfile(r)
  PROVE  PaidInv'
<1>1. NodeOf[r] \in Node /\ Period[r] \in Nat
  BY AccessBounds
<1>2. /\ AccessTypes /\ due \in Nat /\ row \in RowKind /\ renewal[r] \in RenewalKind
      /\ renewal[r].new \in Nat /\ renewal[r].since \in Nat /\ renewal[r].seen \in Nat
  BY DEF PaidInv, AccessTypes, RenewalKind
<1>3. renewal[r].pc = "extend" /\ UNCHANGED <<clock, client, switch, plan, clashed>>
  BY DEF ExtendProfile
<1>4. renewal' = [renewal EXCEPT ![r] = Ended("done")]
  BY DEF ExtendProfile, SetRenewal
<1>5. renewal' \in [RenewalRun -> RenewalKind]
  BY <1>2, <1>4 DEF AccessTypes, RenewalKind, Ended
<1>6. \A s \in RenewalRun : renewal'[s] = IF s = r THEN Ended("done") ELSE renewal[s]
  BY <1>2, <1>4 DEF AccessTypes
<1>7. /\ due' \in Nat
      /\ due' = due + Period[r] \/ due' = renewal[r].since + Period[r]
  <2>1. due \in Int /\ renewal[r].since \in Int
    BY <1>2
  <2>2. Max({due, renewal[r].since}) \in {due, renewal[r].since}
    BY <2>1, MaxOfSome
  <2>3. due' = Max({due, renewal[r].since}) + Period[r]
    BY DEF ExtendProfile
  <2> QED BY <1>1, <1>2, <2>2, <2>3
<1>8. CASE row.status = "deleted"
  <2>1. UNCHANGED <<row, copy>>
    BY <1>8 DEF ExtendProfile
  <2>2. AccessTypes'
    BY <1>2, <1>3, <1>5, <1>7, <2>1 DEF AccessTypes
  <2>3. ~clashed' => AloneInv'
    BY <1>3, <1>6, <1>8, <2>1 DEF PaidInv, AloneInv, InFlight, Ended
  <2> QED BY <2>2, <2>3 DEF PaidInv
<1>9. CASE row.status # "deleted"
  <2>1. PICK new : new = [status |-> "active", expires |-> renewal[r].new]
    OBVIOUS
  <2>2. new \in RowKind /\ new.expires = renewal[r].new
    BY <1>2, <2>1 DEF RowKind
  <2>3. row' = new /\ copy' \in [Node -> RowKind]
    BY <1>1, <1>2, <1>9, <2>1, <2>2, RowsStay DEF ExtendProfile
  <2>4. AccessTypes'
    BY <1>2, <1>3, <1>5, <1>7, <2>2, <2>3 DEF AccessTypes
  <2>5. ~clashed' => AloneInv'
    <3> SUFFICES ASSUME ~clashed'
                 PROVE  AloneInv'
      OBVIOUS
    <3>1. AloneInv
      BY <1>3 DEF PaidInv
    <3>2. InFlight(r) /\ \A s \in RenewalRun : ~InFlight(s)'
      BY <1>3, <1>6, <3>1 DEF AloneInv, InFlight, Ended
    <3>3. renewal[r].seen >= due /\ renewal[r].new >= renewal[r].seen + Period[r]
          /\ renewal[r].new >= renewal[r].since + Period[r]
      BY <1>3, <1>9, <3>1, <3>2 DEF AloneInv
    <3>4. row'.expires >= due'
      BY <1>1, <1>2, <1>7, <2>2, <2>3, <3>3
    <3>5. \A s \in RenewalRun : renewal'[s].pc \notin {"write", "extend"}
      BY <3>2 DEF InFlight
    <3> QED BY <3>2, <3>4, <3>5 DEF AloneInv
  <2> QED BY <2>4, <2>5 DEF PaidInv
<1> QED BY <1>8, <1>9

(* The steps of the switch, the reaper, refunds and the cabinet leave the
   expiry alone; a refund takes what was paid. *)
LEMMA OtherAccessSteps ==
  ASSUME PaidInv, NEW n \in Node,
         \/ Tick \/ WriteSwitch \/ ReapClients
         \/ \E on \in BOOLEAN : StartSwitch(n, on)
         \/ ReapRows(n) \/ Revoke(n) \/ VisitCabinet(n) \/ NodeStep(n)
  PROVE  PaidInv'
<1>1. /\ AccessTypes /\ clock \in Nat /\ due \in Nat /\ row \in RowKind /\ copy \in [Node -> RowKind]
      /\ client \in [Node -> ClientKind] /\ renewal \in [RenewalRun -> RenewalKind] /\ clashed \in BOOLEAN
  BY DEF PaidInv, AccessTypes
<1>2. /\ RowAt(n) \in RowKind /\ (ReadRow(n) => copy' \in [Node -> RowKind])
      /\ \A new \in RowKind : WriteRow(n, new) => row' = new /\ copy' \in [Node -> RowKind]
      /\ [row EXCEPT !.status = "expired"] \in RowKind
      /\ [row EXCEPT !.status = "deleted"] \in RowKind
  BY <1>1, RowsStay
<1>3. /\ [row EXCEPT !.status = "expired"].expires = row.expires
      /\ [row EXCEPT !.status = "expired"].status = "expired"
      /\ [row EXCEPT !.status = "deleted"].expires = row.expires
      /\ [row EXCEPT !.status = "deleted"].status = "deleted"
  BY <1>1 DEF RowKind
<1>4. \A m \in Node, on \in BOOLEAN, expires \in Nat :
        [client EXCEPT ![m].on = on, ![m].expires = expires] \in [Node -> ClientKind]
  BY <1>1 DEF ClientKind
<1>5. \A m \in Node : [client EXCEPT ![m].on = FALSE] \in [Node -> ClientKind]
  BY <1>1 DEF ClientKind
<1>6. \A m \in Node : \A c \in ClientKind : [client EXCEPT ![m] = c] \in [Node -> ClientKind]
  BY <1>1
<1>7. ASSUME UNCHANGED renewal, due' \in {due, 0}, row' \in RowKind, row'.expires = row.expires,
             row.status = "deleted" => row'.status = "deleted", clashed' \in BOOLEAN, clashed => clashed',
             clock' \in Nat, copy' \in [Node -> RowKind], client' \in [Node -> ClientKind],
             switch'.at = "write" => switch'.expires \in Nat /\ switch'.on \in BOOLEAN,
             plan' = [m \in Node |-> plan'[m]],
             \A m \in Node : /\ plan'[m].do = "set" => plan'[m].expires \in Nat /\ plan'[m].on \in BOOLEAN
                             /\ plan'[m].do \in {"nothing", "purge", "set"}
                             /\ plan'[m].do = "nothing" => plan'[m] = NoPlan
      PROVE  PaidInv'
  <2>1. ~clashed' => AloneInv'
    BY <1>1, <1>7, AloneStays DEF PaidInv
  <2>2. AccessTypes'
    BY <1>1, <1>7 DEF AccessTypes
  <2> QED BY <2>1, <2>2 DEF PaidInv
<1>8. CASE Tick
  BY <1>1, <1>7, <1>8 DEF Tick, AccessTypes
<1>9. CASE WriteSwitch
  <2>1. /\ switch.at = "write" /\ switch.expires \in Nat /\ switch.on \in BOOLEAN
        /\ UNCHANGED <<clock, row, copy, renewal, plan, due, clashed>> /\ switch'.at = "idle"
    BY <1>1, <1>9 DEF WriteSwitch, AccessTypes, Idle
  <2>2. client' \in [Node -> ClientKind]
    <3>1. CASE switch.node \in Node
      BY <1>1, <1>4, <1>9, <2>1, <3>1 DEF WriteSwitch
    <3>2. CASE switch.node \notin Node
      <4>1. [client EXCEPT ![switch.node].on = switch.on, ![switch.node].expires = switch.expires] = client
        BY <1>1, <3>2
      <4> QED BY <1>1, <1>9, <4>1 DEF WriteSwitch
    <3> QED BY <3>1, <3>2
  <2> QED BY <1>1, <1>7, <2>1, <2>2 DEF AccessTypes
<1>10. CASE ReapClients
  <2>1. UNCHANGED <<clock, row, copy, renewal, switch, plan, due, clashed>>
    BY <1>10 DEF ReapClients
  <2>2. client' \in [Node -> ClientKind]
    <3>1. client' = client \/ client' = [client EXCEPT ![reaper.node].on = FALSE]
      BY <1>10 DEF ReapClients
    <3>2. CASE reaper.node \in Node
      BY <1>1, <1>5, <3>1, <3>2
    <3>3. CASE reaper.node \notin Node
      <4>1. [client EXCEPT ![reaper.node].on = FALSE] = client
        BY <1>1, <3>3
      <4> QED BY <1>1, <3>1, <4>1
    <3> QED BY <3>2, <3>3
  <2> QED BY <1>1, <1>7, <2>1, <2>2 DEF AccessTypes
<1>11. ASSUME NEW on \in BOOLEAN, StartSwitch(n, on)
       PROVE  PaidInv'
  <2>1. /\ UNCHANGED <<clock, row, client, renewal, plan, due>> /\ ReadRow(n)
        /\ clashed' = (clashed \/ Working)
    BY <1>11 DEF StartSwitch
  <2>2. switch'.expires \in Nat /\ switch'.on \in BOOLEAN
    <3>1. client[n].expires \in Nat /\ RowAt(n).expires \in Nat
      BY <1>1, <1>2 DEF ClientKind, RowKind
    <3> QED BY <1>11, <3>1 DEF StartSwitch
  <2> QED BY <1>1, <1>2, <1>7, <2>1, <2>2 DEF AccessTypes, Working
<1>12. CASE ReapRows(n)
  <2>1. UNCHANGED <<clock, client, renewal, switch, plan, due, clashed>>
    BY <1>12 DEF ReapRows
  <2>2. CASE row.status = "active" /\ row.expires > 0 /\ row.expires <= clock
    <3>1. row' = [row EXCEPT !.status = "expired"] /\ copy' \in [Node -> RowKind]
      BY <1>2, <1>12, <2>2 DEF ReapRows
    <3> QED BY <1>1, <1>2, <1>3, <1>7, <2>1, <2>2, <3>1 DEF AccessTypes
  <2>3. CASE ~(row.status = "active" /\ row.expires > 0 /\ row.expires <= clock)
    <3>1. UNCHANGED <<row, copy>>
      BY <1>12, <2>3 DEF ReapRows
    <3> QED BY <1>1, <1>7, <2>1, <3>1 DEF AccessTypes
  <2> QED BY <2>2, <2>3
<1>13. CASE Revoke(n)
  <2>1. UNCHANGED <<clock, renewal, switch, plan, clashed>> /\ due' = 0
    BY <1>13 DEF Revoke
  <2>2. client' \in [Node -> ClientKind]
    BY <1>1, <1>4, <1>13 DEF Revoke
  <2>3. CASE row.status = "active"
    <3>1. row' = [row EXCEPT !.status = "expired"] /\ copy' \in [Node -> RowKind]
      BY <1>2, <1>13, <2>3 DEF Revoke
    <3> QED BY <1>1, <1>2, <1>3, <1>7, <2>1, <2>2, <2>3, <3>1 DEF AccessTypes
  <2>4. CASE row.status # "active"
    <3>1. UNCHANGED <<row, copy>>
      BY <1>13, <2>4 DEF Revoke
    <3> QED BY <1>1, <1>7, <2>1, <2>2, <3>1 DEF AccessTypes
  <2> QED BY <2>3, <2>4
<1>14. CASE VisitCabinet(n)
  <2>1. UNCHANGED <<clock, client, renewal, switch, plan, due, clashed>>
    BY <1>14 DEF VisitCabinet
  <2>2. CASE row.status # "deleted"
    <3>1. row' = [row EXCEPT !.status = "deleted"] /\ copy' \in [Node -> RowKind]
      BY <1>2, <1>14, <2>2 DEF VisitCabinet
    <3> QED BY <1>1, <1>2, <1>3, <1>7, <2>1, <2>2, <3>1 DEF AccessTypes
  <2>3. CASE row.status = "deleted"
    <3>1. row' = row /\ copy' \in [Node -> RowKind]
      BY <1>2, <1>14, <2>3 DEF VisitCabinet
    <3> QED BY <1>1, <1>7, <2>1, <3>1 DEF AccessTypes
  <2> QED BY <2>2, <2>3
<1>15. CASE SyncCopy(n)
  <2>1. UNCHANGED <<clock, row, client, renewal, switch, plan, due, clashed>>
        /\ copy' \in [Node -> RowKind]
    BY <1>1, <1>15 DEF SyncCopy
  <2> QED BY <1>1, <1>7, <2>1 DEF AccessTypes
<1>16. CASE LoadProfiles(n)
  <2>1. UNCHANGED <<clock, row, copy, client, renewal, switch, due, clashed>>
        /\ plan' = [plan EXCEPT ![n] = Wanted(copy[n])]
    BY <1>16 DEF LoadProfiles
  <2>2. PICK want : want = Wanted(copy[n])
    OBVIOUS
  <2>3. /\ want.do = "set" => want.expires \in Nat /\ want.on \in BOOLEAN
        /\ want.do \in {"nothing", "purge", "set"} /\ (want.do = "nothing" => want = NoPlan)
    <3>1. copy[n].expires \in Nat
      BY <1>1 DEF RowKind
    <3> QED BY <2>2, <3>1 DEF Wanted, NoPlan
  <2>4. /\ plan' = [m \in Node |-> plan'[m]]
        /\ \A m \in Node : plan'[m] = IF m = n THEN want ELSE plan[m]
    BY <1>1, <2>1, <2>2 DEF AccessTypes
  <2> QED BY <1>1, <1>7, <2>1, <2>3, <2>4 DEF AccessTypes
<1>17. CASE ApplyPlan(n)
  <2>1. UNCHANGED <<clock, row, copy, renewal, switch, due, clashed>>
        /\ plan' = [plan EXCEPT ![n] = NoPlan] /\ plan[n] # NoPlan
    BY <1>17 DEF ApplyPlan
  <2>2. /\ plan' = [m \in Node |-> plan'[m]]
        /\ \A m \in Node : plan'[m] = IF m = n THEN NoPlan ELSE plan[m]
    BY <1>1, <2>1 DEF AccessTypes
  <2>3. client' \in [Node -> ClientKind]
    <3>1. CASE plan[n].do = "purge"
      <4>1. NoClient \in ClientKind
        BY DEF NoClient, ClientKind
      <4> QED BY <1>6, <1>17, <3>1, <4>1 DEF ApplyPlan
    <3>2. CASE plan[n].do = "set" /\ (client[n].present \/ plan[n].on)
      <4>1. PICK c : c = [present |-> TRUE, on |-> plan[n].on, expires |-> plan[n].expires]
        OBVIOUS
      <4>2. c \in ClientKind
        BY <1>1, <3>2, <4>1 DEF AccessTypes, ClientKind
      <4>3. client' = [client EXCEPT ![n] = c]
        BY <1>17, <3>2, <4>1 DEF ApplyPlan
      <4> QED BY <1>6, <4>2, <4>3
    <3>3. CASE plan[n].do = "set" /\ ~(client[n].present \/ plan[n].on)
      BY <1>1, <1>17, <3>3 DEF ApplyPlan
    <3> QED BY <1>1, <2>1, <3>1, <3>2, <3>3 DEF AccessTypes
  <2>4. NoPlan.do = "nothing"
    BY DEF NoPlan
  <2> QED BY <1>1, <1>7, <2>1, <2>2, <2>3, <2>4 DEF AccessTypes
<1> QED BY <1>8, <1>9, <1>10, <1>11, <1>12, <1>13, <1>14, <1>15, <1>16, <1>17 DEF NodeStep

(* The first states. *)
LEMMA AccessStarts == AccessInit => PaidInv
<1> SUFFICES ASSUME AccessInit
             PROVE  PaidInv
  OBVIOUS
<1>1. FirstExpiry \in Nat
  BY AccessBounds
<1>2. row \in RowKind /\ row.expires = FirstExpiry
  BY <1>1 DEF AccessInit, RowKind
<1>3. copy \in [Node -> RowKind]
  <2>1. NoRow \in RowKind
    BY DEF NoRow, RowKind
  <2> QED BY <1>2, <2>1 DEF AccessInit
<1>4. client \in [Node -> ClientKind]
  BY <1>1 DEF AccessInit, NoClient, ClientKind
<1>5. renewal \in [RenewalRun -> RenewalKind] /\ \A r \in RenewalRun : renewal[r].pc = "idle"
  BY DEF AccessInit, Ended, RenewalKind
<1>6. plan = [n \in Node |-> plan[n]] /\ \A n \in Node : plan[n] = NoPlan /\ plan[n].do = "nothing"
  BY DEF AccessInit, NoPlan
<1>7. clock = 0 /\ due = FirstExpiry /\ clashed = FALSE /\ switch.at = "idle"
  BY DEF AccessInit, Idle
<1>8. AccessTypes
  BY <1>1, <1>2, <1>3, <1>4, <1>5, <1>6, <1>7 DEF AccessTypes
<1>9. AloneInv
  BY <1>1, <1>2, <1>5, <1>7 DEF AloneInv, InFlight
<1> QED BY <1>8, <1>9 DEF PaidInv

(* PaidTimeKept: for any nodes, renewals and periods, as long as no two writers
   meet and none works from what another node has not passed on, the row of a
   profile that was not deleted expires no earlier than what was paid since
   the last refund adds up to. *)
THEOREM PaidTimeIsKept == AccessSpec => []PaidTimeKept
<1>1. AccessInit => PaidInv
  BY AccessStarts
<1>2. PaidInv /\ [AccessNext]_accessVars => PaidInv'
  <2> SUFFICES ASSUME PaidInv, [AccessNext]_accessVars
               PROVE  PaidInv'
    OBVIOUS
  <2>1. CASE UNCHANGED accessVars
    <3>1. UNCHANGED <<clock, row, copy, client, renewal, switch, plan, due, clashed>>
      BY <2>1 DEF accessVars
    <3>2. AccessTypes' /\ (~clashed' => AloneInv')
      BY <3>1 DEF PaidInv, AccessTypes, AloneInv, InFlight
    <3> QED BY <3>2 DEF PaidInv
  <2>2. ASSUME NEW r \in RenewalRun, RenewalStep(r)
        PROVE  PaidInv'
    BY <2>2, ReadProfileStep, ReadClientStep, WriteClientStep, ExtendProfileStep DEF RenewalStep
  <2>3. CASE Tick \/ WriteSwitch \/ ReapClients
    <3>1. Home \in Node
      BY AccessBounds
    <3> QED BY <2>3, <3>1, OtherAccessSteps
  <2>4. ASSUME NEW n \in Node,
               \/ \E on \in BOOLEAN : StartSwitch(n, on)
               \/ ReapRows(n) \/ Revoke(n) \/ VisitCabinet(n) \/ NodeStep(n)
        PROVE  PaidInv'
    BY <2>4, OtherAccessSteps
  <2> QED BY <2>1, <2>2, <2>3, <2>4 DEF AccessNext
<1>3. PaidInv => PaidTimeKept
  BY DEF PaidInv, AloneInv, PaidTimeKept
<1> QED BY <1>1, <1>2, <1>3, PTL DEF AccessSpec

-----------------------------------------------------------------------------
(* The cabinet. A link that still opens while a newer one of its address
   exists is in its last second, and every address that an order of the
   profile carries is entitled to see it. *)
LinkKind == [mail : Mail, age : Nat, live : BOOLEAN]
LinksInv ==
  /\ link \in Seq(LinkKind)
  /\ asking \in [Requester -> Mail \cup {NoMail}]
  /\ \A i, j \in DOMAIN link :
       i < j /\ link[i].mail = link[j].mail /\ link[i].live => link[i].age >= LinkTTL
AddressesInv ==
  /\ carried \in Seq(Mail \cup {NoMail})
  /\ binder \in [Binder -> [at : {"idle", "insert", "write"}, mail : Mail \cup {NoMail},
                            seen : Nat, change : BOOLEAN]]
  /\ \A i \in DOMAIN carried : carried[i] # NoMail => carried[i] \in entitled
CabinetInv == LinksInv /\ AddressesInv

(* A link that is made cancels the older ones of its address, except one in
   its last second. *)
LEMMA LinkMade ==
  ASSUME LinksInv, NEW r \in Requester, CreateMagicLink(r)
  PROVE  LinksInv'
<1>1. PICK m \in Mail : asking[r] = m
  BY DEF LinksInv, CreateMagicLink
<1>2. LinkTTL \in Nat
  BY CabinetAssumption
<1> DEFINE left == [i \in DOMAIN link |-> [link[i] EXCEPT !.live = link[i].live /\ ~Superseded(link[i], m)]]
           new == [mail |-> m, age |-> 0, live |-> TRUE]
<1>3. link \in Seq(LinkKind) /\ Len(link) \in Nat /\ DOMAIN link = 1..Len(link)
      /\ \A i \in DOMAIN link : link[i] \in LinkKind
  BY DEF LinksInv
<1>4. /\ left \in Seq(LinkKind) /\ DOMAIN left = DOMAIN link /\ Len(left) = Len(link)
      /\ \A i \in DOMAIN link : /\ left[i].mail = link[i].mail /\ left[i].age = link[i].age
                                /\ left[i].live => link[i].live /\ ~Superseded(link[i], m)
  <2>1. \A i \in DOMAIN link : left[i] = [link[i] EXCEPT !.live = link[i].live /\ ~Superseded(link[i], m)]
    OBVIOUS
  <2>2. \A i \in DOMAIN link : (link[i].live /\ ~Superseded(link[i], m)) \in BOOLEAN
    OBVIOUS
  <2>3. \A i \in DOMAIN link : left[i] \in LinkKind /\ left[i].mail = link[i].mail /\ left[i].age = link[i].age
                               /\ (left[i].live => link[i].live /\ ~Superseded(link[i], m))
    BY <1>3, <2>1, <2>2 DEF LinkKind
  <2>4. DOMAIN left = 1..Len(link)
    BY <1>3
  <2>5. left \in [1..Len(link) -> LinkKind]
    BY <1>3, <2>3, <2>4
  <2> QED BY <1>3, <2>3, <2>4, <2>5
<1>5. new \in LinkKind /\ new.mail = m /\ new.age = 0 /\ new.live
  BY DEF LinkKind
<1>6. link' = Append(left, new) /\ asking' = [asking EXCEPT ![r] = NoMail]
  BY <1>1 DEF CreateMagicLink
<1> HIDE DEF left, new
<1>7. /\ link' \in Seq(LinkKind) /\ DOMAIN link' = 1..Len(link) + 1
      /\ \A i \in DOMAIN link : link'[i] = left[i]
      /\ link'[Len(link) + 1] = new
  BY <1>3, <1>4, <1>5, <1>6
<1>8. asking' \in [Requester -> Mail \cup {NoMail}]
  BY <1>6 DEF LinksInv
<1>9. ASSUME NEW i \in DOMAIN link', NEW j \in DOMAIN link', i < j, link'[i].mail = link'[j].mail, link'[i].live
      PROVE  link'[i].age >= LinkTTL
  <2>1. i \in DOMAIN link /\ link'[i] = left[i] /\ link[i] \in LinkKind
    BY <1>3, <1>7, <1>9
  <2>2. CASE j \in DOMAIN link
    <3>1. link[i].live /\ link[i].mail = link[j].mail /\ link'[i].age = link[i].age
      BY <1>4, <1>7, <1>9, <2>1, <2>2
    <3> QED BY <1>9, <2>1, <2>2, <3>1 DEF LinksInv
  <2>3. CASE j \notin DOMAIN link
    <3>1. j = Len(link) + 1 /\ link'[j].mail = m
      BY <1>3, <1>5, <1>7, <2>3
    <3>2. link[i].mail = m /\ ~Superseded(link[i], m) /\ link'[i].age = link[i].age
      BY <1>4, <1>9, <2>1, <3>1
    <3>3. link[i].age \in Nat
      BY <2>1 DEF LinkKind
    <3> QED BY <1>2, <3>2, <3>3 DEF Superseded
  <2> QED BY <2>2, <2>3
<1> QED BY <1>7, <1>8, <1>9 DEF LinksInv

(* The ages of links only grow. *)
LEMMA LinksGrowOld ==
  ASSUME LinksInv, LinksAge
  PROVE  LinksInv'
<1>1. LinkTTL \in Nat
  BY CabinetAssumption
<1>2. link \in Seq(LinkKind) /\ Len(link) \in Nat /\ DOMAIN link = 1..Len(link)
      /\ \A i \in DOMAIN link : link[i] \in LinkKind /\ link[i].age \in Nat
  <2>1. link \in Seq(LinkKind) /\ Len(link) \in Nat /\ DOMAIN link = 1..Len(link)
        /\ \A i \in DOMAIN link : link[i] \in LinkKind
    BY DEF LinksInv
  <2>2. \A l \in LinkKind : l.age \in Nat
    BY DEF LinkKind
  <2> QED BY <2>1, <2>2
<1>3. link' = [i \in DOMAIN link |->
                 [link[i] EXCEPT !.age = IF link[i].age <= LinkTTL THEN link[i].age + 1 ELSE link[i].age]]
  BY DEF LinksAge
<1>4. \A i \in DOMAIN link :
        link'[i] = [link[i] EXCEPT !.age = IF link[i].age <= LinkTTL THEN link[i].age + 1 ELSE link[i].age]
  BY <1>3
<1>5. \A i \in DOMAIN link : (IF link[i].age <= LinkTTL THEN link[i].age + 1 ELSE link[i].age) \in Nat
  BY <1>2
<1>6. \A i \in DOMAIN link : /\ link'[i] \in LinkKind /\ link'[i].mail = link[i].mail
                             /\ link'[i].live = link[i].live /\ link'[i].age >= link[i].age
                             /\ link'[i].age \in Nat
  <2>1. \A l \in LinkKind : \A age \in Nat :
          /\ [l EXCEPT !.age = age] \in LinkKind /\ [l EXCEPT !.age = age].mail = l.mail
          /\ [l EXCEPT !.age = age].live = l.live /\ [l EXCEPT !.age = age].age = age
    BY DEF LinkKind
  <2>2. SUFFICES ASSUME NEW i \in DOMAIN link
                 PROVE  /\ link'[i] \in LinkKind /\ link'[i].mail = link[i].mail
                        /\ link'[i].live = link[i].live /\ link'[i].age >= link[i].age
                        /\ link'[i].age \in Nat
    OBVIOUS
  <2>3. PICK age \in Nat : age = IF link[i].age <= LinkTTL THEN link[i].age + 1 ELSE link[i].age
    BY <1>5
  <2>4. link'[i] = [link[i] EXCEPT !.age = age]
    BY <1>4, <2>3
  <2>5. link[i] \in LinkKind /\ link[i].age \in Nat /\ age >= link[i].age
    BY <1>1, <1>2, <2>3
  <2> QED BY <2>1, <2>4, <2>5
<1>7. DOMAIN link' = 1..Len(link)
  BY <1>2, <1>3
<1>8. link' \in [1..Len(link) -> LinkKind]
  <2>1. link' = [i \in 1..Len(link) |-> link'[i]]
    BY <1>2, <1>3
  <2> QED BY <1>2, <1>6, <2>1
<1>9. link' \in Seq(LinkKind)
  BY <1>2, <1>8
<1>10. UNCHANGED asking
  BY DEF LinksAge
<1>11. \A i, j \in DOMAIN link' :
         i < j /\ link'[i].mail = link'[j].mail /\ link'[i].live => link'[i].age >= LinkTTL
  BY <1>1, <1>2, <1>6, <1>7 DEF LinksInv
<1> QED BY <1>9, <1>10, <1>11 DEF LinksInv

(* A request reads the orders. *)
LEMMA OrdersRead ==
  ASSUME AddressesInv, NEW b \in Binder, NEW m \in Mail \cup {NoMail}, ReadOrders(b, m)
  PROVE  binder' \in [Binder -> [at : {"idle", "insert", "write"}, mail : Mail \cup {NoMail},
                                 seen : Nat, change : BOOLEAN]]
<1>1. PICK change \in BOOLEAN : change = (CurrentMail # m)
  OBVIOUS
<1>2. Len(carried) \in Nat
  BY DEF AddressesInv
<1>3. [at |-> "write", mail |-> m, seen |-> Len(carried), change |-> change]
        \in [at : {"idle", "insert", "write"}, mail : Mail \cup {NoMail}, seen : Nat, change : BOOLEAN]
  BY <1>2
<1>4. IdleBinder \in [at : {"idle", "insert", "write"}, mail : Mail \cup {NoMail}, seen : Nat, change : BOOLEAN]
  BY DEF IdleBinder
<1>5. PICK v : binder' = [binder EXCEPT ![b] = v]
               /\ v \in {IdleBinder, [at |-> "write", mail |-> m, seen |-> Len(carried), change |-> change]}
  BY <1>1 DEF ReadOrders, SetBinder
<1> QED BY <1>3, <1>4, <1>5 DEF AddressesInv

(* The steps that bind addresses, deliver orders and delete the profile. *)
LEMMA AddressStepHolds ==
  ASSUME AddressesInv,
         \/ \E b \in Binder :
              InsertProfile(b) \/ WriteAddress(b) \/ \E m \in Mail : BeginBinding(b, m)
         \/ \E m \in Mail \cup {NoMail} : DeliverOrderFor(m)
         \/ DeleteProfile
         \/ ChangesAge
  PROVE  AddressesInv' /\ UNCHANGED linkVars
<1> DEFINE Kind == [at : {"idle", "insert", "write"}, mail : Mail \cup {NoMail}, seen : Nat, change : BOOLEAN]
<1>1. /\ carried \in Seq(Mail \cup {NoMail}) /\ DOMAIN carried = 1..Len(carried) /\ Len(carried) \in Nat
      /\ \A i \in DOMAIN carried : carried[i] \in Mail \cup {NoMail}
      /\ binder \in [Binder -> Kind]
      /\ IdleBinder \in Kind
  BY DEF AddressesInv, IdleBinder
<1> HIDE DEF Kind
<1>2. ASSUME UNCHANGED <<carried, entitled>>, binder' \in [Binder -> Kind]
      PROVE  AddressesInv'
  BY <1>2 DEF AddressesInv, Kind
<1>3. ASSUME NEW b \in Binder, InsertProfile(b)
      PROVE  AddressesInv' /\ UNCHANGED linkVars
  <2>1. binder[b].mail \in Mail \cup {NoMail}
    BY <1>1 DEF Kind
  <2>2. binder' \in [Binder -> Kind]
    <3>1. CASE ReadOrders(b, binder[b].mail)
      BY <2>1, <3>1, OrdersRead DEF Kind
    <3>2. CASE SetBinder(b, IdleBinder)
      BY <1>1, <3>2 DEF SetBinder
    <3> QED BY <1>3, <3>1, <3>2 DEF InsertProfile
  <2> QED BY <1>2, <1>3, <2>2 DEF InsertProfile
<1>4. ASSUME NEW b \in Binder, NEW m \in Mail, BeginBinding(b, m)
      PROVE  AddressesInv' /\ UNCHANGED linkVars
  <2>1. binder' \in [Binder -> Kind]
    <3>1. CASE ReadOrders(b, m)
      BY <3>1, OrdersRead DEF Kind
    <3>2. CASE SetBinder(b, [IdleBinder EXCEPT !.at = "insert", !.mail = m])
      <4>1. [IdleBinder EXCEPT !.at = "insert", !.mail = m] \in Kind
        BY DEF IdleBinder, Kind
      <4> QED BY <1>1, <3>2, <4>1 DEF SetBinder
    <3> QED BY <1>4, <3>1, <3>2 DEF BeginBinding
  <2> QED BY <1>2, <1>4, <2>1 DEF BeginBinding
<1>5. ASSUME NEW b \in Binder, WriteAddress(b)
      PROVE  AddressesInv' /\ UNCHANGED linkVars
  <2>1. PICK m \in Mail \cup {NoMail}, upto \in Nat : binder[b].mail = m /\ binder[b].seen = upto
    BY <1>1 DEF Kind
  <2>2. /\ carried' = IF upto > 0 THEN Rebound(upto, m) ELSE Append(carried, m)
        /\ entitled' = ({m} \cup {carried[i] : i \in upto+1..Len(carried)}) \ {NoMail}
        /\ binder' = [binder EXCEPT ![b] = IdleBinder]
    BY <1>5, <2>1 DEF WriteAddress, SetBinder
  <2>3. CASE upto > 0
    <3>1. carried' = [i \in DOMAIN carried |-> IF i <= upto THEN m ELSE carried[i]]
      BY <2>2, <2>3 DEF Rebound
    <3>2. carried' \in [1..Len(carried) -> Mail \cup {NoMail}]
      BY <1>1, <3>1
    <3>3. carried' \in Seq(Mail \cup {NoMail}) /\ DOMAIN carried' = 1..Len(carried)
      BY <1>1, <3>2
    <3>4. \A i \in DOMAIN carried' : carried'[i] # NoMail => carried'[i] \in entitled'
      <4>1. ASSUME NEW i \in 1..Len(carried), carried'[i] # NoMail
            PROVE  carried'[i] \in entitled'
        <5>1. carried'[i] = IF i <= upto THEN m ELSE carried[i]
          BY <1>1, <3>1
        <5>2. i <= upto \/ i \in upto+1..Len(carried)
          BY <1>1
        <5> QED BY <2>2, <4>1, <5>1, <5>2
      <4> QED BY <3>3, <4>1
    <3>5. binder' \in [Binder -> Kind]
      BY <1>1, <2>2
    <3> QED BY <1>5, <3>3, <3>4, <3>5 DEF AddressesInv, Kind, WriteAddress
  <2>4. CASE ~(upto > 0)
    <3>1. upto = 0 /\ carried' = Append(carried, m)
      BY <2>1, <2>2, <2>4
    <3>2. /\ carried' \in Seq(Mail \cup {NoMail}) /\ DOMAIN carried' = 1..Len(carried) + 1
          /\ \A i \in DOMAIN carried : carried'[i] = carried[i]
          /\ carried'[Len(carried) + 1] = m
      BY <1>1, <3>1
    <3>3. \A i \in DOMAIN carried' : carried'[i] # NoMail => carried'[i] \in entitled'
      BY <1>1, <2>2, <3>1, <3>2
    <3>4. binder' \in [Binder -> Kind]
      BY <1>1, <2>2
    <3> QED BY <1>5, <3>2, <3>3, <3>4 DEF AddressesInv, Kind, WriteAddress
  <2> QED BY <2>3, <2>4
<1>6. ASSUME NEW m \in Mail \cup {NoMail}, DeliverOrderFor(m)
      PROVE  AddressesInv' /\ UNCHANGED linkVars
  <2>1. /\ carried' \in Seq(Mail \cup {NoMail}) /\ DOMAIN carried' = 1..Len(carried) + 1
        /\ \A i \in DOMAIN carried : carried'[i] = carried[i]
        /\ carried'[Len(carried) + 1] = m
    BY <1>1, <1>6 DEF DeliverOrderFor
  <2>2. entitled' = entitled \cup ({m} \ {NoMail})
    BY <1>6 DEF DeliverOrderFor
  <2>3. \A i \in DOMAIN carried' : carried'[i] # NoMail => carried'[i] \in entitled'
    BY <1>1, <2>1, <2>2 DEF AddressesInv
  <2> QED BY <1>6, <2>1, <2>3 DEF AddressesInv, DeliverOrderFor
<1>7. ASSUME DeleteProfile \/ ChangesAge
      PROVE  AddressesInv' /\ UNCHANGED linkVars
  <2>1. UNCHANGED <<linkVars, carried, entitled, binder>>
    BY <1>7 DEF DeleteProfile, ChangesAge
  <2> QED BY <1>1, <1>2, <2>1
<1> QED BY <1>3, <1>4, <1>5, <1>6, <1>7

(* OwnerSeesProfile: whoever opens a link that shows the profile holds the
   newest link of an address that is entitled to it (consume_magic_link,
   create_magic_link, _bind_profile_email), for any number of addresses,
   links, orders and threads. *)
THEOREM OwnerSeesTheProfile == CabinetSpec => []OwnerSeesProfile
<1>1. CabinetInit => CabinetInv
  <2> SUFFICES ASSUME CabinetInit
               PROVE  CabinetInv
    OBVIOUS
  <2>1. LinksInv
    <3>1. link = <<>> /\ asking = [r \in Requester |-> NoMail]
      BY DEF CabinetInit
    <3>2. DOMAIN link = {}
      BY <3>1
    <3> QED BY <3>1, <3>2 DEF LinksInv
  <2>2. AddressesInv
    <3>1. carried = <<>> /\ DOMAIN carried = {} /\ binder = [b \in Binder |-> IdleBinder]
      BY DEF CabinetInit
    <3> QED BY <3>1 DEF AddressesInv, IdleBinder
  <2> QED BY <2>1, <2>2 DEF CabinetInv
<1>2. CabinetInv /\ [CabinetNext]_cabinetVars => CabinetInv'
  <2> SUFFICES ASSUME LinksInv, AddressesInv, [CabinetNext]_cabinetVars
               PROVE  LinksInv' /\ AddressesInv'
    BY DEF CabinetInv
  <2>1. ASSUME UNCHANGED linkVars
        PROVE  LinksInv'
    BY <2>1 DEF linkVars, LinksInv
  <2>2. ASSUME UNCHANGED bindVars
        PROVE  AddressesInv'
    BY <2>2 DEF bindVars, AddressesInv
  <2>3. CASE UNCHANGED cabinetVars
    BY <2>1, <2>2, <2>3 DEF cabinetVars
  <2>4. ASSUME NEW r \in Requester, CreateMagicLink(r)
        PROVE  LinksInv' /\ AddressesInv'
    BY <2>2, <2>4, LinkMade DEF CreateMagicLink
  <2>5. ASSUME NEW r \in Requester, NEW m \in Mail, AskForLink(r, m)
        PROVE  LinksInv' /\ AddressesInv'
    <3>1. asking' = [asking EXCEPT ![r] = m] /\ UNCHANGED <<link, bindVars>>
      BY <2>5 DEF AskForLink
    <3> QED BY <2>2, <3>1 DEF LinksInv
  <2>6. CASE LinksAge
    BY <2>2, <2>6, LinksGrowOld DEF LinksAge
  <2>7. CASE \/ \E b \in Binder :
                  InsertProfile(b) \/ WriteAddress(b) \/ \E m \in Mail : BeginBinding(b, m)
             \/ \E m \in Mail \cup {NoMail} : DeliverOrderFor(m)
             \/ DeleteProfile
             \/ ChangesAge
    BY <2>1, <2>7, AddressStepHolds
  <2> QED BY <2>3, <2>4, <2>5, <2>6, <2>7 DEF CabinetNext
<1>3. CabinetInv => OwnerSeesProfile
  <2> SUFFICES ASSUME LinksInv, AddressesInv, NEW i \in DOMAIN link, Opens(link[i]), ShowsProfile(link[i].mail)
               PROVE  /\ link[i].mail \in entitled
                      /\ \/ \A j \in DOMAIN link : link[j].mail = link[i].mail => j <= i
                         \/ link[i].age = LinkTTL
    BY DEF CabinetInv, OwnerSeesProfile
  <2>1. /\ link[i] \in LinkKind /\ link[i].mail \in Mail /\ link[i].age \in Nat
        /\ DOMAIN link = 1..Len(link) /\ Len(link) \in Nat /\ LinkTTL \in Nat /\ NoMail \notin Mail
    <3>1. link[i] \in LinkKind /\ DOMAIN link = 1..Len(link) /\ Len(link) \in Nat
      BY DEF LinksInv
    <3>2. link[i].mail \in Mail /\ link[i].age \in Nat
      BY <3>1 DEF LinkKind
    <3> QED BY <3>1, <3>2, CabinetAssumption
  <2>2. link[i].mail \in entitled
    BY <2>1 DEF AddressesInv, ShowsProfile
  <2>3. ASSUME NEW j \in DOMAIN link, link[j].mail = link[i].mail, ~(j <= i)
        PROVE  link[i].age = LinkTTL
    <3>1. i < j /\ link[i].live /\ link[i].age <= LinkTTL
      BY <2>1, <2>3 DEF Opens
    <3> QED BY <2>1, <2>3, <3>1 DEF LinksInv
  <2> QED BY <2>2, <2>3
<1> QED BY <1>1, <1>2, <1>3, PTL DEF CabinetSpec
=============================================================================
