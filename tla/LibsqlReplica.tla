---------------------------- MODULE LibsqlReplica ----------------------------
(***************************************************************************)
(* The embedded replica every process opens its store through: the shared  *)
(* connection of LibsqlReplicaManager with its two locks, and the          *)
(* transactions Store.transaction runs over a LibsqlConnectionProxy.       *)
(*                                                                         *)
(* Each thread makes two writes and commits them; its body may raise       *)
(* between them. Store.transaction begins with BEGIN and holds the lock    *)
(* until its end; consume_magic_link moreover synchronises inside of its   *)
(* transaction. The subscription service writes without BEGIN: each        *)
(* statement takes the lock for itself, the driver opens a transaction     *)
(* when a write finds none, and close() commits what a raised body wrote.  *)
(* A lost stream takes with it what the primary has not committed.         *)
(***************************************************************************)
EXTENDS Integers, FiniteSets

CONSTANTS
  Thread,     \* threads of one process that write through the connection
  NoThread,   \* no holder of a lock
  Syncer,     \* the background thread of sync_if_stale
  MaxLosses,  \* bound on lost streams
  MaxSyncs    \* bound on background synchronisations

ASSUME ReplicaAssumption ==
  /\ NoThread \notin Thread
  /\ Syncer \notin Thread
  /\ NoThread # Syncer
  /\ MaxLosses \in Nat
  /\ MaxSyncs \in Nat

VARIABLES
  manner,      \* how each thread writes: after BEGIN, with a refresh inside, or bare
  execLock,    \* holder of _exec_lock
  syncLock,    \* holder of _sync_lock
  stream,      \* does the stream behind _conn live
  pending,     \* writes made on _conn since its last commit or rollback
  primary,     \* writes committed in the cloud
  replica,     \* writes the local replica shows to readers
  stage,       \* what each thread does
  retried,     \* has the running statement been retried
  broken,      \* bare writers whose body raised: close() commits
  outcome,     \* how the writing ended for each thread
  losses,      \* streams lost so far
  syncs,       \* background synchronisations started
  unsynced     \* threads whose flush failed

replicaVars == <<manner, execLock, syncLock, stream, pending, primary, replica, stage,
                 retried, broken, outcome, losses, syncs, unsynced>>

Write == Thread \X {1, 2}
WritesOf(t) == {t} \X {1, 2}

Manner == {"begin", "refresh", "bare"}

ReplicaStage ==
  {"idle", "miss", "refreshing", "replaceInside", "write1", "write2", "commit", "reconnect1", "reconnect2", "reconnectCommit",
   "rollback", "flush", "syncing", "replace", "end"}

ReplicaTypeOK ==
  /\ manner \in [Thread -> Manner]
  /\ broken \subseteq Thread
  /\ execLock \in Thread \cup {NoThread, Syncer}
  /\ syncLock \in Thread \cup {NoThread, Syncer}
  /\ stream \in BOOLEAN
  /\ pending \subseteq Write
  /\ primary \subseteq Write
  /\ replica \subseteq Write
  /\ stage \in [Thread \cup {Syncer} -> ReplicaStage]
  /\ retried \in [Thread -> BOOLEAN]
  /\ outcome \in [Thread -> {"open", "ok", "raised"}]
  /\ losses \in 0..MaxLosses
  /\ syncs \in 0..MaxSyncs
  /\ unsynced \subseteq Thread

ReplicaInit ==
  /\ manner \in [Thread -> Manner]
  /\ broken = {}
  /\ execLock = NoThread
  /\ syncLock = NoThread
  /\ stream = TRUE
  /\ pending = {}
  /\ primary = {}
  /\ replica = {}
  /\ stage = [p \in Thread \cup {Syncer} |-> "idle"]
  /\ retried = [t \in Thread |-> FALSE]
  /\ outcome = [t \in Thread |-> "open"]
  /\ losses = 0
  /\ syncs = 0
  /\ unsynced = {}

Go(p, s) == stage' = [stage EXCEPT ![p] = s]

(* _connect_replica: a new connection, and with it a new stream; what the old
   one had not committed is gone. A replica found corrupt is built anew. *)
ConnectReplica ==
  /\ stream' = TRUE
  /\ pending' = {}
  /\ replica' \in {replica, {}}

(* Faulty variant of the next definition: every statement takes the lock for
   itself. *)
_BeginWithoutLock(t) ==
  /\ stage[t] = "idle"
  /\ Go(t, IF manner[t] = "refresh" THEN "miss" ELSE "write1")
  /\ UNCHANGED <<manner, execLock, syncLock, stream, pending, primary, replica, retried,
                 broken, outcome, losses, syncs, unsynced>>

(* BEGIN IMMEDIATE: waits for the lock; an error of the statement, such as that
   a bare writer's transaction is open, is swallowed. The link that
   consume_magic_link looks for is not there at first. *)
BeginTransaction(t) ==
  /\ stage[t] = "idle"
  /\ \/ manner[t] = "bare" /\ UNCHANGED execLock
     \/ manner[t] # "bare" /\ execLock = NoThread /\ execLock' = t
  /\ Go(t, IF manner[t] = "refresh" THEN "miss" ELSE "write1")
  /\ UNCHANGED <<manner, syncLock, stream, pending, primary, replica, retried, broken,
                 outcome, losses, syncs, unsynced>>

(* A statement of a proxy that does not hold the lock takes it for the call. *)
MayExecute(t) == execLock \in {t, NoThread}

(* An error leaves the body: a transaction is rolled back, the connection of a
   bare writer that has written is closed with a commit. *)
LeaveBody(t) ==
  \/ manner[t] # "bare" /\ Go(t, "rollback") /\ UNCHANGED broken
  \/ manner[t] = "bare" /\ Go(t, "commit") /\ broken' = broken \cup {t}

(* A write. On a lost stream the first attempt goes to reconnect; the second
   raises. *)
ExecuteWrite(t, i) ==
  /\ stage[t] = IF i = 1 THEN "write1" ELSE "write2"
  /\ MayExecute(t)
  /\ \/ /\ stream
        /\ pending' = pending \cup {<<t, i>>}
        /\ Go(t, IF i = 1 THEN "write2" ELSE "commit")
        /\ retried' = [retried EXCEPT ![t] = FALSE]
        /\ UNCHANGED broken
     \/ /\ ~stream
        /\ ~retried[t]
        /\ Go(t, IF i = 1 THEN "reconnect1" ELSE "reconnect2")
        /\ UNCHANGED <<pending, retried, broken>>
     \/ /\ ~stream
        /\ retried[t]
        /\ LeaveBody(t)
        /\ retried' = [retried EXCEPT ![t] = FALSE]
        /\ UNCHANGED pending
  /\ UNCHANGED <<manner, execLock, syncLock, stream, primary, replica, outcome, losses,
                 syncs, unsynced>>

(* The body raises: a constraint fails, or its own check does. A bare writer
   that has not written yet is closed as it is. *)
RaiseInBody(t) ==
  /\ stage[t] \in {"write1", "write2", "commit"}
  /\ ~retried[t]
  /\ t \notin broken
  /\ \/ /\ manner[t] = "bare" /\ stage[t] = "write1"
        /\ Go(t, "end")
        /\ outcome' = [outcome EXCEPT ![t] = "raised"]
        /\ UNCHANGED broken
     \/ /\ manner[t] # "bare" \/ stage[t] # "write1"
        /\ LeaveBody(t)
        /\ UNCHANGED outcome
  /\ UNCHANGED <<manner, execLock, syncLock, stream, pending, primary, replica, retried,
                 losses, syncs, unsynced>>

(* reconnect: waits for the sync lock, a transaction with its lock held. *)
Reconnect(t) ==
  /\ stage[t] \in {"reconnect1", "reconnect2", "reconnectCommit"}
  /\ syncLock = NoThread
  /\ ConnectReplica
  /\ retried' = [retried EXCEPT ![t] = TRUE]
  /\ Go(t, CASE stage[t] = "reconnect1" -> "write1"
             [] stage[t] = "reconnect2" -> "write2"
             [] OTHER -> "commit")
  /\ UNCHANGED <<manner, execLock, syncLock, primary, broken, outcome, losses, syncs, unsynced>>

(* Faulty variant of the next definition: the lock is kept during the flush. *)
_CommitKeepsLock(t) ==
  /\ stage[t] = "commit"
  /\ MayExecute(t)
  /\ stream
  /\ primary' = primary \cup pending
  /\ pending' = {}
  /\ Go(t, "flush")
  /\ UNCHANGED <<manner, execLock, syncLock, stream, replica, retried, broken, outcome, losses,
                 syncs, unsynced>>

(* The second attempt of a commit failed as well: a bare writer commits once
   more when its connection is closed. *)
FailCommit(t) ==
  \/ /\ manner[t] # "bare" \/ t \notin broken
     /\ LeaveBody(t)
     /\ UNCHANGED outcome
  \/ /\ manner[t] = "bare" /\ t \in broken
     /\ Go(t, "end")
     /\ outcome' = [outcome EXCEPT ![t] = "raised"]
     /\ UNCHANGED broken

(* commit, of all that is pending on the connection: the lock is given back
   whatever happens; a lost stream is replaced and the commit tried again on
   the new connection. *)
CommitTransaction(t) ==
  /\ stage[t] = "commit"
  /\ MayExecute(t)
  /\ \/ /\ stream
        /\ primary' = primary \cup pending
        /\ pending' = {}
        /\ execLock' = NoThread
        /\ Go(t, "flush")
        /\ UNCHANGED <<retried, broken, outcome>>
     \/ /\ ~stream
        /\ ~retried[t]
        /\ Go(t, "reconnectCommit")
        /\ UNCHANGED <<primary, pending, execLock, retried, broken, outcome>>
     \/ /\ ~stream
        /\ retried[t]
        /\ execLock' = NoThread
        /\ retried' = [retried EXCEPT ![t] = FALSE]
        /\ FailCommit(t)
        /\ UNCHANGED <<primary, pending>>
  /\ UNCHANGED <<manner, syncLock, stream, replica, losses, syncs, unsynced>>

(* ROLLBACK and the end of transaction(): a proxy that no longer holds the
   lock takes it for the call. Errors are swallowed. *)
Rollback(t) ==
  /\ stage[t] = "rollback"
  /\ MayExecute(t)
  /\ execLock' = NoThread
  /\ pending' = {}
  /\ outcome' = [outcome EXCEPT ![t] = "raised"]
  /\ Go(t, "end")
  /\ UNCHANGED <<manner, syncLock, stream, primary, replica, retried, broken, losses, syncs,
                 unsynced>>

(* force_sync waits for the sync lock: after a commit that wrote, and inside of
   the transaction that did not find its link, with the lock of that held. *)
StartFlush(t) ==
  /\ stage[t] \in {"flush", "miss"}
  /\ syncLock = NoThread
  /\ syncLock' = t
  /\ Go(t, IF stage[t] = "miss" THEN "refreshing" ELSE "syncing")
  /\ UNCHANGED <<manner, execLock, stream, pending, primary, replica, retried, broken, outcome,
                 losses, syncs, unsynced>>

(* sync_if_stale, which any read may call: the sync lock is only tried. *)
StartBackgroundSync ==
  /\ stage[Syncer] = "idle"
  /\ syncs < MaxSyncs
  /\ syncLock = NoThread
  /\ syncLock' = Syncer
  /\ syncs' = syncs + 1
  /\ Go(Syncer, "syncing")
  /\ UNCHANGED <<manner, execLock, stream, pending, primary, replica, retried, broken, outcome,
                 losses, unsynced>>

(* What force_sync and the background thread share: conn.sync() under the
   execution lock, which is given back before anything else, unless the
   transaction around it holds it. *)
SyncDone(p) ==
  IF p = Syncer THEN Go(p, "idle") /\ UNCHANGED outcome
  ELSE IF stage[p] \in {"refreshing", "replaceInside"} THEN Go(p, "write1") /\ UNCHANGED outcome
  ELSE /\ Go(p, "end")
       /\ outcome' = [outcome EXCEPT ![p] = IF p \in broken THEN "raised" ELSE "ok"]

FlushFailed(p) == unsynced' = unsynced \cup (IF stage[p] = "syncing" THEN {p} \ {Syncer} ELSE {})

Sync(p) ==
  /\ stage[p] \in {"syncing", "refreshing"}
  /\ execLock \in {p, NoThread}
  /\ execLock' = IF stage[p] = "refreshing" THEN execLock ELSE NoThread
  /\ \/ /\ stream
        /\ replica' = primary
        /\ syncLock' = NoThread
        /\ SyncDone(p)
        /\ UNCHANGED unsynced
     \/ \* any other error is logged
        /\ stream
        /\ syncLock' = NoThread
        /\ FlushFailed(p)
        /\ SyncDone(p)
        /\ UNCHANGED replica
     \/ /\ ~stream
        /\ Go(p, IF stage[p] = "refreshing" THEN "replaceInside" ELSE "replace")
        /\ FlushFailed(p)
        /\ UNCHANGED <<replica, syncLock, outcome>>
  /\ UNCHANGED <<manner, stream, pending, primary, retried, broken, losses, syncs>>

(* The new connection is put in place without the execution lock. *)
ReplaceConnection(p) ==
  /\ stage[p] \in {"replace", "replaceInside"}
  /\ ConnectReplica
  /\ syncLock' = NoThread
  /\ SyncDone(p)
  /\ UNCHANGED <<manner, execLock, primary, retried, broken, losses, syncs, unsynced>>

(* The primary drops the stream, with the transaction that runs on it. *)
LoseStream ==
  /\ stream
  /\ losses < MaxLosses
  /\ losses' = losses + 1
  /\ stream' = FALSE
  /\ pending' = {}
  /\ UNCHANGED <<manner, execLock, syncLock, primary, replica, stage, retried, broken, outcome,
                 syncs, unsynced>>

TransactionStep(t) ==
  \/ BeginTransaction(t)
  \/ \E i \in {1, 2} : ExecuteWrite(t, i)
  \/ Reconnect(t)
  \/ CommitTransaction(t)
  \/ Rollback(t)
  \/ StartFlush(t)

SyncStep(p) == Sync(p) \/ ReplaceConnection(p)

ReplicaNext ==
  \/ \E t \in Thread : TransactionStep(t) \/ RaiseInBody(t)
  \/ \E p \in Thread \cup {Syncer} : SyncStep(p)
  \/ StartBackgroundSync
  \/ LoseStream

(* A thread that can go on does so; reads start synchronisations and streams
   are lost at will. *)
ReplicaFairness ==
  /\ \A t \in Thread : WF_replicaVars(TransactionStep(t))
  /\ \A p \in Thread \cup {Syncer} : WF_replicaVars(SyncStep(p))

ReplicaSpec == ReplicaInit /\ [][ReplicaNext]_replicaVars /\ ReplicaFairness
-----------------------------------------------------------------------------
(* While no stream was lost, a transaction that returned has all its writes in
   the cloud and, if its flush worked, in the local replica; one that raised
   has none. Another thread's commit on the shared connection, or its rollback,
   must never take half of a transaction's writes with it: neither that of
   another transaction nor that of a writer without BEGIN, which may be between
   its statements. The writers without BEGIN themselves have no such promise. *)
AtomicCommit ==
  losses = 0 =>
    \A t \in Thread : manner[t] # "bare" =>
      /\ outcome[t] = "ok" => WritesOf(t) \subseteq primary
      /\ outcome[t] = "ok" /\ t \notin unsynced => WritesOf(t) \subseteq replica
      /\ outcome[t] = "raised" => WritesOf(t) \cap primary = {}

(* "Upon commit(), changes are committed": a transaction that returned has its
   writes in the cloud, also when a stream was lost, as README.md and the
   comment on the retry have it. *)
CommittedMeansWritten ==
  \A t \in Thread : manner[t] # "bare" /\ outcome[t] = "ok" => WritesOf(t) \subseteq primary

(* Under any loss of streams: what a transaction has pending on the shared
   connection is covered by the lock it holds, so that nobody else's commit or
   rollback meets it, and a transaction that raised left nothing behind. Only
   the writes of threads without BEGIN lie there under nobody's lock. *)
PendingBelongsToHolder ==
  /\ \A w \in pending : manner[w[1]] # "bare" => execLock = w[1]
  /\ \A t \in Thread : manner[t] # "bare" /\ outcome[t] = "raised" => WritesOf(t) \cap primary = {}

(* While no stream is lost, every transaction ends once one has begun: of the
   two locks a synchronisation takes the second last and gives it back first,
   and who commits holds neither when it synchronises. Only a transaction that
   synchronises inside, its lock held, may wait for a synchronisation that
   waits for it. *)
TransactionsEnd ==
  execLock # NoThread ~>
    \/ losses > 0
    \/ \E t \in Thread : stage[t] = "miss" /\ syncLock # NoThread
    \/ \A t \in Thread : outcome[t] # "open"
=============================================================================
