---------------------------- MODULE AwgAddresses ----------------------------
(***************************************************************************)
(* The addresses of one AmneziaWG node (awg_manager.py). A subscription    *)
(* has at most one peer on the node: a row of awg_peers with a key and a   *)
(* tunnel address. Two things must follow the rows: the interface in the   *)
(* kernel, where an address belongs to one key and moves to the last one   *)
(* that asks for it, and the file awg0.conf, from which the interface is   *)
(* rebuilt. remove_peer, readd_peer and the peers of device slots are      *)
(* changed under the node's lock; create_peer takes no lock. The slots     *)
(* have a table and a range of addresses of their own.                     *)
(***************************************************************************)
EXTENDS Integers, FiniteSets, FiniteSetsExt

CONSTANTS
  Subscriber, \* subscriptions
  AddressJob, \* threads and processes that work on the node's peers
  MaxAddress, \* the last address of the subnet
  SlotFloor,  \* the first address a device slot may get
  MaxKeys     \* bound: keys generated

ASSUME AddressConstants == {MaxAddress, SlotFloor, MaxKeys} \subseteq Nat /\ SlotFloor > 2

VARIABLES
  peerRow,   \* awg_peers: the subscription's key, address and active flag
  slots,     \* awg_slots: pairs of a key and its address
  kernel,    \* the interface: pairs of a key and its address
  conf,      \* awg0.conf: the same pairs
  keysMade,  \* how many keys exist
  awgJob,       \* where each thread is
  disturbed  \* history: addresses that something known took from their peer

addressVars == <<peerRow, slots, kernel, conf, keysMade, awgJob, disturbed>>

Address == 2..MaxAddress
NoKey == 0
Created == {"live", "persist", "insert"}
Locked == {"removing", "rewriting", "inactivate", "restoring", "append", "reactivate", "slotLive", "slotConf"}
IdleJob == [at |-> "idle", sub |-> "none", key |-> NoKey, ip |-> 0, copy |-> {}]

AddressTypeOK ==
  /\ peerRow \in [Subscriber -> [key : 0..MaxKeys, ip : {0} \cup Address, active : BOOLEAN]]
  /\ slots \subseteq (1..MaxKeys) \X (SlotFloor..MaxAddress)
  /\ {kernel, conf} \subseteq SUBSET ((1..MaxKeys) \X Address)
  /\ keysMade \in 0..MaxKeys
  /\ \A w \in AddressJob :
       /\ awgJob[w].at \in Created \cup Locked \cup {"idle", "create", "remove", "readd", "slot"}
       /\ awgJob[w].copy \subseteq (1..MaxKeys) \X Address
  /\ disturbed \subseteq Address

AddressInit ==
  /\ peerRow = [s \in Subscriber |-> [key |-> NoKey, ip |-> 0, active |-> FALSE]]
  /\ slots = {} /\ kernel = {} /\ conf = {}
  /\ keysMade = 0
  /\ awgJob = [w \in AddressJob |-> IdleJob]
  /\ disturbed = {}

Ips(pairs) == {p[2] : p \in pairs}
Without(pairs, key) == {p \in pairs : p[1] # key}

(* awg set ... allowed-ips: the key gets exactly this address, and whoever
   had the address loses it. *)
Routed(key, ip) == {p \in kernel : p[1] # key /\ p[2] # ip} \cup {<<key, ip>>}

(* As a faulty variant: the addresses of the file alone, without the rows. *)
_UsedIps == Ips(conf)

(* Addresses that are not handed out: those of the file, and those of every
   row, a removed peer's too. *)
UsedIps == Ips(conf) \cup {peerRow[s].ip : s \in Subscriber}

Go(w, at) == awgJob' = [awgJob EXCEPT ![w].at = at]
Stop(w) == awgJob' = [awgJob EXCEPT ![w] = IdleJob]
Restoring(w) == awgJob[w].at \in {"restoring", "append", "reactivate"}
NodeLockFree == \A w \in AddressJob : awgJob[w].at \notin Locked

(* A user or the bridge asks for the subscription's configuration: a peer
   that is missing is created, one that is inactive is restored. *)
AskForPeer(w, s) ==
  /\ awgJob[w].at = "idle" /\ ~peerRow[s].active
  /\ awgJob' = [awgJob EXCEPT ![w].at = IF peerRow[s].key = NoKey THEN "create" ELSE "readd", ![w].sub = s]
  /\ UNCHANGED <<peerRow, slots, kernel, conf, keysMade, disturbed>>

(* The reconciliation script finds an active peer whose subscription expired
   or ran out of its quota, or an inactive one that may come back. *)
ReconcilePeer(w, s) ==
  /\ awgJob[w].at = "idle" /\ peerRow[s].key # NoKey
  /\ awgJob' = [awgJob EXCEPT ![w].at = IF peerRow[s].active THEN "remove" ELSE "readd", ![w].sub = s]
  /\ UNCHANGED <<peerRow, slots, kernel, conf, keysMade, disturbed>>

(* create_peer looks again, takes the first free address and makes keys. If the
   read of the rows' addresses fails, it goes by the file alone: what it takes
   then may be a row's. *)
PickAddress(w) ==
  /\ awgJob[w].at = "create" /\ UNCHANGED <<peerRow, slots, kernel, conf>>
  /\ \E readable \in BOOLEAN :
       LET free == Address \ (IF readable THEN UsedIps ELSE Ips(conf))
           pickedToo == {awgJob[v].ip : v \in {v \in AddressJob : awgJob[v].at \in Created}}
           unread == IF readable THEN {} ELSE {peerRow[t].ip : t \in Subscriber}
       IN IF peerRow[awgJob[w].sub].active \/ free = {}
          THEN Stop(w) /\ UNCHANGED <<keysMade, disturbed>>
          ELSE /\ keysMade < MaxKeys /\ keysMade' = keysMade + 1
               /\ awgJob' = [awgJob EXCEPT ![w].at = "live", ![w].key = keysMade + 1, ![w].ip = Min(free)]
               /\ disturbed' = disturbed \cup ({Min(free)} \cap (pickedToo \cup unread))

(* create_peer adds the peer to the interface, then to the file. A command
   that fails ends the call. *)
AddLive(w) ==
  /\ awgJob[w].at = "live"
  /\ \/ kernel' = Routed(awgJob[w].key, awgJob[w].ip) /\ Go(w, "persist")
     \/ kernel' = kernel /\ Stop(w)
  /\ UNCHANGED <<peerRow, slots, conf, keysMade, disturbed>>

AddToFile(w) ==
  /\ awgJob[w].at = "persist"
  /\ \/ conf' = conf \cup {<<awgJob[w].key, awgJob[w].ip>>} /\ Go(w, "insert")
     \/ conf' = conf /\ Stop(w)
  /\ UNCHANGED <<peerRow, slots, kernel, keysMade, disturbed>>

(* The row is written last: the unique index refuses an address that another
   row has, a row of the same subscription is replaced. *)
InsertPeer(w) ==
  LET s == awgJob[w].sub
      taken == \E t \in Subscriber \ {s} : peerRow[t].ip = awgJob[w].ip
  IN
  /\ awgJob[w].at = "insert" /\ Stop(w)
  /\ peerRow' = IF taken THEN peerRow
                ELSE [peerRow EXCEPT ![s] = [key |-> awgJob[w].key, ip |-> awgJob[w].ip, active |-> TRUE]]
  /\ disturbed' = disturbed \cup {awgJob[v].ip : v \in {v \in AddressJob : awgJob[v].sub = s /\ Restoring(v)}}
  /\ UNCHANGED <<slots, kernel, conf, keysMade>>

(* remove_peer, under the lock: nothing to do for an inactive peer; otherwise
   the file is read now and written back, without the peer, later. *)
LockToRemove(w) ==
  LET row == peerRow[awgJob[w].sub] IN
  /\ awgJob[w].at = "remove" /\ NodeLockFree
  /\ IF ~row.active THEN Stop(w)
     ELSE awgJob' = [awgJob EXCEPT ![w].at = "removing", ![w].key = row.key, ![w].ip = row.ip, ![w].copy = conf]
  /\ UNCHANGED <<peerRow, slots, kernel, conf, keysMade, disturbed>>

(* A removal from the interface that fails is ignored. *)
RemoveLive(w) ==
  /\ awgJob[w].at = "removing" /\ Go(w, "rewriting")
  /\ kernel' \in {kernel, Without(kernel, awgJob[w].key)}
  /\ UNCHANGED <<peerRow, slots, conf, keysMade, disturbed>>

(* The copy overwrites the file: blocks appended since it was read are lost.
   If the command fails, the peer stays active in its row. *)
RewriteFile(w) ==
  /\ awgJob[w].at = "rewriting"
  /\ \/ /\ conf' = Without(awgJob[w].copy, awgJob[w].key)
        /\ disturbed' = disturbed \cup Ips(conf \ awgJob[w].copy)
        /\ Go(w, "inactivate")
     \/ /\ disturbed' = disturbed \cup {awgJob[w].ip}
        /\ Stop(w) /\ UNCHANGED conf
  /\ UNCHANGED <<peerRow, slots, kernel, keysMade>>

Inactivate(w) ==
  /\ awgJob[w].at = "inactivate" /\ Stop(w)
  /\ peerRow' = [peerRow EXCEPT ![awgJob[w].sub].active = FALSE]
  /\ UNCHANGED <<slots, kernel, conf, keysMade, disturbed>>

(* readd_peer, under the lock: the interface, the file unless the key was in
   it, the row. *)
LockToRestore(w) ==
  LET row == peerRow[awgJob[w].sub] IN
  /\ awgJob[w].at = "readd" /\ NodeLockFree
  /\ awgJob' = [awgJob EXCEPT ![w].at = "restoring", ![w].key = row.key, ![w].ip = row.ip, ![w].copy = conf]
  /\ UNCHANGED <<peerRow, slots, kernel, conf, keysMade, disturbed>>

RestoreLive(w) ==
  /\ awgJob[w].at = "restoring"
  /\ \/ kernel' = Routed(awgJob[w].key, awgJob[w].ip) /\ Go(w, "append")
     \/ kernel' = kernel /\ Stop(w)
  /\ UNCHANGED <<peerRow, slots, conf, keysMade, disturbed>>

RestoreInFile(w) ==
  /\ awgJob[w].at = "append"
  /\ \/ /\ conf' = IF \E p \in awgJob[w].copy : p[1] = awgJob[w].key THEN conf
                   ELSE conf \cup {<<awgJob[w].key, awgJob[w].ip>>}
        /\ Go(w, "reactivate")
     \/ conf' = conf /\ Stop(w)
  /\ UNCHANGED <<peerRow, slots, kernel, keysMade, disturbed>>

Reactivate(w) ==
  /\ awgJob[w].at = "reactivate" /\ Stop(w)
  /\ peerRow' = [peerRow EXCEPT ![awgJob[w].sub].active = TRUE]
  /\ UNCHANGED <<slots, kernel, conf, keysMade, disturbed>>

(* The row of a new slot; its address is unique among the slots of the node. *)
InsertSlot(key, ip) ==
  /\ ip \notin Ips(slots)
  /\ slots' = slots \cup {<<key, ip>>}

(* ensure_awg_slot gives a device the first address from SlotFloor on that no
   slot has; the file and awg_peers are not looked at. *)
CreateSlot(w) ==
  LET free == (SlotFloor..MaxAddress) \ Ips(slots) IN
  /\ awgJob[w].at = "idle" /\ free # {} /\ keysMade < MaxKeys
  /\ keysMade' = keysMade + 1 /\ InsertSlot(keysMade + 1, Min(free))
  /\ awgJob' = [awgJob EXCEPT ![w].at = "slot", ![w].key = keysMade + 1, ![w].ip = Min(free)]
  /\ UNCHANGED <<peerRow, kernel, conf, disturbed>>

(* add_slot_peer, under the lock: a failure on the interface ends it, one on
   the file is only logged. *)
LockForSlot(w) ==
  /\ awgJob[w].at = "slot" /\ NodeLockFree /\ Go(w, "slotLive")
  /\ UNCHANGED <<peerRow, slots, kernel, conf, keysMade, disturbed>>

AddSlotLive(w) ==
  /\ awgJob[w].at = "slotLive"
  /\ \/ kernel' = Routed(awgJob[w].key, awgJob[w].ip) /\ Go(w, "slotConf")
     \/ kernel' = kernel /\ Stop(w)
  /\ UNCHANGED <<peerRow, slots, conf, keysMade, disturbed>>

AddSlotToFile(w) ==
  /\ awgJob[w].at = "slotConf" /\ Stop(w)
  /\ conf' \in {conf, conf \cup {<<awgJob[w].key, awgJob[w].ip>>}}
  /\ UNCHANGED <<peerRow, slots, kernel, keysMade, disturbed>>

(* The circuit breaker against mass deletions: more than ten peers of the file
   would go, or more than three and 30 % of them. *)
TooManyGo ==
  LET managed == {p[1] : p \in conf}
      gone == Cardinality(managed \ {p[1] : p \in slots})
  IN gone > 10 \/ (gone > 3 /\ 10 * gone > 3 * Cardinality(managed))

(* reconcile_awg_peers makes file and interface what the slots say, under the
   lock, unless it aborts: the peers of awg_peers are swept away, their rows
   stay active. *)
SweepPeers ==
  /\ NodeLockFree /\ slots # {} /\ conf # slots /\ ~TooManyGo
  /\ conf' = slots /\ kernel' = slots
  /\ disturbed' = Address
  /\ UNCHANGED <<peerRow, slots, keysMade, awgJob>>

AddressStep(w) ==
  \/ \E s \in Subscriber : AskForPeer(w, s) \/ ReconcilePeer(w, s)
  \/ PickAddress(w) \/ AddLive(w) \/ AddToFile(w) \/ InsertPeer(w)
  \/ LockToRemove(w) \/ RemoveLive(w) \/ RewriteFile(w) \/ Inactivate(w)
  \/ LockToRestore(w) \/ RestoreLive(w) \/ RestoreInFile(w) \/ Reactivate(w)
  \/ CreateSlot(w) \/ LockForSlot(w) \/ AddSlotLive(w) \/ AddSlotToFile(w)

AddressNext == SweepPeers \/ \E w \in AddressJob : AddressStep(w)
AddressSpec == AddressInit /\ [][AddressNext]_addressVars

(* A thread is taking the subscription's peer away. *)
BeingRemoved(s) ==
  \E w \in AddressJob : awgJob[w].sub = s /\ awgJob[w].at \in {"removing", "rewriting", "inactivate"}

(* A subscription whose row says active is served: the interface routes its
   address to its key, and the file still has it for the next restart. Only
   the known disturbances excuse a loss: two creations that picked the same
   address at once, one that could not read the rows and picked an address that
   the file no longer had but a row did, a creation that replaced a row while it was restored, a
   rewrite of the file over a block appended meanwhile, a removal that stopped
   half way, a reconciliation of the slots, and the slots' own range, in which
   the slots do not look at the peers' addresses. *)
ActivePeerServed ==
  \A s \in Subscriber :
    LET pair == <<peerRow[s].key, peerRow[s].ip>> IN
    (peerRow[s].active /\ pair[2] < SlotFloor /\ pair[2] \notin disturbed /\ ~BeingRemoved(s))
      => pair \in kernel /\ pair \in conf
=============================================================================
