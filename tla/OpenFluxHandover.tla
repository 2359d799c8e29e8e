---------------------------- MODULE OpenFluxHandover ----------------------------
(***************************************************************************)
(* The OpenFlux slot of one profile: its row in openflux_slots, the worker *)
(* containers on the nodes, and those who change both: requests of the     *)
(* customer, the watchdog thread of each process, and the clean-up thread  *)
(* that a confirmed hand-over leaves behind. Every one of them reads the   *)
(* row, talks to docker over SSH, and then writes the row.                 *)
(*                                                                         *)
(* The caches of one minute are left out: an answer they give may be old,  *)
(* but the next check after a minute sees the truth.                       *)
(***************************************************************************)
EXTENDS Integers, FiniteSets

CONSTANTS
  Server,       \* nodes with workers
  NoServer,     \* NULL
  Room,         \* rooms of the live-coding site
  NoRoom,       \* no room, and no container
  Request,      \* threads that serve the customer
  Watchdog,     \* the threads of _start_openflux_watchdog
  MaxRequests,  \* bound on the requests
  MaxFluxEvents \* bound on dead rooms, lost containers, failed starts and restarts

ASSUME FluxAssumption ==
  /\ NoServer \notin Server
  /\ NoRoom \notin Room
  /\ Request \cap Watchdog = {}
  /\ MaxRequests \in Nat /\ MaxFluxEvents \in Nat

VARIABLES
  slot,       \* the row of openflux_slots
  worker,     \* room served by each container: <<server, "main" or "pending">>
  dead,       \* rooms that answer 404
  fluxJob,    \* what each thread does
  cleanups,   \* clean-up threads of confirmed hand-overs
  requests,   \* requests so far
  fluxEvents, \* faults so far
  overlap     \* has anything begun while something else was under way

fluxVars == <<slot, worker, dead, fluxJob, cleanups, requests, fluxEvents, overlap>>

FluxThread == Request \cup Watchdog
Container == Server \X {"main", "pending"}
NoJob == [op |-> "none", stage |-> "idle", target |-> NoServer, room |-> NoRoom,
          row |-> [status |-> "none"]]

EmptySlot == [status |-> "uninitialized", server |-> NoServer, room |-> NoRoom,
              pendingServer |-> NoServer, pendingRoom |-> NoRoom]
SlotRow == [status : {"uninitialized", "active", "migrating"},
            server : Server \cup {NoServer}, room : Room \cup {NoRoom},
            pendingServer : Server \cup {NoServer}, pendingRoom : Room \cup {NoRoom}]

FluxTypeOK ==
  /\ slot \in SlotRow
  /\ worker \in [Container -> Room \cup {NoRoom}]
  /\ dead \subseteq Room
  /\ \A t \in FluxThread :
       /\ fluxJob[t].op \in {"none", "activate", "start", "confirm", "cancel", "heal"}
       /\ fluxJob[t].stage \in {"idle", "docker", "write"}
       /\ fluxJob[t].target \in Server \cup {NoServer}
       /\ fluxJob[t].room \in Room \cup {NoRoom}
  /\ cleanups \subseteq [old : Server \cup {NoServer}, new : Server, stage : {"stop", "rename"}]
  /\ requests \in 0..MaxRequests
  /\ fluxEvents \in 0..MaxFluxEvents
  /\ overlap \in BOOLEAN

FluxInit ==
  /\ slot = EmptySlot
  /\ worker = [c \in Container |-> NoRoom]
  /\ dead = {}
  /\ fluxJob = [t \in FluxThread |-> NoJob]
  /\ cleanups = {}
  /\ requests = 0
  /\ fluxEvents = 0
  /\ overlap = FALSE

(* create_cups_room: a room nobody knows yet. *)
KnownRooms ==
  dead \cup {slot.room, slot.pendingRoom} \cup {worker[c] : c \in Container}
  \cup {fluxJob[t].room : t \in FluxThread}
  \cup UNION {{fluxJob[t].row.room, fluxJob[t].row.pendingRoom} :
                t \in {u \in FluxThread : fluxJob[u].op # "none"}}
(* The site never runs out of rooms, the bound Room may. *)
RoomsLeft == ~(Room \subseteq KnownRooms)
FreshRoom == CHOOSE r \in Room : r \notin KnownRooms

SetJob(t, j) == fluxJob' = [fluxJob EXCEPT ![t] = j]
Done(t) == SetJob(t, NoJob)
(* A thread that is free begins something. *)
Begin(t, op, stage, target, room) ==
  /\ fluxJob[t] = NoJob
  /\ t \in Request => requests < MaxRequests
  /\ requests' = IF t \in Request THEN requests + 1 ELSE requests
  /\ fluxJob' = [fluxJob EXCEPT ![t] =
        [op |-> op, stage |-> stage, target |-> target, room |-> room, row |-> slot]]
  /\ overlap' = (overlap \/ cleanups # {} \/ \E u \in FluxThread : fluxJob[u] # NoJob)
  /\ UNCHANGED <<slot, worker, dead, cleanups, fluxEvents>>
-----------------------------------------------------------------------------
(* activate_openflux_slot, also called by start_server_switch: the balancer's
   choice or the customer's. *)
BeginActivate(t, target) ==
  /\ slot.status = "uninitialized"
  /\ RoomsLeft
  /\ Begin(t, "activate", "docker", target, FreshRoom)

(* start_server_switch on an active slot, the same server included; a hand-over
   under way to another server is cancelled first, see BeginCancel. *)
BeginStart(t, target) ==
  /\ slot.status = "active"
  /\ RoomsLeft
  /\ Begin(t, "start", "docker", target, FreshRoom)

(* cancel_server_switch: by the customer, by a start with another target, and
   by the watchdog after five minutes. *)
BeginCancel(t) ==
  /\ slot.status = "migrating"
  /\ Begin(t, "cancel", "docker", NoServer, NoRoom)

BeginConfirm(t) ==
  /\ slot.status = "migrating"
  /\ Begin(t, "confirm", "write", NoServer, NoRoom)

(* Faulty variant of the next definition: only the container is looked at. *)
_HealContainer(t) ==
  /\ slot.status # "uninitialized"
  /\ worker[<<slot.server, "main">>] = NoRoom
  /\ Begin(t, "heal", "docker", slot.server, slot.room)
(* ensure_openflux_slot_healthy, by the watchdog or when the customer looks:
   a new room for a dead one, else a container if none has the name. *)
BeginHeal(t) ==
  /\ slot.status # "uninitialized"
  /\ \/ /\ slot.room \in dead
        /\ RoomsLeft
        /\ Begin(t, "heal", "docker", slot.server, FreshRoom)
     \/ /\ slot.room \notin dead
        /\ worker[<<slot.server, "main">>] = NoRoom
        /\ Begin(t, "heal", "docker", slot.server, slot.room)

(* start_openflux_worker: docker rm -f and docker run. *)
StartWorker(t) ==
  LET j == fluxJob[t]
      c == <<j.target, IF j.op = "start" THEN "pending" ELSE "main">>
  IN /\ j.stage = "docker"
     /\ j.op \in {"activate", "start", "heal"}
     /\ \/ /\ worker' = [worker EXCEPT ![c] = j.room]
           /\ IF j.op = "heal" /\ j.room = j.row.room
                THEN Done(t)
                ELSE SetJob(t, [j EXCEPT !.stage = "write"])
           /\ UNCHANGED fluxEvents
        \/ /\ fluxEvents < MaxFluxEvents
           /\ fluxEvents' = fluxEvents + 1
           /\ Done(t)
           /\ UNCHANGED worker
     /\ UNCHANGED <<slot, dead, cleanups, requests, overlap>>

(* stop_openflux_worker in cancel_server_switch. *)
StopPending(t) ==
  LET j == fluxJob[t]
  IN /\ j.stage = "docker" /\ j.op = "cancel"
     /\ worker' = IF j.row.pendingServer = NoServer THEN worker
                  ELSE [worker EXCEPT ![<<j.row.pendingServer, "pending">>] = NoRoom]
     /\ SetJob(t, [j EXCEPT !.stage = "write"])
     /\ UNCHANGED <<slot, dead, cleanups, requests, fluxEvents, overlap>>

(* The row each UPDATE leaves: from what was read before docker was called, in
   the columns it names. *)
RowAfter(j) ==
  CASE j.op = "activate" ->
         [slot EXCEPT !.status = "active", !.server = j.target, !.room = j.room]
    [] j.op = "start" ->
         [slot EXCEPT !.status = "migrating", !.pendingServer = j.target, !.pendingRoom = j.room]
    [] j.op = "cancel" ->
         [slot EXCEPT !.status = "active", !.pendingServer = NoServer, !.pendingRoom = NoRoom]
    [] j.op = "confirm" ->
         [slot EXCEPT !.status = "active", !.server = j.row.pendingServer,
                      !.room = j.row.pendingRoom,
                      !.pendingServer = NoServer, !.pendingRoom = NoRoom]
    [] j.op = "heal" ->
         [slot EXCEPT !.server = j.target, !.room = j.room]

WriteSlot(t) ==
  LET j == fluxJob[t]
  IN /\ j.stage = "write"
     /\ slot' = RowAfter(j)
     /\ cleanups' = IF j.op = "confirm"
                      THEN cleanups \cup {[old |-> j.row.server, new |-> j.row.pendingServer,
                                           stage |-> "stop"]}
                      ELSE cleanups
     /\ Done(t)
     /\ UNCHANGED <<worker, dead, requests, fluxEvents, overlap>>

(* Faulty variant of the next definition: renamed first, then stopped. *)
_CleanupReversed(k) ==
  /\ k.stage = "rename"
  /\ worker' = [worker EXCEPT ![<<k.old, "main">>] = NoRoom]
  /\ cleanups' = cleanups \ {k}
  /\ UNCHANGED <<slot, dead, fluxJob, requests, fluxEvents, overlap>>
(* _do_cleanup: the old worker is stopped ... *)
CleanupStop(k) ==
  /\ k.stage = "stop"
  /\ worker' = IF k.old = NoServer THEN worker
               ELSE [worker EXCEPT ![<<k.old, "main">>] = NoRoom]
  /\ cleanups' = (cleanups \ {k}) \cup {[k EXCEPT !.stage = "rename"]}
  /\ UNCHANGED <<slot, dead, fluxJob, requests, fluxEvents, overlap>>

(* ... and the new one renamed; whatever has the name is removed before. *)
CleanupRename(k) ==
  /\ k.stage = "rename"
  /\ worker' = [worker EXCEPT ![<<k.new, "main">>] = worker[<<k.new, "pending">>],
                              ![<<k.new, "pending">>] = NoRoom]
  /\ cleanups' = cleanups \ {k}
  /\ UNCHANGED <<slot, dead, fluxJob, requests, fluxEvents, overlap>>
-----------------------------------------------------------------------------
Fault == fluxEvents < MaxFluxEvents /\ fluxEvents' = fluxEvents + 1

RoomDies(r) ==
  /\ Fault
  /\ r \in {slot.room, slot.pendingRoom} \ dead
  /\ dead' = dead \cup {r}
  /\ UNCHANGED <<slot, worker, fluxJob, cleanups, requests, overlap>>

LoseContainer(c) ==
  /\ Fault
  /\ worker[c] # NoRoom
  /\ worker' = [worker EXCEPT ![c] = NoRoom]
  /\ UNCHANGED <<slot, dead, fluxJob, cleanups, requests, overlap>>

(* The process restarts: its threads are gone. *)
RestartProcess ==
  /\ Fault
  /\ fluxJob' = [t \in FluxThread |-> NoJob]
  /\ cleanups' = {}
  /\ UNCHANGED <<slot, worker, dead, requests, overlap>>

JobStep(t) == StartWorker(t) \/ StopPending(t) \/ WriteSlot(t)
CleanupStep == \E k \in cleanups : CleanupStop(k) \/ CleanupRename(k)

FluxNext ==
  \/ \E t \in Request :
       \/ \E s \in Server : BeginActivate(t, s) \/ BeginStart(t, s)
       \/ BeginConfirm(t)
  \/ \E t \in FluxThread : BeginCancel(t) \/ BeginHeal(t) \/ JobStep(t)
  \/ CleanupStep
  \/ \E r \in Room : RoomDies(r)
  \/ \E c \in Container : LoseContainer(c)
  \/ RestartProcess

(* Threads go on; the watchdog looks every five minutes and cancels what is
   older than that. Customers and faults come at will. *)
FluxFairness ==
  /\ \A t \in FluxThread : WF_fluxVars(JobStep(t))
  /\ \A t \in Watchdog : SF_fluxVars(BeginHeal(t)) /\ SF_fluxVars(BeginCancel(t))
  /\ WF_fluxVars(CleanupStep)

FluxSpec == FluxInit /\ [][FluxNext]_fluxVars /\ FluxFairness
-----------------------------------------------------------------------------
MainOf(s) == IF s = NoServer THEN NoRoom ELSE worker[<<s, "main">>]
Serves(s, r) == s # NoServer /\ \E k \in {"main", "pending"} : worker[<<s, k>>] = r

(* The row of an active slot always comes back to a live room, with a container
   of its own running on its node, whatever requests, clean-ups and faults met. *)
ActiveSlotRuns ==
  (slot.status = "active") ~>
     (MainOf(slot.server) # NoRoom /\ slot.room \notin dead)

(* The hand-over without an interruption: as long as nothing overlaps and no
   fault happens, the room of the row is served at every moment, before, during
   and after a hand-over, also one to the same server, and the room offered is
   served while the customer may still confirm it. *)
HandoverKeepsRoom ==
  ~overlap /\ fluxEvents = 0 =>
    /\ slot.status # "uninitialized" => Serves(slot.server, slot.room)
    /\ slot.status = "migrating" /\ (\A t \in FluxThread : fluxJob[t].op # "cancel")
         => Serves(slot.pendingServer, slot.pendingRoom)
=============================================================================
