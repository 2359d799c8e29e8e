------------------------------ MODULE QuiesceGate ------------------------------
(***************************************************************************)
(* The quiesce lease of the subscription service (app.py): while a merge   *)
(* of the databases holds it, the service refuses what would write. The    *)
(* merge takes it with "start", extends it with heartbeats and gives it    *)
(* back with "release"; it runs out by itself when the merge dies.         *)
(*                                                                         *)
(* The merge is external (demote_fi.sh), one at a time; of a request only  *)
(* its admission is modelled.                                              *)
(***************************************************************************)
EXTENDS Naturals

CONSTANTS
  QuiesceTTL,      \* the 30 seconds of the lease
  MaxQuiesceTime,  \* bound on the clock
  MaxGateRestarts  \* bound on the restarts of the service

ASSUME QuiesceAssumption == {QuiesceTTL, MaxQuiesceTime, MaxGateRestarts} \subseteq Nat

VARIABLES
  gateClock,     \* time.time()
  gate,          \* QUIESCE_ACTIVE and QUIESCE_LEASE_UNTIL
  merge,         \* does the merge hold the lease, as far as it knows
  admitted,      \* was a write admitted since the merge's "start"
  lastAck,       \* the last acknowledgement: was a write admitted before it
  gateRestarts   \* restarts so far

gateVars == <<gateClock, gate, merge, admitted, lastAck, gateRestarts>>

OpenGate == [active |-> FALSE, until |-> 0]

GateTypeOK ==
  /\ gateClock \in 0..MaxQuiesceTime
  /\ gate \in [active : BOOLEAN, until : 0..MaxQuiesceTime + QuiesceTTL]
  /\ merge \in {"none", "held"}
  /\ admitted \in BOOLEAN
  /\ lastAck \in {"none", "quiet", "disturbed"}
  /\ gateRestarts \in 0..MaxGateRestarts

GateInit ==
  /\ gateClock = 0 /\ gate = OpenGate
  /\ merge = "none" /\ admitted = FALSE /\ lastAck = "none"
  /\ gateRestarts = 0

Extended == [active |-> TRUE, until |-> gateClock + QuiesceTTL]

QuiesceStart ==
  /\ merge = "none"
  /\ gate' = Extended
  /\ merge' = "held" /\ admitted' = FALSE /\ lastAck' = "quiet"
  /\ UNCHANGED <<gateClock, gateRestarts>>

(* A heartbeat extends the lease if the flag is still set, also when the
   lease has run out; a merge that is told NOT_QUIESCED gives up. *)
QuiesceHeartbeat ==
  /\ merge = "held"
  /\ \/ /\ gate.active
        /\ gate' = Extended
        /\ lastAck' = IF admitted THEN "disturbed" ELSE "quiet"
        /\ UNCHANGED merge
     \/ /\ ~gate.active
        /\ merge' = "none" /\ lastAck' = "none"
        /\ UNCHANGED gate
  /\ UNCHANGED <<gateClock, admitted, gateRestarts>>

QuiesceRelease ==
  /\ merge = "held"
  /\ gate' = OpenGate
  /\ merge' = "none" /\ lastAck' = "none"
  /\ UNCHANGED <<gateClock, admitted, gateRestarts>>

(* The merge dies; nobody releases. *)
MergeDies ==
  /\ merge = "held"
  /\ merge' = "none" /\ lastAck' = "none"
  /\ UNCHANGED <<gateClock, gate, admitted, gateRestarts>>

(* A faulty variant of the next definition: a lease that has run out is
   ignored but the flag stays set. *)
_AfterLook == gate

(* is_quiesced drops a lease that has run out. *)
AfterLook == IF gate.active /\ gateClock >= gate.until THEN OpenGate ELSE gate

(* A request (POST, or of the bot: a write) passes the gate. Every request
   looks at it, a GET is let through whatever it sees. *)
HandleRequest(write) ==
  /\ gate' = AfterLook
  /\ admitted' = (admitted \/ (write /\ ~(gate.active /\ gateClock < gate.until)))
  /\ UNCHANGED <<gateClock, merge, lastAck, gateRestarts>>

(* The flag lives in the process. *)
RestartService ==
  /\ gateRestarts < MaxGateRestarts
  /\ gateRestarts' = gateRestarts + 1
  /\ gate' = OpenGate
  /\ UNCHANGED <<gateClock, merge, admitted, lastAck>>

GateTick ==
  /\ gateClock < MaxQuiesceTime
  /\ gateClock' = gateClock + 1
  /\ UNCHANGED <<gate, merge, admitted, lastAck, gateRestarts>>

GateNext ==
  \/ QuiesceStart \/ QuiesceHeartbeat \/ QuiesceRelease \/ MergeDies
  \/ \E write \in BOOLEAN : HandleRequest(write)
  \/ RestartService
  \/ GateTick

GateSpec == GateInit /\ [][GateNext]_gateVars

-----------------------------------------------------------------------------
(* A merge whose every heartbeat was acknowledged can trust them: when one
   is acknowledged no write was admitted since its start, though heartbeats
   may come too late, the service may restart and a lease may run out. *)
QuietWhileAcknowledged == lastAck # "disturbed"
=============================================================================
