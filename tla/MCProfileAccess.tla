--------------------------- MODULE MCProfileAccess ---------------------------
(***************************************************************************)
(* Small instances of the two modules about one profile: how long it is    *)
(* served on each node, and who sees it in the cabinet. They share no      *)
(* state; a behaviour is one of either, picked at the start.               *)
(***************************************************************************)
EXTENDS ProfileAccess, CabinetLinks

VARIABLE part \* the component that runs

\* One renewal on each node, of different lengths.
MCNodeOf == [r \in RenewalRun |-> IF r = 1 THEN "n1" ELSE "n2"]
MCPeriod == [r \in RenewalRun |-> r]

InAccess == part = "access" /\ UNCHANGED <<part, cabinetVars>>
InCabinet == part = "cabinet" /\ UNCHANGED <<part, accessVars>>

MCNext ==
  \/ InAccess /\ AccessNext
  \/ InCabinet /\ CabinetNext

(* The fairness of ProfileAccess, if it is the one that runs. *)
MCFairness ==
  /\ \A n \in Node :
       /\ WF_accessVars(part = "access" /\ SyncCopy(n))
       /\ WF_accessVars(part = "access" /\ LoadProfiles(n))
       /\ WF_accessVars(part = "access" /\ ApplyPlan(n))
  /\ \A r \in RenewalRun : WF_accessVars(part = "access" /\ RenewalStep(r))
  /\ WF_accessVars(part = "access" /\ WriteSwitch)

(* A profile that every node serves, for the behaviours of the cabinet. *)
ServedEverywhere ==
  /\ clock = 0 /\ row = [status |-> "active", expires |-> FirstExpiry]
  /\ copy = [n \in Node |-> row]
  /\ client = [n \in Node |-> [on |-> TRUE, expires |-> FirstExpiry, present |-> TRUE]]
  /\ renewal = [r \in RenewalRun |-> Ended("idle")]
  /\ reaper = Idle /\ switch = Idle /\ plan = [n \in Node |-> NoPlan]
  /\ due = FirstExpiry /\ clashed = FALSE /\ events = 0

MCInit ==
  /\ CabinetInit
  /\ \/ part = "access" /\ AccessInit
     \/ part = "cabinet" /\ ServedEverywhere

MCSpec ==
  /\ MCInit
  /\ [][MCNext]_<<part, accessVars, cabinetVars>>
  /\ MCFairness
=============================================================================
