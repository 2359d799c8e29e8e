-------------------------- MODULE MCClusterServices --------------------------
(***************************************************************************)
(* Small instances of the modules about what keeps the nodes together,     *)
(* checked in one run: as in MCShopServices, a behaviour is one of a       *)
(* single component, picked at the start.                                  *)
(***************************************************************************)
EXTENDS LibsqlReplica, OpenFluxHandover, ClusterLease, FailbackMerge,
  HealthWatchdog, QuiesceGate, DnsFailover

VARIABLE part \* the component that runs

(* The nodes and the domains, in the order of the code. *)
MCWatched == <<"nl", "fi">>
MCDomains == <<"main", "sub", "edge">>

leaseVars == vars
otherVars == <<replicaVars, watchVars, gateVars, dnsVars>>

MCInit ==
  /\ part \in {"replica", "flux", "lease", "failback", "watch", "gate", "dns"}
  /\ ReplicaInit /\ FluxInit /\ Init /\ FailbackInit /\ WatchInit /\ GateInit /\ DnsInit
  /\ part # "replica" => manner = [t \in Thread |-> "begin"]
  /\ part # "lease" => offset = [n \in Node |-> 0]
  /\ part # "failback" => base = SnapshotWith("waiting", 2)
  /\ part # "dns" =>
       /\ home = [c \in Country |-> CHOOSE a \in Address : TRUE]
       /\ \A d \in Domain : record[d].ip = CHOOSE a \in Address : TRUE

InFlux == part = "flux" /\ UNCHANGED <<part, leaseVars, failbackVars, otherVars>>
InLease == part = "lease" /\ UNCHANGED <<part, fluxVars, failbackVars, otherVars>>
InFailback == part = "failback" /\ UNCHANGED <<part, fluxVars, leaseVars, otherVars>>
coreVars == <<fluxVars, leaseVars, failbackVars>>
InReplica == part = "replica" /\ UNCHANGED <<part, coreVars, watchVars, gateVars, dnsVars>>
InWatch == part = "watch" /\ UNCHANGED <<part, coreVars, replicaVars, gateVars, dnsVars>>
InGate == part = "gate" /\ UNCHANGED <<part, coreVars, replicaVars, watchVars, dnsVars>>
InDns == part = "dns" /\ UNCHANGED <<part, coreVars, replicaVars, watchVars, gateVars>>

MCNext ==
  \/ InReplica /\ ReplicaNext
  \/ InFlux /\ FluxNext
  \/ InLease /\ Next
  \/ InFailback /\ FailbackNext
  \/ InWatch /\ WatchNext
  \/ InGate /\ GateNext
  \/ InDns /\ DnsNext

mcVars == <<part, coreVars, otherVars>>

(* The fairness of each module, for the component that runs. *)
MCFairness ==
  /\ \A t \in Thread : WF_replicaVars(part = "replica" /\ TransactionStep(t))
  /\ \A p \in Thread \cup {Syncer} : WF_replicaVars(part = "replica" /\ SyncStep(p))
  /\ \A t \in FluxThread : WF_fluxVars(part = "flux" /\ JobStep(t))
  /\ \A t \in Watchdog :
       /\ SF_fluxVars(part = "flux" /\ BeginHeal(t))
       /\ SF_fluxVars(part = "flux" /\ BeginCancel(t))
  /\ WF_fluxVars(part = "flux" /\ CleanupStep)
  /\ WF_vars(part = "lease" /\ Tick)
  /\ \A n \in Node :
       /\ WF_vars(part = "lease" /\ StartTasks(n))
       /\ WF_vars(part = "lease" /\ FinishTasks(n))

MCSpec == MCInit /\ [][MCNext]_mcVars /\ MCFairness
=============================================================================
