------------------------------ MODULE DnsFailover ------------------------------
(***************************************************************************)
(* The emergency move of the cluster: an administrator picks a country in  *)
(* the bot, and the A records of the shop's domains are set one by one, at *)
(* Cloudflare, to the address of that country's node (bot.py,              *)
(* cloudflare_dns.py). The bot handles one update at a time.               *)
(*                                                                         *)
(* Cloudflare and the resolver are external: a call succeeds, fails with   *)
(* or without effect, or leaves the record behind the proxy.               *)
(***************************************************************************)
EXTENDS Naturals, Sequences

CONSTANTS
  ManagedDomains,  \* the domains, in the order in which they are switched
  Country,         \* the countries that can be chosen
  Address,         \* addresses that a node may have
  NoAddress,       \* no address: nothing was resolved
  MaxDnsFaults     \* bound on failed calls, moved nodes and crashes

Domain == {ManagedDomains[i] : i \in DOMAIN ManagedDomains}

ASSUME DnsAssumption ==
  /\ ManagedDomains \in Seq(Domain)
  /\ NoAddress \notin Address /\ MaxDnsFaults \in Nat

VARIABLES
  record,     \* A record of each domain
  home,       \* address of each country's node
  failover,   \* the administrator's dialogue, or the switch in progress
  report,     \* what the administrator was told last: "none", "moved", "failed"
  dnsFaults   \* faults so far

dnsVars == <<record, home, failover, report, dnsFaults>>

Idle == [at |-> "idle", country |-> "none", ip |-> NoAddress, todo |-> <<>>]

DnsTypeOK ==
  /\ record \in [Domain -> [ip : Address, proxied : BOOLEAN]]
  /\ home \in [Country -> Address]
  /\ failover \in [at : {"idle", "asked", "search", "update"}, country : Country \cup {"none"},
                   ip : Address \cup {NoAddress}, todo : Seq(Domain)]
  /\ report \in {"none", "moved", "failed"}
  /\ dnsFaults \in 0..MaxDnsFaults

(* The domains point to one node. *)
DnsInit ==
  /\ \E a \in Address : record = [d \in Domain |-> [ip |-> a, proxied |-> FALSE]]
  /\ home \in [Country -> Address]
  /\ failover = Idle /\ report = "none" /\ dnsFaults = 0

DnsFault == dnsFaults < MaxDnsFaults /\ dnsFaults' = dnsFaults + 1

(* The administrator is shown the node's address and asked to confirm. *)
ShowFailoverConfirm(c) ==
  /\ failover.at \in {"idle", "asked"}
  /\ failover' = [Idle EXCEPT !.at = "asked", !.country = c]
  /\ UNCHANGED <<record, home, report, dnsFaults>>

(* Confirmed: the address is resolved again, now for the switch. *)
BeginSwitch ==
  /\ failover.at = "asked"
  /\ failover' = [failover EXCEPT !.at = "search", !.ip = home[failover.country], !.todo = ManagedDomains]
  /\ report' = "none"
  /\ UNCHANGED <<record, home, dnsFaults>>

(* An exception anywhere ends the switch; what was set stays set. *)
FailSwitch ==
  /\ failover.at \in {"asked", "search", "update"} /\ DnsFault
  /\ failover' = Idle /\ report' = "failed"
  /\ UNCHANGED <<record, home>>

(* The id of the record is looked up. *)
SearchRecord ==
  /\ failover.at = "search" /\ failover.todo # <<>>
  /\ failover' = [failover EXCEPT !.at = "update"]
  /\ UNCHANGED <<record, home, report, dnsFaults>>

(* A faulty variant of the next definition: the answer is not compared. *)
_RecordAccepted(answer) == TRUE

(* The answer is compared with what was asked for. *)
RecordAccepted(answer) == answer = [ip |-> failover.ip, proxied |-> FALSE]

(* Cloudflare sets the record, as asked or, by a setting of the zone, proxied,
   or answers with the old record; an answer that is not the wanted one is an
   exception. *)
UpdateRecord ==
  LET d == Head(failover.todo)
      wanted == [ip |-> failover.ip, proxied |-> FALSE]
  IN /\ failover.at = "update"
     /\ \/ record' = [record EXCEPT ![d] = wanted] /\ UNCHANGED dnsFaults
        \/ /\ DnsFault
           /\ record' \in {[record EXCEPT ![d] = [wanted EXCEPT !.proxied = TRUE]], record}
     /\ IF RecordAccepted(record'[d])
        THEN /\ failover' = [failover EXCEPT !.at = "search", !.todo = Tail(@)]
             /\ UNCHANGED report
        ELSE failover' = Idle /\ report' = "failed"
     /\ UNCHANGED home

(* The record is set but the answer is lost. *)
LoseUpdateAnswer ==
  /\ failover.at = "update" /\ DnsFault
  /\ record' = [record EXCEPT ![Head(failover.todo)] = [ip |-> failover.ip, proxied |-> FALSE]]
  /\ failover' = Idle /\ report' = "failed"
  /\ UNCHANGED home

ReportMoved ==
  /\ failover.at = "search" /\ failover.todo = <<>>
  /\ failover' = Idle /\ report' = "moved"
  /\ UNCHANGED <<record, home, dnsFaults>>

MoveNode(c, a) ==
  /\ DnsFault
  /\ home' = [home EXCEPT ![c] = a]
  /\ UNCHANGED <<record, failover, report>>

(* The bot dies; the switch stops where it was and nothing is reported. *)
RestartBot ==
  /\ failover.at \in {"search", "update"} /\ DnsFault
  /\ failover' = Idle
  /\ UNCHANGED <<record, home, report>>

DnsNext ==
  \/ \E c \in Country : ShowFailoverConfirm(c)
  \/ BeginSwitch \/ SearchRecord \/ UpdateRecord \/ ReportMoved
  \/ FailSwitch \/ LoseUpdateAnswer \/ RestartBot
  \/ \E c \in Country, a \in Address : MoveNode(c, a)

DnsSpec == DnsInit /\ [][DnsNext]_dnsVars

-----------------------------------------------------------------------------
(* When the administrator was told that the cluster has moved, all its
   domains point to one address, none behind the proxy, whatever an earlier
   switch left half done and wherever the node moved in the meantime. *)
MovedTogether ==
  report = "moved" =>
    \E a \in Address : \A d \in Domain : record[d] = [ip |-> a, proxied |-> FALSE]
=============================================================================
