----------------------------- MODULE CabinetLinks -----------------------------
(***************************************************************************)
(* Who sees a subscription in the cabinet: the links that are mailed to an *)
(* address (web.py, store.py), and the address that the owner of a         *)
(* subscription binds to it in the subscription service (app.py), which is *)
(* kept in the orders of its profile.                                      *)
(*                                                                         *)
(* One profile. Times are ages of links, in units in which the pause       *)
(* between two requests is one. Opening a link changes nothing but its     *)
(* used_at, which nothing depends on.                                      *)
(***************************************************************************)
EXTENDS Naturals, Sequences, FiniteSets

CONSTANTS
  Mail,           \* addresses
  NoMail,         \* an order without address
  LinkTTL,        \* magic_link_ttl_seconds, and the window of the limit
  LinksAllowed,   \* links within the window
  ChangesAllowed, \* changes of the address within a day
  Requester,      \* threads of the web server that send links
  Binder,         \* threads of the subscription service that bind addresses
  MaxLinks,       \* bound on the links
  MaxOrders       \* bound on the orders of the profile

ASSUME CabinetAssumption ==
  /\ NoMail \notin Mail
  /\ {LinkTTL, LinksAllowed, ChangesAllowed, MaxLinks, MaxOrders} \subseteq Nat

VARIABLES
  link,     \* magic_links, oldest first
  asking,   \* the address for which a thread has passed the limits
  listed,   \* the profile's row: "none" (the client is only in x-ui), "active", "deleted"
  carried,  \* customer_email of its delivered orders, oldest first
  binder,   \* what each binding request does
  changes,  \* rows of profile_email_changes of the last day
  entitled  \* who may see the profile: the address bound last, and those of orders since

linkVars == <<link, asking>>
bindVars == <<listed, carried, binder, changes, entitled>>
cabinetVars == <<linkVars, bindVars>>

IdleBinder == [at |-> "idle", mail |-> NoMail, seen |-> 0, change |-> FALSE]

CabinetTypeOK ==
  /\ Len(link) <= MaxLinks
  /\ \A i \in DOMAIN link : link[i] \in [mail : Mail, age : 0..LinkTTL + 1, live : BOOLEAN]
  /\ asking \in [Requester -> Mail \cup {NoMail}]
  /\ listed \in {"none", "active", "deleted"}
  /\ Len(carried) <= MaxOrders
  /\ \A i \in DOMAIN carried : carried[i] \in Mail \cup {NoMail}
  /\ binder \in [Binder -> [at : {"idle", "insert", "write"}, mail : Mail \cup {NoMail},
                            seen : 0..MaxOrders, change : BOOLEAN]]
  /\ changes \in 0..ChangesAllowed + MaxOrders + 2
  /\ entitled \subseteq Mail

CabinetInit ==
  /\ link = <<>> /\ asking = [r \in Requester |-> NoMail]
  /\ listed = "none" /\ carried = <<>>
  /\ binder = [b \in Binder |-> IdleBinder]
  /\ changes = 0 /\ entitled = {}

-----------------------------------------------------------------------------
(* Links *)

(* The limits, looked at before the link is made: no link of this address in
   the last 20 seconds and fewer than LinksAllowed in the window. *)
AskForLink(r, m) ==
  LET recent == {i \in DOMAIN link : link[i].mail = m /\ link[i].age <= LinkTTL}
  IN /\ asking[r] = NoMail
     /\ \A i \in recent : link[i].age > 0
     /\ Cardinality(recent) < LinksAllowed
     /\ asking' = [asking EXCEPT ![r] = m]
     /\ UNCHANGED <<link, bindVars>>

(* Which links a new one cancels: expires_at > now. *)
Superseded(l, m) == l.mail = m /\ l.age < LinkTTL

(* One transaction. *)
CreateMagicLink(r) ==
  LET m == asking[r] IN
  /\ m # NoMail /\ Len(link) < MaxLinks
  /\ link' = Append([i \in DOMAIN link |->
                       [link[i] EXCEPT !.live = @ /\ ~Superseded(link[i], m)]],
                    [mail |-> m, age |-> 0, live |-> TRUE])
  /\ asking' = [asking EXCEPT ![r] = NoMail]
  /\ UNCHANGED bindVars

LinksAge ==
  /\ \E i \in DOMAIN link : link[i].age <= LinkTTL
  /\ link' = [i \in DOMAIN link |->
       [link[i] EXCEPT !.age = IF @ <= LinkTTL THEN @ + 1 ELSE @]]
  /\ UNCHANGED <<asking, bindVars>>

(* consume_magic_link and the signature of the token: expires_at >= now. *)
Opens(l) == l.live /\ l.age <= LinkTTL

(* get_active_profiles_by_customer_email: does the cabinet of this address
   show the profile. *)
ShowsProfile(m) == listed = "active" /\ \E i \in DOMAIN carried : carried[i] = m

-----------------------------------------------------------------------------
(* Addresses *)

SetBinder(b, v) == binder' = [binder EXCEPT ![b] = v]

(* The address that the profile has now: that of its newest order with one. *)
CurrentMail ==
  LET with == {i \in DOMAIN carried : carried[i] # NoMail}
  IN IF with = {} THEN NoMail ELSE carried[CHOOSE i \in with : \A j \in with : j <= i]

(* The request reads the orders and the limit of changes, each without a lock. *)
ReadOrders(b, m) ==
  LET change == CurrentMail # m
  IN IF change /\ changes >= ChangesAllowed THEN SetBinder(b, IdleBinder)
     ELSE SetBinder(b, [at |-> "write", mail |-> m, seen |-> Len(carried), change |-> change])

BeginBinding(b, m) ==
  /\ binder[b].at = "idle"
  /\ \/ listed = "active" /\ ReadOrders(b, m)
     \/ listed = "none" /\ SetBinder(b, [IdleBinder EXCEPT !.at = "insert", !.mail = m])
  /\ UNCHANGED <<linkVars, listed, carried, changes, entitled>>

(* A client without a row gets one; of two requests the second fails, as
   xui_email is unique. *)
InsertProfile(b) ==
  /\ binder[b].at = "insert"
  /\ \/ listed = "none" /\ listed' = "active" /\ ReadOrders(b, binder[b].mail)
     \/ listed # "none" /\ UNCHANGED listed /\ SetBinder(b, IdleBinder)
  /\ UNCHANGED <<linkVars, carried, changes, entitled>>

(* A faulty variant of the next definition: only the newest order is given the
   new address. *)
_Rebound(seen, m) == [i \in DOMAIN carried |-> IF i = seen THEN m ELSE carried[i]]

(* The orders that were read get the address. *)
Rebound(seen, m) == [i \in DOMAIN carried |-> IF i <= seen THEN m ELSE carried[i]]

(* The address is written, in one transaction: into the orders that were read,
   or into a new order of the kind email_binding if there were none. *)
WriteAddress(b) ==
  LET m == binder[b].mail
      seen == binder[b].seen
  IN /\ binder[b].at = "write"
     /\ seen = 0 => Len(carried) < MaxOrders
     /\ changes' = IF binder[b].change THEN changes + 1 ELSE changes
     /\ carried' = IF seen > 0 THEN Rebound(seen, m) ELSE Append(carried, m)
     /\ entitled' = ({m} \cup {carried[i] : i \in seen+1..Len(carried)}) \ {NoMail}
     /\ SetBinder(b, IdleBinder)
     /\ UNCHANGED <<linkVars, listed>>

(* A renewal is delivered, with the address that the customer gave or none. *)
DeliverOrderFor(m) ==
  /\ listed = "active" /\ Len(carried) < MaxOrders
  /\ carried' = Append(carried, m)
  /\ entitled' = entitled \cup ({m} \ {NoMail})
  /\ UNCHANGED <<linkVars, listed, binder, changes>>

DeleteProfile ==
  /\ listed = "active" /\ listed' = "deleted"
  /\ UNCHANGED <<linkVars, carried, binder, changes, entitled>>

ChangesAge ==
  /\ changes > 0 /\ changes' = 0
  /\ UNCHANGED <<linkVars, listed, carried, binder, entitled>>

CabinetNext ==
  \/ \E r \in Requester : CreateMagicLink(r) \/ \E m \in Mail : AskForLink(r, m)
  \/ LinksAge
  \/ \E b \in Binder :
       InsertProfile(b) \/ WriteAddress(b) \/ \E m \in Mail : BeginBinding(b, m)
  \/ \E m \in Mail \cup {NoMail} : DeliverOrderFor(m)
  \/ DeleteProfile
  \/ ChangesAge

CabinetSpec == CabinetInit /\ [][CabinetNext]_cabinetVars

-----------------------------------------------------------------------------
(* A link that shows the profile is the newest one of its address, and the
   address is the one bound last or that of an order delivered since, however
   requests, bindings and deliveries overlap. In the very second in which a
   link expires a newer one does not cancel it. *)
OwnerSeesProfile ==
  \A i \in DOMAIN link : Opens(link[i]) /\ ShowsProfile(link[i].mail) =>
    /\ link[i].mail \in entitled
    /\ \/ \A j \in DOMAIN link : link[j].mail = link[i].mail => j <= i
       \/ link[i].age = LinkTTL
=============================================================================
