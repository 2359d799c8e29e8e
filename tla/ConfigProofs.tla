---------------------------- MODULE ConfigProofs ----------------------------
(***************************************************************************)
(* Proofs about the configurations that the subscription service answers   *)
(* with: whom they serve, and that what they refer to is there, for any    *)
(* states of the two databases and any files of extra outbounds.           *)
(***************************************************************************)
EXTENDS ClientConfigs, FiniteSetTheorems, WellFoundedInduction, TLAPS

-----------------------------------------------------------------------------
(* Configurations. Who has paid, and what he is served when he is answered. *)
Ends == IF shopRead THEN {panelEnds, shopEnds} ELSE {panelEnds}
Paid == clientOn /\ (Future \in Ends \/ Ends = {Never})

Usable(config) ==
  \/ config.routing.balanced
  \/ ServersIn(config) # {} /\ config.outs[1].kind # "blackhole"

ConfigTypes ==
  /\ panelEnds \in Moments /\ shopEnds \in Moments
  /\ shopRead \in BOOLEAN /\ clientOn \in BOOLEAN
  /\ extras \in Seq(ToSet(extras))

ConfigInv == ConfigTypes /\ ServesThePaid

(* The later end that is known decides, and none does if none is known. *)
LEMMA PaidIsActive ==
  ASSUME ConfigTypes PROVE Active <=> Paid
<1>1. /\ panelEnds = 0 \/ panelEnds = 1 \/ panelEnds = 3
      /\ shopEnds = 0 \/ shopEnds = 1 \/ shopEnds = 3
  BY DEF ConfigTypes, Moments, Never, Past, Future
<1>2. CASE shopRead
  <2>1. Ends = {Never} <=> panelEnds = Never /\ shopEnds = Never
    BY <1>2 DEF Ends
  <2>2. Future \in Ends <=> panelEnds = Future \/ shopEnds = Future
    BY <1>2 DEF Ends
  <2>3. Expired <=> ~((panelEnds = 3 \/ shopEnds = 3) \/ (panelEnds = 0 /\ shopEnds = 0))
    BY <1>1, <1>2 DEF Expired, SubscriptionEnds, Never, Present
  <2> QED BY <2>1, <2>2, <2>3 DEF Active, Paid, Never, Future
<1>3. CASE ~shopRead
  <2>1. (Ends = {Never} <=> panelEnds = Never) /\ (Future \in Ends <=> panelEnds = Future)
    BY <1>3 DEF Ends
  <2>2. Expired <=> ~(panelEnds = 3 \/ panelEnds = 0)
    BY <1>1, <1>3 DEF Expired, SubscriptionEnds, Never, Present
  <2> QED BY <2>1, <2>2 DEF Active, Paid, Never, Future
<1> QED BY <1>2, <1>3

(* What the route that was asked for serves is what the state calls for. *)
Serves(configs) ==
  ((\E i \in DOMAIN configs : Usable(configs[i])) <=> Active) \/ (~Active /\ Len(extras) > 1)

(* It suffices that every answer serves the paid, in the state it is built in. *)
LEMMA AnswerServes ==
  ASSUME ConfigInv, NEW asked, NEW configs, Answer(asked, configs),
         asked \in {"json", "json-global", "singbox", "clash", "streisand", "internal-fragment",
                    "json-xhttp-test", "json-xhttp-tcp-caddy-test"} => Serves(configs)
  PROVE  ConfigInv'
<1>1. /\ route' = asked /\ answer' = configs
      /\ UNCHANGED <<panelEnds, shopEnds, shopRead, clientOn, extras>>
  BY DEF Answer
<1>2. ConfigTypes'
  BY <1>1 DEF ConfigInv, ConfigTypes, Moments, Never, Past, Present, Future
<1>3. Paid' = Paid
  BY <1>1 DEF Paid, Ends, Never, Future
<1>4. Active <=> Paid
  BY PaidIsActive DEF ConfigInv
<1>5. ServesThePaid'
  <2>1. SUFFICES ASSUME route' \in {"json", "json-global", "singbox", "clash", "streisand",
                                    "internal-fragment", "json-xhttp-test", "json-xhttp-tcp-caddy-test"}
                 PROVE  ((\E i \in DOMAIN answer' : Usable(answer[i])') <=> Paid')
                        \/ (~Paid' /\ Len(extras') > 1)
    BY DEF ServesThePaid, Usable, Paid, Ends
  <2>2. ((\E i \in DOMAIN configs : Usable(configs[i])) <=> Active) \/ (~Active /\ Len(extras) > 1)
    BY <1>1, <2>1 DEF Serves
  <2>3. \A i : Usable(answer[i])' <=> Usable(configs[i])
    BY <1>1 DEF Usable, ServersIn, IsServer
  <2> QED BY <1>1, <1>3, <1>4, <2>2, <2>3
<1> QED BY <1>2, <1>5 DEF ConfigInv

(* Extra outbounds: a configuration keeps what it had, and gets them at one place,
   behind an outbound that is neither `direct' nor `block'. *)
With(S) == S \cup {Server(t) : t \in ToSet(extras)}
Added == [i \in DOMAIN extras |-> Server(extras[i])]

(* The least of some natural numbers is one of them, and the others are no less. *)
LEMMA FirstOf ==
  ASSUME NEW S \in SUBSET Nat, S # {}
  PROVE  Min(S) \in S /\ \A i \in S : Min(S) <= i
<1>1. PICK n \in S : \A k \in S : ~(<<k, n>> \in OpToRel(<, Nat))
  BY NatLessThanWellFounded, WFMin
<1>2. \A k \in S : n <= k
  <2>1. ASSUME NEW k \in S PROVE n <= k
    <3>1. n \in Nat /\ k \in Nat
      OBVIOUS
    <3>2. ~(k < n)
      BY <1>1, <3>1 DEF OpToRel
    <3> QED BY <3>1, <3>2
  <2> QED BY <2>1
<1> QED BY <1>2 DEF Min

(* The extras go in behind position `at'. *)
Splice(outs, at) == SubSeq(outs, 1, at) \o Added \o SubSeq(outs, at + 1, Len(outs))

Mixed(outs, routing, at, new) ==
  /\ new = Splice(outs, at)
  /\ \A i \in 1..Len(outs) : (\A j \in 1..i : ~IsEnd(outs[j])) => i <= at
  /\ WithExtras(Config(outs, routing)) =
       Config(new, IF Cardinality(ServersIn(Config(new, routing))) <= 1 THEN routing
                   ELSE [names |-> routing.names \ ServerTags(Config(new, routing)),
                         balanced |-> TRUE,
                         balancers |-> {[selects |-> <<"proxy", FALSE>>,
                                         fallback |-> new[Min(ServersIn(Config(new, routing)))].tag]}])

(* append_extra_outbounds does insert at such a place. *)
LEMMA ExtrasGoIn ==
  ASSUME ConfigTypes, NEW S, NEW outs \in Seq(S), NEW routing, extras # <<>>
  PROVE  \E at \in 0..Len(outs) : \E new : Mixed(outs, routing, at, new)
<1> DEFINE config == Config(outs, routing)
           ends == {j \in DOMAIN config.outs : IsEnd(config.outs[j])}
           at == IF ends = {} THEN Len(config.outs) ELSE Min(ends) - 1
           new == SubSeq(outs, 1, at) \o Added \o SubSeq(outs, at + 1, Len(outs))
           added == Config(new, routing)
<1>1. config.outs = outs /\ config.routing = routing
  BY DEF Config
<1>2. DOMAIN outs = 1..Len(outs) /\ Len(outs) \in Nat
  OBVIOUS
<1>3. ends \in SUBSET Nat /\ ends \subseteq 1..Len(outs) /\ \A i \in 1..Len(outs) : IsEnd(outs[i]) => i \in ends
  BY <1>1, <1>2
<1>4. at \in 0..Len(outs) /\ \A i \in 1..Len(outs) : (\A j \in 1..i : ~IsEnd(outs[j])) => i <= at
  <2>1. CASE ends = {}
    BY <1>1, <1>2, <2>1
  <2>2. CASE ends # {}
    <3>1. Min(ends) \in ends
      <4> HIDE DEF ends
      <4> QED BY <1>3, <2>2, FirstOf
    <3>2. Min(ends) \in 1..Len(outs) /\ IsEnd(outs[Min(ends)])
      BY <1>1, <1>3, <3>1
    <3>3. at = Min(ends) - 1
      BY <2>2
    <3> HIDE DEF ends, at
    <3> QED BY <1>2, <3>2, <3>3
  <2> QED BY <2>1, <2>2
<1>5. [config EXCEPT !.outs = new] = added
  <2>1. \A o : [[outs |-> outs, routing |-> routing] EXCEPT !.outs = o] = [outs |-> o, routing |-> routing]
    OBVIOUS
  <2> QED BY <2>1 DEF Config
<1>6. WithExtras(config) =
        IF Cardinality(ServersIn(added)) <= 1 THEN added
        ELSE [added EXCEPT !.routing =
               [names |-> @.names \ ServerTags(added), balanced |-> TRUE,
                balancers |-> {[selects |-> <<"proxy", FALSE>>,
                                fallback |-> added.outs[Min(ServersIn(added))].tag]}]]
  <2>1. WithExtras(config) =
        LET more == [config EXCEPT !.outs =
                  SubSeq(@, 1, at) \o [i \in DOMAIN extras |-> Server(extras[i])]
                    \o SubSeq(@, at + 1, Len(@))]
        IN IF Cardinality(ServersIn(more)) <= 1 THEN more
           ELSE [more EXCEPT !.routing =
             [names |-> @.names \ ServerTags(more), balanced |-> TRUE,
              balancers |-> {[selects |-> <<"proxy", FALSE>>,
                              fallback |-> more.outs[Min(ServersIn(more))].tag]}]]
    BY DEF WithExtras
  <2>2. [config EXCEPT !.outs = SubSeq(@, 1, at) \o [i \in DOMAIN extras |-> Server(extras[i])]
                                 \o SubSeq(@, at + 1, Len(@))] = added
    BY <1>1, <1>5 DEF Added
  <2> QED BY <2>1, <2>2
<1> HIDE DEF at, new
<1>7. added.outs = new /\ added.routing = routing
  BY DEF Config
<1>8. WithExtras(config) =
        Config(new, IF Cardinality(ServersIn(added)) <= 1 THEN routing
                    ELSE [names |-> routing.names \ ServerTags(added), balanced |-> TRUE,
                          balancers |-> {[selects |-> <<"proxy", FALSE>>,
                                          fallback |-> new[Min(ServersIn(added))].tag]}])
  BY <1>6, <1>7 DEF Config
<1> QED BY <1>4, <1>8 DEF new, Mixed, Splice

(* An outbound whose tag begins otherwise is neither `direct' nor `block'. *)
LEMMA NoEnd ==
  ASSUME NEW o, NEW t, o.tag = t, t[1] \notin {"direct", "block"}
  PROVE  ~IsEnd(o)
<1>1. Direct.tag[1] = "direct" /\ Block.tag[1] = "block"
  BY DEF Direct, Block
<1>2. t # Direct.tag /\ t # Block.tag
  BY <1>1
<1> QED BY <1>2 DEF IsEnd

(* A list with a first member is not empty. *)
LEMMA NotEmpty ==
  ASSUME NEW S, NEW s \in Seq(S), 1 \in 1..Len(s) PROVE s # <<>>
OBVIOUS

(* One that is not empty has a first member. *)
LEMMA AtLeastOne ==
  ASSUME NEW S, NEW s \in Seq(S), s # <<>> PROVE Len(s) \in Nat /\ Len(s) >= 1
OBVIOUS

Joint(s, t) ==
  /\ Len(s \o t) = Len(s) + Len(t) /\ Len(s) \in Nat /\ Len(t) \in Nat
  /\ \A i \in 1..Len(s) : (s \o t)[i] = s[i]
  /\ \A i \in 1..Len(t) : (s \o t)[Len(s) + i] = t[i]

(* Two lists, one behind the other *)
LEMMA Joined ==
  ASSUME NEW S, NEW s \in Seq(S), NEW t \in Seq(S)
  PROVE  s \o t \in Seq(S) /\ Joint(s, t)
BY DEF Joint

(* Where the outbounds are when extras have been inserted. *)
Places(outs, at, new) ==
  /\ Len(new) = Len(outs) + Len(extras)
  /\ \A i \in 1..at : new[i] = outs[i]
  /\ \A i \in 1..Len(extras) : new[at + i] = Server(extras[i])
  /\ \A i \in (at + 1)..Len(outs) : new[i + Len(extras)] = outs[i]

(* What is where after the insertion, and that it is a list. *)
LEMMA WhereTheyAre ==
  ASSUME ConfigTypes, NEW S, NEW outs \in Seq(S), NEW at \in 0..Len(outs), NEW new,
         new = Splice(outs, at)
  PROVE  new \in Seq(With(S)) /\ Places(outs, at, new)
<1> DEFINE before == SubSeq(outs, 1, at)
           after == SubSeq(outs, at + 1, Len(outs))
<1>1. extras \in Seq(ToSet(extras)) /\ Len(extras) \in Nat /\ outs \in Seq(With(S)) /\ Len(outs) \in Nat
  BY DEF ConfigTypes, With
<1>2. Added \in Seq(With(S)) /\ Len(Added) = Len(extras) /\ \A i \in 1..Len(extras) : Added[i] = Server(extras[i])
  <2>1. \A i \in 1..Len(extras) : Server(extras[i]) \in With(S)
    BY <1>1 DEF With
  <2>2. Added = [i \in 1..Len(extras) |-> Server(extras[i])]
    BY <1>1 DEF Added
  <2> QED BY <1>1, <2>1, <2>2
<1>3. /\ before \in Seq(With(S)) /\ Len(before) = at /\ \A i \in 1..at : before[i] = outs[i]
      /\ after \in Seq(With(S)) /\ Len(after) = Len(outs) - at
      /\ \A i \in 1..(Len(outs) - at) : after[i] = outs[at + i]
  BY <1>1
<1>4. new = before \o Added \o after
  BY DEF Splice
<1> HIDE DEF before, after
<1>5. /\ before \o Added \in Seq(With(S)) /\ Len(before \o Added) = at + Len(extras)
      /\ \A i \in 1..at : (before \o Added)[i] = outs[i]
      /\ \A i \in 1..Len(extras) : (before \o Added)[at + i] = Server(extras[i])
  <2>1. before \o Added \in Seq(With(S)) /\ Joint(before, Added)
    BY <1>2, <1>3, Joined, Zenon
  <2> QED BY <1>2, <1>3, <2>1 DEF Joint
<1>6. /\ new \in Seq(With(S)) /\ Len(new) = Len(outs) + Len(extras)
      /\ \A i \in 1..(at + Len(extras)) : new[i] = (before \o Added)[i]
      /\ \A i \in 1..(Len(outs) - at) : new[at + Len(extras) + i] = after[i]
  <2>1. before \o Added \in Seq(With(S)) /\ after \in Seq(With(S))
    BY <1>3, <1>5
  <2>0. PICK early : early = before \o Added
    OBVIOUS
  <2>2. new = early \o after /\ early \o after \in Seq(With(S)) /\ Joint(early, after)
    BY <1>4, <2>0, <2>1, Joined, Zenon
  <2>3. Len(early) = at + Len(extras) /\ Len(after) = Len(outs) - at
    BY <1>3, <1>5, <2>0
  <2>4. Len(new) = Len(outs) + Len(extras)
    <3>1. Len(new) = Len(early) + Len(after)
      BY <2>2, Zenon DEF Joint
    <3>3. at \in Nat /\ Len(extras) \in Nat /\ Len(outs) \in Nat
      BY <1>1
    <3> QED BY <2>3, <3>1, <3>3
  <2>5. /\ \A i \in 1..(at + Len(extras)) : new[i] = early[i]
        /\ \A i \in 1..(Len(outs) - at) : new[at + Len(extras) + i] = after[i]
    BY <2>2, <2>3 DEF Joint
  <2> QED BY <2>0, <2>2, <2>4, <2>5
<1>7. \A i \in 1..at : new[i] = outs[i]
  <2>1. ASSUME NEW i \in 1..at PROVE new[i] = outs[i]
    <3>1. i \in 1..(at + Len(extras))
      BY <1>1
    <3> QED BY <1>5, <1>6, <3>1
  <2> QED BY <2>1
<1>8. \A i \in 1..Len(extras) : new[at + i] = Server(extras[i])
  <2>1. ASSUME NEW i \in 1..Len(extras) PROVE new[at + i] = Server(extras[i])
    <3>1. at + i \in 1..(at + Len(extras))
      BY <1>1
    <3> QED BY <1>5, <1>6, <3>1
  <2> QED BY <2>1
<1>9. \A i \in (at + 1)..Len(outs) : new[i + Len(extras)] = outs[i]
  <2>1. ASSUME NEW i \in (at + 1)..Len(outs) PROVE new[i + Len(extras)] = outs[i]
    <3>1. i - at \in 1..(Len(outs) - at) /\ at + Len(extras) + (i - at) = i + Len(extras) /\ at + (i - at) = i
      BY <1>1
    <3>2. new[at + Len(extras) + (i - at)] = after[i - at] /\ after[i - at] = outs[at + (i - at)]
      BY <1>3, <1>6, <3>1
    <3> QED BY <3>1, <3>2
  <2> QED BY <2>1
<1> QED BY <1>6, <1>7, <1>8, <1>9 DEF Places

(* Extras take no server away: a balancer stays, or one comes, and the first
   outbound stays first. *)
LEMMA StaysUsable ==
  ASSUME ConfigTypes, NEW S, NEW outs \in Seq(S), NEW routing,
         routing.balanced \/ (outs # <<>> /\ IsServer(outs[1]) /\ ~IsEnd(outs[1]))
  PROVE  Usable(WithExtras(Config(outs, routing)))
<1>1. CASE extras = <<>>
  <2>1. WithExtras(Config(outs, routing)) = Config(outs, routing)
    BY <1>1 DEF WithExtras
  <2>2. outs # <<>> /\ IsServer(outs[1]) => 1 \in ServersIn(Config(outs, routing)) /\ outs[1].kind # "blackhole"
    BY DEF ServersIn, Config, IsServer
  <2> QED BY <2>1, <2>2 DEF Usable, Config
<1>2. CASE extras # <<>>
  <2>0. PICK at \in 0..Len(outs) : \E new : Mixed(outs, routing, at, new)
    BY <1>2, ExtrasGoIn
  <2>1. PICK new :
           /\ new = Splice(outs, at)
           /\ \A i \in 1..Len(outs) : (\A j \in 1..i : ~IsEnd(outs[j])) => i <= at
           /\ \/ WithExtras(Config(outs, routing)) = Config(new, routing)
              \/ WithExtras(Config(outs, routing)).routing.balanced
    <3>1. PICK new : Mixed(outs, routing, at, new)
      BY <2>0
    <3>2. CASE Cardinality(ServersIn(Config(new, routing))) <= 1
      <4>1. WithExtras(Config(outs, routing)) = Config(new, routing)
        BY <3>1, <3>2 DEF Mixed
      <4> QED BY <3>1, <4>1 DEF Mixed
    <3>3. CASE ~(Cardinality(ServersIn(Config(new, routing))) <= 1)
      <4>1. WithExtras(Config(outs, routing)).routing.balanced
        BY <3>1, <3>3 DEF Mixed, Config
      <4> QED BY <3>1, <4>1 DEF Mixed
    <3> QED BY <3>2, <3>3
  <2>2. /\ new \in Seq(With(S)) /\ Len(new) = Len(outs) + Len(extras) /\ Len(extras) \in Nat
        /\ \A i \in 1..at : new[i] = outs[i]
    <3>1. new = Splice(outs, at)
      BY <2>1
    <3>2. Len(extras) \in Nat
      BY DEF ConfigTypes
    <3>3. new \in Seq(With(S)) /\ Places(outs, at, new)
      BY <3>1, WhereTheyAre, Zenon
    <3> QED BY <3>2, <3>3 DEF Places
  <2>3. CASE routing.balanced
    BY <2>1, <2>3 DEF Usable, Config
  <2>4. CASE outs # <<>> /\ IsServer(outs[1]) /\ ~IsEnd(outs[1])
    <3>1. 1 \in 1..Len(outs) /\ Len(outs) \in Nat
      BY <2>4
    <3>2. 1 <= at /\ \A j \in 1..1 : j = 1
      BY <2>1, <2>4, <3>1
    <3>3. new[1] = outs[1] /\ 1 \in DOMAIN new
      BY <2>2, <3>1, <3>2
    <3>4. 1 \in ServersIn(Config(new, routing)) /\ new[1].kind # "blackhole"
      BY <2>4, <3>3 DEF ServersIn, Config, IsServer
    <3>5. Usable(Config(new, routing))
      BY <3>4 DEF Usable, Config
    <3> QED BY <2>1, <3>5 DEF Usable
  <2> QED BY <2>3, <2>4
<1> QED BY <1>1, <1>2

(* One extra outbound behind the black hole of an expired subscription serves nobody. *)
LEMMA DummyServesNobody ==
  ASSUME ConfigTypes, Len(extras) <= 1
  PROVE  ~Usable(WithExtras(ExpiredDummy))
<1> DEFINE hole == [tag |-> <<"proxy", "">>, kind |-> "blackhole"]
           outs == <<hole>>
           routing == PlainRouting({})
<1>1. ExpiredDummy = Config(outs, routing) /\ ~routing.balanced
  BY DEF ExpiredDummy, PlainRouting
<1>2. outs \in Seq({hole}) /\ Len(outs) = 1 /\ outs[1].kind = "blackhole"
  <2>1. hole.kind = "blackhole"
    OBVIOUS
  <2> HIDE DEF hole
  <2> QED BY <2>1
<1> HIDE DEF outs, routing, hole
<1>3. CASE extras = <<>>
  <2>1. WithExtras(ExpiredDummy) = Config(outs, routing)
    BY <1>1, <1>3 DEF WithExtras
  <2> QED BY <1>1, <1>2, <2>1 DEF Usable, Config
<1>4. CASE extras # <<>>
  <2>1. PICK at \in 0..Len(outs) : \E new : Mixed(outs, routing, at, new)
    BY <1>2, <1>4, ExtrasGoIn
  <2>2. PICK new : Mixed(outs, routing, at, new)
    BY <2>1
  <2>3. at = 1
    <3>1. outs[1].tag = <<"proxy", "">>
      BY DEF outs, hole
    <3>2. ~IsEnd(outs[1])
      <4>1. ASSUME NEW t, t = <<"proxy", "">> PROVE t[1] \notin {"direct", "block"}
        BY <4>1
      <4>2. PICK t : t = <<"proxy", "">>
        OBVIOUS
      <4>3. outs[1].tag = t /\ t[1] \notin {"direct", "block"}
        BY <3>1, <4>1, <4>2, Zenon
      <4> QED BY <4>3, NoEnd, Zenon
    <3>3. 1 \in 1..Len(outs) /\ \A j \in 1..1 : j = 1
      BY <1>2
    <3>4. 1 <= at
      BY <2>2, <3>2, <3>3 DEF Mixed
    <3> QED BY <1>2, <3>4
  <2>4. Len(extras) = 1
    <3>1. extras \in Seq(ToSet(extras)) /\ extras # <<>> /\ Len(extras) <= 1
      BY <1>4 DEF ConfigTypes
    <3>2. Len(extras) \in Nat /\ Len(extras) >= 1
      BY <3>1, AtLeastOne
    <3>3. \A n \in Nat : n >= 1 /\ n <= 1 => n = 1
      OBVIOUS
    <3> QED BY <3>1, <3>2, <3>3, Zenon
  <2>5. new \in Seq(With({hole})) /\ Len(new) = 2 /\ new[1] = outs[1]
    <3>1. new = Splice(outs, at)
      BY <2>2 DEF Mixed
    <3>2. new \in Seq(With({hole})) /\ Places(outs, at, new)
      BY <1>2, <2>1, <3>1, WhereTheyAre, Zenon
    <3>3. Len(new) = Len(outs) + Len(extras)
      BY <3>2 DEF Places
    <3>4. Len(new) = 2
      BY <1>2, <2>4, <3>3
    <3>5. new[1] = outs[1]
      BY <2>3, <3>2 DEF Places
    <3> QED BY <3>2, <3>4, <3>5
  <2>6. ServersIn(Config(new, routing)) \subseteq {2}
    BY <1>2, <2>5 DEF ServersIn, Config, IsServer
  <2>7. Cardinality(ServersIn(Config(new, routing))) <= 1
    <3>1. IsFiniteSet({2}) /\ Cardinality({2}) = 1
      BY FS_Singleton
    <3>2. Cardinality(ServersIn(Config(new, routing))) <= Cardinality({2})
      BY <2>6, <3>1, FS_Subset
    <3> QED BY <3>1, <3>2
  <2>8. WithExtras(ExpiredDummy) = Config(new, routing)
    BY <1>1, <2>2, <2>7 DEF Mixed
  <2> QED BY <1>1, <1>2, <2>5, <2>8 DEF Usable, Config
<1> QED BY <1>3, <1>4

(* Lists of outbounds: s is a list without a tag twice, and its tags are T. *)
Listed(s, T) ==
  /\ s \in Seq(ToSet(s)) /\ TagsOf(s) = T
  /\ \A i, j \in 1..Len(s) : s[i].tag = s[j].tag => i = j

TagsAt(place, kinds) == {<<place, k>> : k \in kinds}

(* The two parts of a tag *)
LEMMA PairParts ==
  ASSUME NEW a, NEW b, NEW t, t = <<a, b>> PROVE t[1] = a /\ t[2] = b
OBVIOUS

(* A tag of a place begins with it and ends with one of the kinds. *)
LEMMA TagParts ==
  ASSUME NEW place, NEW kinds, NEW t \in TagsAt(place, kinds)
  PROVE  t[1] = place /\ t[2] \in kinds
<1>1. PICK k \in kinds : t = <<place, k>>
  BY DEF TagsAt
<1> QED BY <1>1, PairParts, Zenon

(* Tags of different places, or of different kinds, are different. *)
LEMMA TagsApart ==
  ASSUME NEW p, NEW q, NEW K, NEW L, p # q \/ K \cap L = {}
  PROVE  TagsAt(p, K) \cap TagsAt(q, L) = {}
BY DEF TagsAt

(* A sequence over any set is one over its own members. *)
LEMMA OwnMembers ==
  ASSUME NEW S, NEW s \in Seq(S)
  PROVE  s \in Seq(ToSet(s)) /\ ToSet(s) \subseteq S /\ \A U : ToSet(s) \subseteq U => s \in Seq(U)
<1>1. DOMAIN s = 1..Len(s) /\ Len(s) \in Nat /\ s = [i \in 1..Len(s) |-> s[i]]
  OBVIOUS
<1>2. \A i \in 1..Len(s) : s[i] \in ToSet(s)
  BY <1>1 DEF ToSet
<1>3. ASSUME NEW U, ToSet(s) \subseteq U PROVE s \in Seq(U)
  <2>1. \A i \in 1..Len(s) : s[i] \in U
    BY <1>2, <1>3
  <2> QED BY <1>1, <2>1
<1>4. ToSet(s) \subseteq S
  BY <1>1 DEF ToSet
<1> QED BY <1>3, <1>4

(* One outbound *)
LEMMA ListedOne ==
  ASSUME NEW o PROVE Listed(<<o>>, {o.tag}) /\ <<o>>[1] = o /\ Len(<<o>>) = 1
BY DEF Listed, TagsOf, ToSet

(* No outbound at all *)
LEMMA ListedNone == Listed(<<>>, {})
BY DEF Listed, TagsOf, ToSet

(* Servers of one place, each of another kind, have different tags. *)
LEMMA ListedServers ==
  ASSUME NEW place, NEW n \in Nat, NEW kinds, DOMAIN kinds = 1..n,
         \A i, j \in 1..n : kinds[i] = kinds[j] => i = j
  PROVE  /\ Listed(Servers(place, kinds), TagsAt(place, ToSet(kinds)))
         /\ Len(Servers(place, kinds)) = n
         /\ \A i \in 1..n : Servers(place, kinds)[i] = Server(<<place, kinds[i]>>)
<1> DEFINE s == Servers(place, kinds)
<1>1. s = [i \in 1..n |-> Server(<<place, kinds[i]>>)]
  BY DEF Servers
<1> HIDE DEF s
<1>2. Len(s) = n /\ DOMAIN s = 1..n /\ \A i \in 1..n : s[i] = Server(<<place, kinds[i]>>)
  BY <1>1
<1>3. s \in Seq(ToSet(s))
  <2>1. \A i \in 1..n : s[i] \in ToSet(s)
    BY <1>2 DEF ToSet
  <2> QED BY <1>1, <2>1
<1>4. \A i \in 1..n : s[i].tag = <<place, kinds[i]>>
  BY <1>2 DEF Server
<1>5. TagsOf(s) = TagsAt(place, ToSet(kinds))
  <2>1. TagsOf(s) = {<<place, kinds[i]>> : i \in 1..n}
    <3>1. TagsOf(s) = {s[i].tag : i \in 1..n}
      BY <1>2 DEF TagsOf
    <3> QED BY <1>4, <3>1, Zenon
  <2>2. ToSet(kinds) = {kinds[i] : i \in 1..n}
    BY DEF ToSet
  <2> QED BY <2>1, <2>2 DEF TagsAt
<1>6. \A i, j \in 1..n : s[i].tag = s[j].tag => i = j
  BY <1>4
<1> QED BY <1>2, <1>3, <1>5, <1>6 DEF Listed, s

(* Two lists without a tag in common are one list without a tag twice. *)
LEMMA ListedTwo ==
  ASSUME NEW s, NEW t, NEW T, NEW U, Listed(s, T), Listed(t, U), T \cap U = {}
  PROVE  Listed(s \o t, T \cup U) /\ Joint(s, t)
<1> DEFINE S == ToSet(s) \cup ToSet(t)
<1>1. s \in Seq(S) /\ t \in Seq(S)
  BY OwnMembers DEF Listed
<1> HIDE DEF S
<1>2. s \o t \in Seq(S) /\ Joint(s, t)
  BY <1>1, Joined
<1>3. PICK new : new = s \o t
  OBVIOUS
<1>4. new \in Seq(ToSet(new))
  BY <1>2, <1>3, OwnMembers
<1>5. PICK n \in Nat, m \in Nat : n = Len(s) /\ m = Len(t)
  BY <1>2 DEF Joint
<1>6. /\ Len(new) = n + m /\ DOMAIN new = 1..(n + m) /\ DOMAIN s = 1..n /\ DOMAIN t = 1..m
      /\ \A i \in 1..n : new[i] = s[i]
      /\ \A i \in 1..m : new[n + i] = t[i]
  BY <1>1, <1>2, <1>3, <1>5 DEF Joint
<1>7. \A i \in 1..(n + m) : i \in 1..n \/ (i - n \in 1..m /\ i = n + (i - n))
  OBVIOUS
<1>8. /\ \A i \in 1..n : s[i].tag \in T
      /\ \A i \in 1..m : t[i].tag \in U
      /\ \A i, j \in 1..n : s[i].tag = s[j].tag => i = j
      /\ \A i, j \in 1..m : t[i].tag = t[j].tag => i = j
  BY <1>5, <1>6 DEF Listed, TagsOf
<1>9. TagsOf(new) = T \cup U
  <2>1. TagsOf(new) \subseteq T \cup U
    <3>1. ASSUME NEW i \in 1..(n + m) PROVE new[i].tag \in T \cup U
      <4>1. CASE i \in 1..n
        BY <1>6, <1>8, <4>1
      <4>2. CASE i \notin 1..n
        <5>1. new[i] = t[i - n] /\ i - n \in 1..m
          BY <1>6, <1>7, <4>2
        <5> QED BY <1>8, <5>1
      <4> QED BY <4>1, <4>2
    <3> QED BY <1>6, <3>1 DEF TagsOf
  <2>2. ASSUME NEW x \in T PROVE x \in TagsOf(new)
    <3>1. PICK i \in 1..n : x = s[i].tag
      BY <1>6 DEF Listed, TagsOf
    <3>2. i \in 1..(n + m) /\ new[i].tag = x
      BY <1>6, <3>1
    <3> QED BY <1>6, <3>2 DEF TagsOf
  <2>3. ASSUME NEW x \in U PROVE x \in TagsOf(new)
    <3>1. PICK i \in 1..m : x = t[i].tag
      BY <1>6 DEF Listed, TagsOf
    <3>2. n + i \in 1..(n + m) /\ new[n + i].tag = x
      BY <1>6, <3>1
    <3> QED BY <1>6, <3>2 DEF TagsOf
  <2> QED BY <2>1, <2>2, <2>3
<1>10. ASSUME NEW i \in 1..(n + m), NEW j \in 1..(n + m), new[i].tag = new[j].tag
       PROVE  i = j
  <2>1. CASE i \in 1..n /\ j \in 1..n
    BY <1>6, <1>8, <1>10, <2>1
  <2>2. CASE i \in 1..n /\ j \notin 1..n
    <3>1. new[j] = t[j - n] /\ j - n \in 1..m
      BY <1>6, <1>7, <2>2
    <3> QED BY <1>6, <1>8, <1>10, <2>2, <3>1
  <2>3. CASE i \notin 1..n /\ j \in 1..n
    <3>1. new[i] = t[i - n] /\ i - n \in 1..m
      BY <1>6, <1>7, <2>3
    <3> QED BY <1>6, <1>8, <1>10, <2>3, <3>1
  <2>4. CASE i \notin 1..n /\ j \notin 1..n
    <3>1. new[i] = t[i - n] /\ i - n \in 1..m /\ new[j] = t[j - n] /\ j - n \in 1..m
      BY <1>6, <1>7, <2>4
    <3>2. i - n = j - n
      BY <1>8, <1>10, <3>1
    <3> QED BY <3>2
  <2> QED BY <2>1, <2>2, <2>3, <2>4
<1> QED BY <1>2, <1>3, <1>4, <1>6, <1>9, <1>10 DEF Listed

(* An outbound of the first list is at its place in both. *)
Placed(s, i, o) == i \in 1..Len(s) /\ s[i] = o

(* It stays there when another list follows. *)
LEMMA PlacedStays ==
  ASSUME NEW s, NEW t, Joint(s, t), NEW i, NEW o, Placed(s, i, o)
  PROVE  Placed(s \o t, i, o)
<1>1. PICK n \in Nat, m \in Nat : n = Len(s) /\ m = Len(t) /\ Len(s \o t) = n + m
  BY DEF Joint
<1>2. i \in 1..n /\ i \in 1..(n + m)
  BY <1>1 DEF Placed
<1> QED BY <1>1, <1>2 DEF Joint, Placed

(* The protocols of a node. *)
LEMMA KindsOf ==
  /\ DOMAIN Protocols = 1..4 /\ \A i, j \in 1..4 : Protocols[i] = Protocols[j] => i = j
  /\ Protocols[1] = "classic-tcp"
  /\ ToSet(Protocols) = {"classic-tcp", "fast-tcp", "speed-hysteria2", "backup-grpc"}
<1>1. DOMAIN Protocols = 1..4
  BY DEF Protocols
<1>2. /\ Protocols[1] = "classic-tcp" /\ Protocols[2] = "fast-tcp"
      /\ Protocols[3] = "speed-hysteria2" /\ Protocols[4] = "backup-grpc"
  BY DEF Protocols
<1>3. \A i \in 1..4 : i = 1 \/ i = 2 \/ i = 3 \/ i = 4
  OBVIOUS
<1>4. \A i, j \in 1..4 : Protocols[i] = Protocols[j] => i = j
  BY <1>2, <1>3
<1>5. ToSet(Protocols) = {"classic-tcp", "fast-tcp", "speed-hysteria2", "backup-grpc"}
  <2>1. ToSet(Protocols) = {Protocols[i] : i \in 1..4}
    BY <1>1 DEF ToSet
  <2> QED BY <1>2, <1>3, <2>1
<1> QED BY <1>1, <1>2, <1>4, <1>5

(* The protocols and one more *)
LEMMA KindsWith ==
  ASSUME NEW k, k \notin ToSet(Protocols)
  PROVE  LET kinds == Protocols \o <<k>>
         IN /\ DOMAIN kinds = 1..5 /\ \A i, j \in 1..5 : kinds[i] = kinds[j] => i = j
            /\ kinds[1] = "classic-tcp" /\ ToSet(kinds) = ToSet(Protocols) \cup {k}
<1> DEFINE kinds == Protocols \o <<k>>
           S == ToSet(Protocols) \cup {k}
<1>1. Protocols = [i \in 1..4 |-> Protocols[i]] /\ \A i \in 1..4 : Protocols[i] \in S
  BY KindsOf DEF Protocols, ToSet
<1>2. Protocols \in Seq(S) /\ Len(Protocols) = 4
  BY <1>1, KindsOf DEF Protocols
<1>3. <<k>> \in Seq(S) /\ Len(<<k>>) = 1 /\ <<k>>[1] = k
  OBVIOUS
<1> HIDE DEF S
<1>4. kinds \in Seq(S) /\ Joint(Protocols, <<k>>)
  BY <1>2, <1>3, Joined
<1>5. /\ Len(kinds) = 5 /\ kinds[5] = k /\ \A i \in 1..4 : kinds[i] = Protocols[i]
  <2>1. Len(kinds) = Len(Protocols) + Len(<<k>>)
    BY <1>4 DEF Joint
  <2>2. \A i \in 1..Len(<<k>>) : kinds[Len(Protocols) + i] = <<k>>[i]
    BY <1>4 DEF Joint
  <2>3. \A i \in 1..Len(Protocols) : kinds[i] = Protocols[i]
    BY <1>4 DEF Joint
  <2> HIDE DEF kinds
  <2>4. Len(kinds) = 4 + 1 /\ \A i \in 1..1 : kinds[4 + i] = <<k>>[i]
    BY <1>2, <1>3, <2>1, <2>2
  <2> QED BY <1>2, <1>3, <2>3, <2>4
<1>6. DOMAIN kinds = 1..5
  BY <1>4, <1>5
<1> HIDE DEF kinds
<1>7. \A i \in 1..5 : i = 5 \/ i \in 1..4
  OBVIOUS
<1>8. \A i \in 1..4 : Protocols[i] \in ToSet(Protocols)
  BY KindsOf DEF ToSet
<1>9. \A i, j \in 1..5 : kinds[i] = kinds[j] => i = j
  BY <1>5, <1>7, <1>8, KindsOf
<1>10. ToSet(kinds) = ToSet(Protocols) \cup {k}
  <2>1. ToSet(kinds) = {kinds[i] : i \in 1..5} /\ ToSet(Protocols) = {Protocols[i] : i \in 1..4}
    BY <1>6, KindsOf DEF ToSet
  <2>2. \A i \in 1..4 : i \in 1..5 /\ 5 \in 1..5
    OBVIOUS
  <2> QED BY <1>5, <1>7, <2>1, <2>2
<1> QED BY <1>5, <1>6, <1>9, <1>10, KindsOf DEF kinds

(* The lists of outbounds of the builders, their tags, and a server in each. *)
PlainTags == {<<"proxy", "">>, Direct.tag, Block.tag}

(* The tags of `direct' and `block', of servers and groups *)
LEMMA FixedTags ==
  /\ Direct.tag = <<"direct", "">> /\ Block.tag = <<"block", "">> /\ Direct.tag # Block.tag
  /\ \A t : Server(t).tag = t /\ IsServer(Server(t)) /\ Group(t).tag = t
BY DEF Direct, Block, Server, Group, IsServer

(* `direct' and `block' at the end of a list *)
LEMMA EndsListed ==
  Listed(<<Direct, Block>>, {Direct.tag, Block.tag}) /\ Listed(<<Direct>>, {Direct.tag})
<1>1. Listed(<<Direct, Block>>, {Direct.tag, Block.tag})
  <2>1. Direct.tag # Block.tag
    BY FixedTags
  <2> QED BY <2>1 DEF Listed, TagsOf, ToSet
<1> QED BY <1>1, ListedOne

(* One proxy with `direct' and `block' *)
LEMMA PlainListed ==
  LET outs == <<Server(<<"proxy", "">>), Direct, Block>>
  IN Listed(outs, PlainTags) /\ Placed(outs, 1, Server(<<"proxy", "">>))
<1> DEFINE proxy == Server(<<"proxy", "">>)
           outs == <<proxy, Direct, Block>>
<1>1. proxy.tag # Direct.tag /\ proxy.tag # Block.tag /\ Direct.tag # Block.tag /\ proxy.tag = <<"proxy", "">>
  <2>1. <<"proxy", "">> # <<"direct", "">> /\ <<"proxy", "">> # <<"block", "">>
    OBVIOUS
  <2>2. proxy.tag = <<"proxy", "">>
    BY FixedTags, Zenon
  <2> HIDE DEF proxy
  <2> QED BY <2>1, <2>2, FixedTags, Zenon
<1> HIDE DEF proxy
<1>2. TagsOf(outs) = {proxy.tag, Direct.tag, Block.tag}
  BY DEF TagsOf
<1>3. outs \in Seq(ToSet(outs)) /\ outs[1] = proxy /\ outs[2] = Direct /\ outs[3] = Block /\ Len(outs) = 3
  BY DEF ToSet
<1>4. \A i, j \in 1..3 : outs[i].tag = outs[j].tag => i = j
  <2> HIDE DEF outs
  <2>1. \A i \in 1..3 : i = 1 \/ i = 2 \/ i = 3
    OBVIOUS
  <2> QED BY <1>1, <1>3, <2>1
<1> HIDE DEF outs
<1>5. TagsOf(outs) = PlainTags
  BY <1>1, <1>2, Zenon DEF PlainTags
<1>6. Listed(outs, PlainTags)
  BY <1>3, <1>4, <1>5 DEF Listed
<1>7. Placed(outs, 1, proxy)
  BY <1>3 DEF Placed
<1> QED BY <1>6, <1>7 DEF proxy, outs

(* Several proxies, or nodes, with `direct' and `block' *)
LEMMA ProxiesListed ==
  ASSUME NEW place \in {"proxy", "node"}, NEW n \in Nat, n >= 1, NEW kinds, DOMAIN kinds = 1..n,
         \A i, j \in 1..n : kinds[i] = kinds[j] => i = j
  PROVE  LET outs == Servers(place, kinds) \o <<Direct, Block>>
         IN /\ Listed(outs, TagsAt(place, ToSet(kinds)) \cup {Direct.tag, Block.tag})
            /\ Placed(outs, 1, Server(<<place, kinds[1]>>))
<1>1. /\ Listed(Servers(place, kinds), TagsAt(place, ToSet(kinds)))
      /\ Placed(Servers(place, kinds), 1, Server(<<place, kinds[1]>>))
  BY ListedServers DEF Placed
<1>2. TagsAt(place, ToSet(kinds)) \cap {Direct.tag, Block.tag} = {}
  <2>1. ASSUME NEW k PROVE <<place, k>> # <<"direct", "">> /\ <<place, k>> # <<"block", "">>
    <3>1. <<place, k>>[1] = place /\ <<"direct", "">>[1] = "direct" /\ <<"block", "">>[1] = "block"
      OBVIOUS
    <3>2. place # "direct" /\ place # "block"
      OBVIOUS
    <3> QED BY <3>1, <3>2, Zenon
  <2>2. ASSUME NEW t \in TagsAt(place, ToSet(kinds)) PROVE t \notin {Direct.tag, Block.tag}
    <3>1. PICK k : t = <<place, k>>
      BY DEF TagsAt
    <3> QED BY <2>1, <3>1, FixedTags, Zenon
  <2> QED BY <2>2
<1>3. Listed(<<Direct, Block>>, {Direct.tag, Block.tag})
  BY EndsListed
<1> QED BY <1>1, <1>2, <1>3, ListedTwo, PlacedStays

(* What is only there with a German host *)
LEMMA GermanListed ==
  ASSUME NEW s, NEW T, Listed(s, T) PROVE Listed(German(s), IF german THEN T ELSE {})
BY ListedNone DEF German

SmartTags ==
  {Selector} \cup {UrlTest} \cup (TagsAt("nl", ToSet(Protocols)) \cup TagsAt("fi", ToSet(Protocols)))
    \cup ({<<"nl", "ws443">>} \cup {<<"fi", "ws443">>} \cup
          {<<"nl", "openflux-socks">>, <<"pl", "openflux-socks">>, <<"fi", "openflux-socks">>})
    \cup (IF german THEN TagsAt("de", ToSet(Protocols) \cup {"ws443"}) ELSE {})
    \cup {Direct.tag}

SmartOuts == <<Group(Selector), Group(UrlTest)>> \o SmartNodes \o SmartFallbacks
               \o SmartGermans \o <<Direct>>

(* The servers of one node, one for each protocol *)
LEMMA NodeListed ==
  ASSUME NEW place
  PROVE  /\ Listed(Servers(place, Protocols), TagsAt(place, ToSet(Protocols)))
         /\ Placed(Servers(place, Protocols), 1, Server(<<place, "classic-tcp">>))
<1>1. /\ DOMAIN Protocols = 1..4 /\ \A i, j \in 1..4 : Protocols[i] = Protocols[j] => i = j
      /\ Protocols[1] = "classic-tcp" /\ 4 \in Nat
  BY KindsOf
<1>2. /\ Listed(Servers(place, Protocols), TagsAt(place, ToSet(Protocols)))
      /\ Len(Servers(place, Protocols)) = 4
      /\ \A i \in 1..4 : Servers(place, Protocols)[i] = Server(<<place, Protocols[i]>>)
  <2>0. PICK n \in Nat : n = 4
    OBVIOUS
  <2>1. PICK kinds : kinds = Protocols /\ n = 4
    BY <2>0
  <2>2. DOMAIN kinds = 1..n /\ \A i, j \in 1..n : kinds[i] = kinds[j] => i = j
    BY <1>1, <2>1
  <2>3. /\ Listed(Servers(place, kinds), TagsAt(place, ToSet(kinds)))
        /\ Len(Servers(place, kinds)) = n
        /\ \A i \in 1..n : Servers(place, kinds)[i] = Server(<<place, kinds[i]>>)
    BY <2>2, ListedServers
  <2> QED BY <2>1, <2>3
<1>3. 1 \in 1..4
  OBVIOUS
<1> QED BY <1>1, <1>2, <1>3, Zenon DEF Placed

(* The servers of the two nodes in sing-box and Clash *)
LEMMA NodesListed ==
  /\ Listed(SmartNodes, TagsAt("nl", ToSet(Protocols)) \cup TagsAt("fi", ToSet(Protocols)))
  /\ Placed(SmartNodes, 1, Server(<<"nl", "classic-tcp">>))
<1>1. /\ Listed(Servers("nl", Protocols), TagsAt("nl", ToSet(Protocols)))
      /\ Listed(Servers("fi", Protocols), TagsAt("fi", ToSet(Protocols)))
      /\ Placed(Servers("nl", Protocols), 1, Server(<<"nl", "classic-tcp">>))
  BY NodeListed
<1>2. TagsAt("nl", ToSet(Protocols)) \cap TagsAt("fi", ToSet(Protocols)) = {}
  BY TagsApart
<1> QED BY <1>1, <1>2, ListedTwo, PlacedStays DEF SmartNodes

(* The fallbacks of sing-box: two over websockets, three over OpenFlux *)
LEMMA FallbacksListed ==
  Listed(SmartFallbacks, {<<"nl", "ws443">>} \cup {<<"fi", "ws443">>} \cup
          {<<"nl", "openflux-socks">>, <<"pl", "openflux-socks">>, <<"fi", "openflux-socks">>})
<1> DEFINE a == <<"nl", "ws443">>
           b == <<"fi", "ws443">>
           f == [i \in 1..3 |-> Server(<< <<"nl", "pl", "fi">>[i], "openflux-socks">>)]
           o == <<"nl", "openflux-socks">>
           p == <<"pl", "openflux-socks">>
           q == <<"fi", "openflux-socks">>
<1>1. Listed(<<Server(a), Server(b)>>, {a} \cup {b})
  <2>1. a # b
    OBVIOUS
  <2> HIDE DEF a, b
  <2>2. Server(a).tag = a /\ Server(b).tag = b
    BY FixedTags
  <2> QED BY <2>1, <2>2 DEF Listed, TagsOf, ToSet
<1>2. f[1] = Server(o) /\ f[2] = Server(p) /\ f[3] = Server(q) /\ DOMAIN f = 1..3 /\ f = [i \in 1..3 |-> f[i]]
  OBVIOUS
<1>3. o # p /\ o # q /\ p # q /\ {a, b} \cap {o, p, q} = {}
  OBVIOUS
<1> HIDE DEF a, b, o, p, q, f
<1>4. Server(o).tag = o /\ Server(p).tag = p /\ Server(q).tag = q
  BY FixedTags
<1>5. Listed(f, {o, p, q})
  <2>1. Len(f) = 3
    BY <1>2
  <2>2. \A i \in 1..3 : i = 1 \/ i = 2 \/ i = 3
    OBVIOUS
  <2>3. f \in Seq(ToSet(f))
    <3>1. \A i \in 1..3 : f[i] \in ToSet(f)
      BY <1>2 DEF ToSet
    <3> QED BY <1>2, <3>1
  <2>4. TagsOf(f) = {o, p, q}
    <3>1. TagsOf(f) = {f[i].tag : i \in 1..3}
      BY <1>2 DEF TagsOf
    <3> QED BY <1>2, <1>4, <2>2, <3>1
  <2>5. \A i, j \in 1..3 : f[i].tag = f[j].tag => i = j
    BY <1>2, <1>3, <1>4, <2>2
  <2> QED BY <2>1, <2>3, <2>4, <2>5 DEF Listed
<1>6. Listed(<<Server(a), Server(b)>> \o f, {a} \cup {b} \cup {o, p, q})
  BY <1>1, <1>3, <1>5, ListedTwo
<1> QED BY <1>6 DEF SmartFallbacks, a, b, f, o, p, q

(* The German servers of sing-box and Clash, if there are any *)
LEMMA GermansListed ==
  /\ Listed(SmartGermans, IF german THEN TagsAt("de", ToSet(Protocols) \cup {"ws443"}) ELSE {})
  /\ Listed(ClashGermans, IF german THEN TagsAt("de", ToSet(Protocols)) ELSE {})
<1> DEFINE kinds == Protocols \o <<"ws443">>
<1>1. "ws443" \notin ToSet(Protocols)
  BY KindsOf
<1>2. /\ DOMAIN kinds = 1..5 /\ \A i, j \in 1..5 : kinds[i] = kinds[j] => i = j
      /\ ToSet(kinds) = ToSet(Protocols) \cup {"ws443"}
  BY <1>1, KindsWith
<1> HIDE DEF kinds
<1>3. Listed(Servers("de", kinds), TagsAt("de", ToSet(Protocols) \cup {"ws443"}))
  <2>1. 5 \in Nat /\ DOMAIN kinds = 1..5 /\ \A i, j \in 1..5 : kinds[i] = kinds[j] => i = j
    BY <1>2
  <2>2. Listed(Servers("de", kinds), TagsAt("de", ToSet(kinds)))
    BY <2>1, ListedServers
  <2> QED BY <1>2, <2>2
<1>4. Listed(Servers("de", Protocols), TagsAt("de", ToSet(Protocols)))
  BY KindsOf, ListedServers
<1> QED BY <1>3, <1>4, GermanListed DEF SmartGermans, ClashGermans, kinds

(* The outbounds of sing-box before they are renamed: a selector in front, a server third *)
LEMMA SmartListed ==
  /\ Listed(SmartOuts, SmartTags)
  /\ Placed(SmartOuts, 3, Server(<<"nl", "classic-tcp">>)) /\ Placed(SmartOuts, 1, Group(Selector))
<1> DEFINE T1 == {Selector} \cup {UrlTest}
           T2 == TagsAt("nl", ToSet(Protocols)) \cup TagsAt("fi", ToSet(Protocols))
           T3 == {<<"nl", "ws443">>} \cup {<<"fi", "ws443">>} \cup
                   {<<"nl", "openflux-socks">>, <<"pl", "openflux-socks">>, <<"fi", "openflux-socks">>}
           T4 == IF german THEN TagsAt("de", ToSet(Protocols) \cup {"ws443"}) ELSE {}
           T5 == {Direct.tag}
           groups == <<Group(Selector), Group(UrlTest)>>
           nodes == groups \o SmartNodes
           node == Server(<<"nl", "classic-tcp">>)
<1>1. Listed(groups, T1) /\ Len(groups) = 2 /\ Placed(groups, 1, Group(Selector))
  <2>1. Selector # UrlTest
    BY DEF Selector, UrlTest
  <2>2. Group(Selector).tag = Selector /\ Group(UrlTest).tag = UrlTest
    BY DEF Group
  <2> QED BY <2>1, <2>2 DEF Listed, TagsOf, ToSet, Placed
<1>2. Listed(SmartNodes, T2) /\ Placed(SmartNodes, 1, node)
  BY NodesListed
<1>3. Listed(SmartFallbacks, T3) /\ Listed(SmartGermans, T4) /\ Listed(<<Direct>>, T5)
  BY FallbacksListed, GermansListed, EndsListed
<1>4. /\ \A t \in T1 : t[1] \in {"proxy", "auto"}
      /\ \A t \in T2 : t[1] \in {"nl", "fi"} /\ t[2] \in ToSet(Protocols)
      /\ \A t \in T3 : t[1] \in {"nl", "fi", "pl"} /\ t[2] \in {"ws443", "openflux-socks"}
      /\ \A t \in T4 : t[1] = "de"
      /\ \A t \in T5 : t[1] = "direct"
  <2>1. ASSUME NEW t \in T1 PROVE t[1] \in {"proxy", "auto"}
    <3>1. t = <<"proxy", "selector">> \/ t = <<"auto", "urltest">>
      BY DEF Selector, UrlTest
    <3>2. t[1] = "proxy" \/ t[1] = "auto"
      <4>1. CASE t = <<"proxy", "selector">>
        BY <4>1
      <4>2. CASE t = <<"auto", "urltest">>
        BY <4>2
      <4> QED BY <3>1, <4>1, <4>2
    <3> QED BY <3>2
  <2>2. ASSUME NEW t \in T2 PROVE t[1] \in {"nl", "fi"} /\ t[2] \in ToSet(Protocols)
    BY TagParts
  <2>3. ASSUME NEW t \in T3 PROVE t[1] \in {"nl", "fi", "pl"} /\ t[2] \in {"ws443", "openflux-socks"}
    <3>1. PICK a \in {"nl", "fi", "pl"}, b \in {"ws443", "openflux-socks"} : t = <<a, b>>
      OBVIOUS
    <3>2. t[1] = a /\ t[2] = b
      BY <3>1, PairParts, Zenon
    <3> QED BY <3>2
  <2>4. ASSUME NEW t \in T4 PROVE t[1] = "de"
    <3>1. t \in TagsAt("de", ToSet(Protocols) \cup {"ws443"})
      OBVIOUS
    <3> QED BY <3>1, TagParts, Zenon
  <2>5. ASSUME NEW t \in T5 PROVE t[1] = "direct"
    <3>1. t = <<"direct", "">>
      BY FixedTags
    <3> QED BY <3>1, PairParts, Zenon
  <2> HIDE DEF T1, T2, T3, T4, T5
  <2> QED BY <2>1, <2>2, <2>3, <2>4, <2>5
<1>5. "ws443" \notin ToSet(Protocols) /\ "openflux-socks" \notin ToSet(Protocols)
  BY KindsOf
<1>6. /\ T1 \cap T2 = {} /\ (T1 \cup T2) \cap T3 = {} /\ (T1 \cup T2 \cup T3) \cap T4 = {}
      /\ (T1 \cup T2 \cup T3 \cup T4) \cap T5 = {}
  <2> HIDE DEF T1, T2, T3, T4, T5
  <2> QED BY <1>4, <1>5
<1> HIDE DEF T1, T2, T3, T4, T5
<1>7. Listed(nodes, T1 \cup T2) /\ Joint(groups, SmartNodes)
  <2> HIDE DEF groups
  <2> QED BY <1>1, <1>2, <1>6, ListedTwo
<1>8. Placed(nodes, 3, node) /\ Placed(nodes, 1, Group(Selector))
  <2>1. Placed(nodes, 1, Group(Selector))
    <3> HIDE DEF groups
    <3> QED BY <1>1, <1>7, PlacedStays
  <2> HIDE DEF groups, nodes, node
  <2>2. /\ Len(nodes) = 2 + Len(SmartNodes) /\ Len(SmartNodes) \in Nat
        /\ \A i \in 1..Len(SmartNodes) : nodes[2 + i] = SmartNodes[i]
    BY <1>1, <1>7 DEF Joint, nodes
  <2>3. 1 \in 1..Len(SmartNodes) /\ SmartNodes[1] = node
    BY <1>2 DEF Placed
  <2>4. 3 \in 1..Len(nodes) /\ nodes[2 + 1] = node
    BY <2>2, <2>3
  <2> QED BY <2>1, <2>4 DEF Placed
<1> HIDE DEF nodes, node
<1>9. /\ Listed(nodes \o SmartFallbacks, T1 \cup T2 \cup T3) /\ Joint(nodes, SmartFallbacks)
  BY <1>3, <1>6, <1>7, ListedTwo
<1>10. Placed(nodes \o SmartFallbacks, 3, node) /\ Placed(nodes \o SmartFallbacks, 1, Group(Selector))
  BY <1>8, <1>9, PlacedStays
<1>11. /\ Listed(nodes \o SmartFallbacks \o SmartGermans, T1 \cup T2 \cup T3 \cup T4)
       /\ Joint(nodes \o SmartFallbacks, SmartGermans)
  BY <1>3, <1>6, <1>9, ListedTwo
<1>12. /\ Placed(nodes \o SmartFallbacks \o SmartGermans, 3, node)
       /\ Placed(nodes \o SmartFallbacks \o SmartGermans, 1, Group(Selector))
  BY <1>10, <1>11, PlacedStays
<1>13. /\ Listed(nodes \o SmartFallbacks \o SmartGermans \o <<Direct>>, T1 \cup T2 \cup T3 \cup T4 \cup T5)
       /\ Joint(nodes \o SmartFallbacks \o SmartGermans, <<Direct>>)
  BY <1>3, <1>6, <1>11, ListedTwo
<1>14. /\ Placed(nodes \o SmartFallbacks \o SmartGermans \o <<Direct>>, 3, node)
       /\ Placed(nodes \o SmartFallbacks \o SmartGermans \o <<Direct>>, 1, Group(Selector))
  BY <1>12, <1>13, PlacedStays
<1> QED BY <1>13, <1>14 DEF SmartOuts, SmartTags, nodes, groups, node, T1, T2, T3, T4, T5

(* Clash: proxies, sockets, groups and `direct'. *)
ClashServers == ClashProxies \o ClashGermans \o Servers("socks", <<"nl", "de">>)
ClashServerTags ==
  (TagsAt("nl", ToSet(Protocols)) \cup TagsAt("fi", ToSet(Protocols)))
    \cup (IF german THEN TagsAt("de", ToSet(Protocols)) ELSE {}) \cup TagsAt("socks", {"nl", "de"})

(* Its lists are without a tag twice, and a server is in front. *)
LEMMA ClashListed ==
  /\ Listed(ClashServers, ClashServerTags)
  /\ Listed(ClashGroups, TagsOf(ClashGroups))
  /\ Listed(ClashServers \o ClashGroups \o <<Direct>>,
            ClashServerTags \cup TagsOf(ClashGroups) \cup {Direct.tag})
  /\ Placed(ClashServers \o ClashGroups \o <<Direct>>, 1, Server(<<"nl", "classic-tcp">>))
<1> DEFINE T1 == TagsAt("nl", ToSet(Protocols)) \cup TagsAt("fi", ToSet(Protocols))
           T2 == IF german THEN TagsAt("de", ToSet(Protocols)) ELSE {}
           T3 == TagsAt("socks", {"nl", "de"})
           T4 == TagsOf(ClashGroups)
           node == Server(<<"nl", "classic-tcp">>)
<1>1. Listed(ClashProxies, T1) /\ Placed(ClashProxies, 1, node)
  BY NodesListed DEF SmartNodes, ClashProxies
<1>2. Listed(ClashGermans, T2) /\ Listed(<<Direct>>, {Direct.tag})
  BY GermansListed, EndsListed
<1>3. Listed(Servers("socks", <<"nl", "de">>), T3)
  <2>1. PICK kinds : kinds = <<"nl", "de">>
    OBVIOUS
  <2>2. DOMAIN kinds = 1..2 /\ kinds[1] = "nl" /\ kinds[2] = "de" /\ 2 \in Nat
    BY <2>1
  <2>3. \A i \in 1..2 : i = 1 \/ i = 2
    OBVIOUS
  <2>4. \A i, j \in 1..2 : kinds[i] = kinds[j] => i = j
    BY <2>2, <2>3
  <2>5. ToSet(kinds) = {"nl", "de"}
    <3>1. ToSet(kinds) = {kinds[i] : i \in 1..2}
      BY <2>2 DEF ToSet
    <3> QED BY <2>2, <2>3, <3>1
  <2>6. Listed(Servers("socks", kinds), TagsAt("socks", ToSet(kinds)))
    BY <2>2, <2>4, ListedServers
  <2> QED BY <2>1, <2>5, <2>6
<1>4. Listed(ClashGroups, T4) /\ T4 = {<<"clash", "PROXY">>, <<"clash", "auto">>, <<"clash", "fallback">>}
  <2>1. PICK a, b, c : a = <<"clash", "PROXY">> /\ b = <<"clash", "auto">> /\ c = <<"clash", "fallback">>
    OBVIOUS
  <2>2. a # b /\ a # c /\ b # c
    BY <2>1
  <2>3. ClashGroups = <<Group(a), Group(b), Group(c)>>
    BY <2>1 DEF ClashGroups
  <2>4. Group(a).tag = a /\ Group(b).tag = b /\ Group(c).tag = c
    BY FixedTags
  <2>5. /\ Len(ClashGroups) = 3 /\ DOMAIN ClashGroups = 1..3 /\ ClashGroups \in Seq(ToSet(ClashGroups))
        /\ ClashGroups[1].tag = a /\ ClashGroups[2].tag = b /\ ClashGroups[3].tag = c
    BY <2>3, <2>4 DEF ToSet
  <2>6. \A i \in 1..3 : i = 1 \/ i = 2 \/ i = 3
    OBVIOUS
  <2>7. T4 = {a, b, c}
    <3>1. T4 = {ClashGroups[i].tag : i \in 1..3}
      BY <2>5 DEF TagsOf
    <3> HIDE DEF T4
    <3> QED BY <2>5, <2>6, <3>1
  <2>8. \A i, j \in 1..3 : ClashGroups[i].tag = ClashGroups[j].tag => i = j
    BY <2>2, <2>5, <2>6
  <2> QED BY <2>1, <2>5, <2>7, <2>8 DEF Listed
<1>5. /\ \A t \in T1 : t[1] \in {"nl", "fi"}
      /\ \A t \in T2 : t[1] = "de"
      /\ \A t \in T3 : t[1] = "socks"
      /\ \A t \in T4 : t[1] = "clash"
      /\ Direct.tag[1] = "direct"
  <2>1. ASSUME NEW t \in T1 PROVE t[1] \in {"nl", "fi"}
    BY TagParts
  <2>2. ASSUME NEW t \in T2 PROVE t[1] = "de"
    <3>1. t \in TagsAt("de", ToSet(Protocols))
      OBVIOUS
    <3> QED BY <3>1, TagParts, Zenon
  <2>3. ASSUME NEW t \in T3 PROVE t[1] = "socks"
    <3>1. t \in TagsAt("socks", {"nl", "de"})
      OBVIOUS
    <3> QED BY <3>1, TagParts, Zenon
  <2>4. ASSUME NEW t \in T4 PROVE t[1] = "clash"
    <3>1. PICK k : t = <<"clash", k>>
      BY <1>4
    <3> QED BY <3>1, PairParts, Zenon
  <2>5. Direct.tag[1] = "direct"
    <3>1. PICK t : t = Direct.tag
      OBVIOUS
    <3>2. t = <<"direct", "">>
      BY <3>1, FixedTags
    <3>3. t[1] = "direct"
      BY <3>2
    <3> QED BY <3>1, <3>3
  <2> HIDE DEF T1, T2, T3, T4
  <2> QED BY <2>1, <2>2, <2>3, <2>4, <2>5
<1>6. /\ T1 \cap T2 = {} /\ (T1 \cup T2) \cap T3 = {} /\ (T1 \cup T2 \cup T3) \cap T4 = {}
      /\ (T1 \cup T2 \cup T3 \cup T4) \cap {Direct.tag} = {}
  <2> HIDE DEF T1, T2, T3, T4
  <2> QED BY <1>5
<1> HIDE DEF T1, T2, T3, T4, node
<1>7. Listed(ClashProxies \o ClashGermans, T1 \cup T2) /\ Placed(ClashProxies \o ClashGermans, 1, node)
  BY <1>1, <1>2, <1>6, ListedTwo, PlacedStays
<1>8. Listed(ClashServers, T1 \cup T2 \cup T3) /\ Placed(ClashServers, 1, node)
  BY <1>3, <1>6, <1>7, ListedTwo, PlacedStays DEF ClashServers
<1>9. /\ Listed(ClashServers \o ClashGroups, T1 \cup T2 \cup T3 \cup T4)
      /\ Placed(ClashServers \o ClashGroups, 1, node)
  BY <1>4, <1>6, <1>8, ListedTwo, PlacedStays
<1>10. /\ Listed(ClashServers \o ClashGroups \o <<Direct>>, T1 \cup T2 \cup T3 \cup T4 \cup {Direct.tag})
       /\ Placed(ClashServers \o ClashGroups \o <<Direct>>, 1, node)
  BY <1>2, <1>6, <1>9, ListedTwo, PlacedStays
<1> QED BY <1>4, <1>8, <1>10 DEF ClashServerTags, T1, T2, T3, T4, node

(* A server among the outbounds, and something else than a black hole in front, serve. *)
LEMMA ServerServes ==
  ASSUME NEW S, NEW outs \in Seq(S), NEW routing, NEW i \in 1..Len(outs), IsServer(outs[i]),
         outs[1].kind # "blackhole"
  PROVE  Usable(Config(outs, routing))
<1>1. i \in ServersIn(Config(outs, routing))
  BY DEF ServersIn, Config
<1> QED BY <1>1 DEF Usable, Config

(* A list with a server in front serves. *)
LEMMA NodeServes ==
  ASSUME NEW outs, NEW T, Listed(outs, T), NEW tag, Placed(outs, 1, Server(tag)), NEW routing
  PROVE  Usable(Config(outs, routing))
<1>1. outs \in Seq(ToSet(outs)) /\ 1 \in 1..Len(outs) /\ outs[1] = Server(tag)
  BY DEF Listed, Placed
<1>2. IsServer(outs[1]) /\ outs[1].kind # "blackhole"
  BY <1>1 DEF IsServer, Server
<1> QED BY <1>1, <1>2, ServerServes

(* The black hole alone, the empty lists of an expired subscription *)
LEMMA NothingServed ==
  ASSUME NEW S, NEW outs \in Seq(S), NEW names, \A i \in 1..Len(outs) : ~IsServer(outs[i])
  PROVE  ~Usable(Config(outs, PlainRouting(names)))
BY DEF Usable, ServersIn, Config, PlainRouting

(* The black hole of an expired subscription serves nobody. *)
LEMMA DummyServes == ~Usable(ExpiredDummy)
<1> DEFINE hole == [tag |-> <<"proxy", "">>, kind |-> "blackhole"]
<1>1. ~IsServer(hole)
  BY DEF IsServer
<1> HIDE DEF hole
<1>2. <<hole>> \in Seq({hole}) /\ \A i \in 1..Len(<<hole>>) : ~IsServer(<<hole>>[i])
  BY <1>1
<1> QED BY <1>2, NothingServed DEF ExpiredDummy, hole

(* An answer of one configuration *)
LEMMA OneServes ==
  ASSUME NEW config, Usable(config) <=> Active PROVE Serves(<<config>>)
<1>1. PICK configs : configs = <<config>>
  OBVIOUS
<1>2. DOMAIN configs = {1} /\ configs[1] = config
  BY <1>1
<1>3. (\E i \in DOMAIN configs : Usable(configs[i])) <=> Active
  BY <1>2
<1> QED BY <1>1, <1>3 DEF Serves

(* An answer whose first configuration serves *)
LEMMA FirstServes ==
  ASSUME NEW configs, 1 \in DOMAIN configs, Usable(configs[1]), Active PROVE Serves(configs)
BY DEF Serves

(* The answer to an expired subscription, with extras *)
LEMMA ExpiredServes ==
  ASSUME ConfigTypes, ~Active PROVE Serves(Extended(<<ExpiredDummy>>))
<1>1. PICK configs : configs = Extended(<<ExpiredDummy>>)
  OBVIOUS
<1>4. DOMAIN configs = {1} /\ configs[1] = WithExtras(ExpiredDummy)
  BY <1>1 DEF Extended
<1>2. Len(extras) \in Nat
  BY DEF ConfigTypes
<1>3. Len(extras) <= 1 => ~Usable(WithExtras(ExpiredDummy))
  BY DummyServesNobody
<1>5. Len(extras) <= 1 => ~(\E i \in DOMAIN configs : Usable(configs[i]))
  BY <1>3, <1>4
<1>6. Serves(configs)
  BY <1>2, <1>5 DEF Serves
<1> QED BY <1>1, <1>6

(* The profiles of the subscription begin with the balancer over the nodes. *)
LEMMA BalancerFirst ==
  ASSUME Active, NEW mode
  PROVE  1 \in DOMAIN FourProfiles(mode) /\ FourProfiles(mode)[1] = AutoBalancer(mode)
<1> DEFINE S == {AutoBalancer(mode), Portable(mode)}
           first == <<AutoBalancer(mode)>>
<1>1. NlProfiles(mode) \in Seq(S) /\ FiProfiles(mode) \in Seq(S) /\ DeProfiles(mode) \in Seq(S)
  <2>1. [i \in 1..4 |-> Portable(mode)] \in Seq(S)
    OBVIOUS
  <2>2. <<>> \in Seq(S)
    OBVIOUS
  <2> QED BY <2>1, <2>2 DEF NlProfiles, FiProfiles, DeProfiles, German
<1>2. first \in Seq(S) /\ Len(first) = 1 /\ first[1] = AutoBalancer(mode) /\ Placed(first, 1, AutoBalancer(mode))
  BY DEF Placed
<1> HIDE DEF S, first
<1>3. /\ first \o NlProfiles(mode) \in Seq(S)
      /\ Placed(first \o NlProfiles(mode), 1, AutoBalancer(mode))
  BY <1>1, <1>2, Joined, PlacedStays
<1>4. /\ first \o NlProfiles(mode) \o FiProfiles(mode) \in Seq(S)
      /\ Placed(first \o NlProfiles(mode) \o FiProfiles(mode), 1, AutoBalancer(mode))
  BY <1>1, <1>3, Joined, PlacedStays
<1>5. /\ first \o NlProfiles(mode) \o FiProfiles(mode) \o DeProfiles(mode) \in Seq(S)
      /\ Placed(first \o NlProfiles(mode) \o FiProfiles(mode) \o DeProfiles(mode), 1, AutoBalancer(mode))
  BY <1>1, <1>4, Joined, PlacedStays
<1>6. FourProfiles(mode) = first \o NlProfiles(mode) \o FiProfiles(mode) \o DeProfiles(mode)
  BY DEF FourProfiles, first
<1> QED BY <1>5, <1>6 DEF Placed

NodeKinds == <<"nl-classic", "nl-fast", "nl-grpc", "fi-classic", "fi-fast", "fi-grpc">>

(* The nodes that the first profile balances over *)
LEMMA SixNodes ==
  /\ DOMAIN NodeKinds = 1..6 /\ \A i, j \in 1..6 : NodeKinds[i] = NodeKinds[j] => i = j
  /\ NodeKinds[1] = "nl-classic"
<1>1. /\ NodeKinds[1] = "nl-classic" /\ NodeKinds[2] = "nl-fast" /\ NodeKinds[3] = "nl-grpc"
      /\ NodeKinds[4] = "fi-classic" /\ NodeKinds[5] = "fi-fast" /\ NodeKinds[6] = "fi-grpc"
      /\ DOMAIN NodeKinds = 1..6
  BY DEF NodeKinds
<1>2. \A i \in 1..6 : i = 1 \/ i = 2 \/ i = 3 \/ i = 4 \/ i = 5 \/ i = 6
  OBVIOUS
<1> QED BY <1>1, <1>2

NodeOuts == Servers("node", NodeKinds) \o <<Direct, Block>>

(* Its outbounds have different tags, and the one it falls back to is in front. *)
LEMMA NodeOutsListed ==
  /\ Listed(NodeOuts, TagsAt("node", ToSet(NodeKinds)) \cup {Direct.tag, Block.tag})
  /\ Placed(NodeOuts, 1, Server(<<"node", "nl-classic">>))
<1>1. PICK place, n, kinds : place = "node" /\ n = 6 /\ kinds = NodeKinds
  OBVIOUS
<1>2. /\ place \in {"proxy", "node"} /\ n \in Nat /\ n >= 1 /\ DOMAIN kinds = 1..n
      /\ \A i, j \in 1..n : kinds[i] = kinds[j] => i = j
  BY <1>1, SixNodes
<1>3. PICK outs : outs = Servers(place, kinds) \o <<Direct, Block>>
  OBVIOUS
<1>4. /\ Listed(outs, TagsAt(place, ToSet(kinds)) \cup {Direct.tag, Block.tag})
      /\ Placed(outs, 1, Server(<<place, kinds[1]>>))
  BY <1>2, <1>3, ProxiesListed
<1> QED BY <1>1, <1>3, <1>4, SixNodes DEF NodeOuts

(* It serves, with extra outbounds and without. *)
LEMMA BalancerServes ==
  ASSUME ConfigTypes, NEW mode
  PROVE  Usable(AutoBalancer(mode)) /\ Usable(WithExtras(AutoBalancer(mode)))
<1> DEFINE routing == BalancedRouting(mode, <<"node", TRUE>>, <<"node", "nl-classic">>)
<1>1. AutoBalancer(mode) = Config(NodeOuts, routing) /\ routing.balanced
  BY DEF AutoBalancer, NodeOuts, NodeKinds, BalancedRouting
<1>2. NodeOuts \in Seq(ToSet(NodeOuts))
  BY NodeOutsListed DEF Listed
<1> HIDE DEF routing
<1>3. Usable(WithExtras(Config(NodeOuts, routing)))
  BY <1>1, <1>2, StaysUsable
<1>4. Usable(Config(NodeOuts, routing))
  BY <1>1 DEF Usable, Config
<1> QED BY <1>1, <1>3, <1>4

(* So do the four profiles, exactly as long as the subscription is active. *)
LEMMA ProfilesServe ==
  ASSUME ConfigTypes, NEW mode
  PROVE  Serves(FourProfiles(mode)) /\ Serves(Extended(FourProfiles(mode)))
<1>1. CASE Active
  <2>1. 1 \in DOMAIN FourProfiles(mode) /\ FourProfiles(mode)[1] = AutoBalancer(mode)
    BY <1>1, BalancerFirst
  <2>2. /\ 1 \in DOMAIN Extended(FourProfiles(mode))
        /\ Extended(FourProfiles(mode))[1] = WithExtras(AutoBalancer(mode))
    BY <2>1 DEF Extended
  <2> QED BY <1>1, <2>1, <2>2, BalancerServes, FirstServes
<1>2. CASE ~Active
  <2>1. FourProfiles(mode) = <<ExpiredDummy>>
    BY <1>2 DEF FourProfiles
  <2>2. Serves(<<ExpiredDummy>>)
    BY <1>2, DummyServes, OneServes
  <2> QED BY <1>2, <2>1, <2>2, ExpiredServes
<1> QED BY <1>1, <1>2

(* The static profiles of the XHTTP tests serve. *)
LEMMA StaticServes ==
  ASSUME ConfigTypes
  PROVE  Usable(NlXhttp) /\ Usable(WithExtras(NlXhttp))
<1> DEFINE outs == <<Server(<<"proxy", "">>), Direct, Block>>
           routing == PlainRouting({Direct.tag, Block.tag})
<1>1. Listed(outs, PlainTags) /\ Placed(outs, 1, Server(<<"proxy", "">>))
  BY PlainListed
<1>2. NlXhttp = Config(outs, routing)
  BY DEF NlXhttp
<1> HIDE DEF outs, routing
<1>3. Usable(Config(outs, routing))
  BY <1>1, NodeServes
<1>4. outs \in Seq(ToSet(outs)) /\ outs # <<>> /\ IsServer(outs[1]) /\ ~IsEnd(outs[1])
  <2>1. outs \in Seq(ToSet(outs)) /\ 1 \in 1..Len(outs) /\ outs[1] = Server(<<"proxy", "">>)
    BY <1>1 DEF Listed, Placed
  <2>2. PICK t : t = <<"proxy", "">>
    OBVIOUS
  <2>3. t[1] = "proxy"
    BY <2>2
  <2>4. t[1] \notin {"direct", "block"}
    BY <2>3
  <2>5. outs[1].tag = t /\ IsServer(outs[1])
    BY <2>1, <2>2, FixedTags
  <2>6. ~IsEnd(outs[1])
    BY <2>4, <2>5, NoEnd, Zenon
  <2>7. outs # <<>>
    BY <2>1, NotEmpty, Zenon
  <2> QED BY <2>1, <2>5, <2>6, <2>7
<1>5. Usable(WithExtras(Config(outs, routing)))
  BY <1>4, StaysUsable
<1> QED BY <1>2, <1>3, <1>5

(* The answers of the test routes that look at the subscription *)
LEMMA TestsServe ==
  ASSUME ConfigTypes
  PROVE  Serves(Extended(XhttpTests)) /\ Serves(CaddyTest)
<1>1. CASE Active
  <2>1. 1 \in DOMAIN XhttpTests /\ XhttpTests[1] = NlXhttp
    BY <1>1 DEF XhttpTests
  <2>2. 1 \in DOMAIN Extended(XhttpTests) /\ Extended(XhttpTests)[1] = WithExtras(NlXhttp)
    BY <2>1 DEF Extended
  <2>3. 1 \in DOMAIN CaddyTest /\ CaddyTest[1] = NlXhttp
    BY <1>1 DEF CaddyTest
  <2> QED BY <1>1, <2>2, <2>3, StaticServes, FirstServes
<1>2. CASE ~Active
  <2>1. XhttpTests = <<ExpiredDummy>> /\ CaddyTest = <<ExpiredDummy>>
    BY <1>2 DEF XhttpTests, CaddyTest
  <2> QED BY <1>2, <2>1, ExpiredServes, DummyServes, OneServes
<1> QED BY <1>1, <1>2

(* The readable names leave servers servers. *)
Renamed(outs) == [i \in DOMAIN outs |-> [outs[i] EXCEPT !.tag = HappName(@)]]

(* A renamed outbound stays where it is and what it is. *)
LEMMA NamesKeepPlaces ==
  ASSUME NEW S, NEW outs \in Seq(S), NEW i, NEW t, NEW k, Placed(outs, i, [tag |-> t, kind |-> k])
  PROVE  Placed(Renamed(outs), i, [tag |-> HappName(t), kind |-> k])
<1>1. DOMAIN outs = 1..Len(outs) /\ Len(outs) \in Nat
  OBVIOUS
<1>2. Renamed(outs) = [j \in 1..Len(outs) |-> [outs[j] EXCEPT !.tag = HappName(@)]]
  BY <1>1 DEF Renamed
<1>3. i \in 1..Len(outs) /\ outs[i] = [tag |-> t, kind |-> k]
  BY DEF Placed
<1>4. Renamed(outs)[i] = [outs[i] EXCEPT !.tag = HappName(outs[i].tag)]
  BY <1>2, <1>3
<1>5. \A a, b, c : [[tag |-> a, kind |-> b] EXCEPT !.tag = c] = [tag |-> c, kind |-> b]
  OBVIOUS
<1>6. outs[i].tag = t
  BY <1>3
<1>7. Renamed(outs)[i] = [tag |-> HappName(t), kind |-> k]
  BY <1>3, <1>4, <1>5, <1>6
<1>8. Len(Renamed(outs)) = Len(outs)
  BY <1>1, <1>2
<1> QED BY <1>3, <1>7, <1>8 DEF Placed

(* sing-box serves an active subscription and no other. *)
LEMMA SmartServes == Usable(SingBox) <=> Active
<1>1. CASE Active
  <2> DEFINE names == {HappName(t) : t \in SelectorOffers \cup UrlTestOffers \cup {Direct.tag}} \cup {Selector}
  <2>1. SingBox = Config(Renamed(SmartOuts), PlainRouting(names))
    BY <1>1 DEF SingBox, SmartOuts, Renamed
  <2> HIDE DEF names
  <2>2. SmartOuts \in Seq(ToSet(SmartOuts))
    BY SmartListed DEF Listed
  <2>3. /\ Placed(SmartOuts, 3, [tag |-> <<"nl", "classic-tcp">>, kind |-> "server"])
        /\ Placed(SmartOuts, 1, [tag |-> Selector, kind |-> "group"])
    BY SmartListed DEF Server, Group
  <2>4. PICK node, selector :
           /\ Placed(Renamed(SmartOuts), 3, [tag |-> node, kind |-> "server"])
           /\ Placed(Renamed(SmartOuts), 1, [tag |-> selector, kind |-> "group"])
    <3>1. PICK t : t = <<"nl", "classic-tcp">>
      OBVIOUS
    <3>2. Placed(SmartOuts, 3, [tag |-> t, kind |-> "server"])
      BY <2>3, <3>1
    <3>3. Placed(Renamed(SmartOuts), 3, [tag |-> HappName(t), kind |-> "server"])
      BY <2>2, <3>2, NamesKeepPlaces, Zenon
    <3>4. Placed(Renamed(SmartOuts), 1, [tag |-> HappName(Selector), kind |-> "group"])
      BY <2>2, <2>3, NamesKeepPlaces, Zenon
    <3> QED BY <3>3, <3>4, Zenon
  <2>5. /\ 3 \in DOMAIN Renamed(SmartOuts) /\ IsServer(Renamed(SmartOuts)[3])
        /\ Renamed(SmartOuts)[1].kind # "blackhole"
    <3>1. DOMAIN Renamed(SmartOuts) = 1..Len(SmartOuts) /\ 3 \in 1..Len(SmartOuts)
      BY <2>2, SmartListed DEF Renamed, Placed
    <3>2. Renamed(SmartOuts)[3] = [tag |-> node, kind |-> "server"]
      BY <2>4 DEF Placed
    <3>3. Renamed(SmartOuts)[1] = [tag |-> selector, kind |-> "group"]
      BY <2>4 DEF Placed
    <3>4. IsServer(Renamed(SmartOuts)[3])
      BY <3>2 DEF IsServer
    <3>5. Renamed(SmartOuts)[1].kind # "blackhole"
      BY <3>3
    <3> QED BY <3>1, <3>4, <3>5
  <2>6. 3 \in ServersIn(SingBox) /\ SingBox.outs[1].kind # "blackhole"
    BY <2>1, <2>5 DEF ServersIn, Config
  <2> QED BY <1>1, <2>6 DEF Usable
<1>2. CASE ~Active
  BY <1>2, DummyServes DEF SingBox
<1> QED BY <1>1, <1>2

(* Clash, likewise *)
LEMMA ClashServes == Usable(Clash) <=> Active
<1>1. CASE Active
  <2> DEFINE names == TagsOf(ClashServers) \cup TagsOf(ClashGroups) \cup PriorityFallback \cup {Direct.tag}
             outs == ClashServers \o ClashGroups \o <<Direct>>
             T == ClashServerTags \cup TagsOf(ClashGroups) \cup {Direct.tag}
  <2>1. Clash = Config(outs, PlainRouting(names))
    BY <1>1 DEF Clash, ClashServers
  <2>2. Listed(outs, T) /\ Placed(outs, 1, Server(<<"nl", "classic-tcp">>))
    BY ClashListed
  <2> HIDE DEF names, outs, T
  <2>3. Usable(Config(outs, PlainRouting(names)))
    BY <2>2, NodeServes
  <2> QED BY <1>1, <2>1, <2>3
<1>2. CASE ~Active
  <2> DEFINE group == Group(<<"clash", "PROXY">>)
             outs == <<group, Direct>>
  <2>1. ~IsServer(group) /\ ~IsServer(Direct)
    BY DEF IsServer, Group, Direct
  <2> HIDE DEF group
  <2>2. outs \in Seq({group, Direct}) /\ Len(outs) = 2 /\ outs[1] = group /\ outs[2] = Direct
    OBVIOUS
  <2> HIDE DEF outs
  <2>3. \A i \in 1..2 : i = 1 \/ i = 2
    OBVIOUS
  <2>4. \A i \in 1..Len(outs) : ~IsServer(outs[i])
    BY <2>1, <2>2, <2>3
  <2>5. ~Usable(Config(outs, PlainRouting({Direct.tag})))
    BY <2>2, <2>4, NothingServed
  <2> QED BY <1>2, <2>5 DEF Clash, group, outs
<1> QED BY <1>1, <1>2

(* The links of Streisand *)
LinkKinds == Protocols \o <<"xhttp">>
LinkTags == TagsAt("nl", ToSet(LinkKinds)) \cup TagsAt("fi", ToSet(LinkKinds))
              \cup (IF german THEN TagsAt("de", ToSet(LinkKinds)) ELSE {})
LinkOuts == Servers("nl", LinkKinds) \o Servers("fi", LinkKinds) \o German(Servers("de", LinkKinds))

(* They have different tags, and a server is in front. *)
LEMMA LinksListed ==
  Listed(LinkOuts, LinkTags) /\ Placed(LinkOuts, 1, Server(<<"nl", "classic-tcp">>))
<1> DEFINE K == ToSet(LinkKinds)
           T3 == IF german THEN TagsAt("de", K) ELSE {}
<1>1. "xhttp" \notin ToSet(Protocols)
  BY KindsOf
<1>2. /\ DOMAIN LinkKinds = 1..5 /\ \A i, j \in 1..5 : LinkKinds[i] = LinkKinds[j] => i = j
      /\ LinkKinds[1] = "classic-tcp"
  BY <1>1, KindsWith DEF LinkKinds
<1>3. ASSUME NEW place
      PROVE  /\ Listed(Servers(place, LinkKinds), TagsAt(place, K))
             /\ Placed(Servers(place, LinkKinds), 1, Server(<<place, "classic-tcp">>))
  <2>1. PICK n \in Nat : n = 5
    OBVIOUS
  <2>2. DOMAIN LinkKinds = 1..n /\ (\A i, j \in 1..n : LinkKinds[i] = LinkKinds[j] => i = j) /\ 1 \in 1..n
    BY <1>2, <2>1
  <2>3. /\ Listed(Servers(place, LinkKinds), TagsAt(place, K))
        /\ Len(Servers(place, LinkKinds)) = n
        /\ \A i \in 1..n : Servers(place, LinkKinds)[i] = Server(<<place, LinkKinds[i]>>)
    BY <2>2, ListedServers
  <2>4. Servers(place, LinkKinds)[1] = Server(<<place, "classic-tcp">>)
    BY <1>2, <2>2, <2>3
  <2> QED BY <2>2, <2>3, <2>4, Zenon DEF Placed
<1> HIDE DEF K
<1>4. Listed(German(Servers("de", LinkKinds)), T3)
  BY <1>3, GermanListed
<1>5. TagsAt("nl", K) \cap TagsAt("fi", K) = {} /\ (TagsAt("nl", K) \cup TagsAt("fi", K)) \cap T3 = {}
  <2>1. "nl" # "fi" /\ "nl" # "de" /\ "fi" # "de"
    OBVIOUS
  <2>2. TagsAt("nl", K) \cap TagsAt("fi", K) = {}
    BY <2>1, TagsApart, Zenon
  <2>3. TagsAt("nl", K) \cap TagsAt("de", K) = {} /\ TagsAt("fi", K) \cap TagsAt("de", K) = {}
    BY <2>1, TagsApart, Zenon
  <2> QED BY <2>2, <2>3
<1> HIDE DEF T3
<1>6. /\ Listed(Servers("nl", LinkKinds) \o Servers("fi", LinkKinds), TagsAt("nl", K) \cup TagsAt("fi", K))
      /\ Placed(Servers("nl", LinkKinds) \o Servers("fi", LinkKinds), 1, Server(<<"nl", "classic-tcp">>))
  BY <1>3, <1>5, ListedTwo, PlacedStays
<1>7. /\ Listed(LinkOuts, TagsAt("nl", K) \cup TagsAt("fi", K) \cup T3)
      /\ Placed(LinkOuts, 1, Server(<<"nl", "classic-tcp">>))
  BY <1>4, <1>5, <1>6, ListedTwo, PlacedStays DEF LinkOuts
<1> QED BY <1>7 DEF LinkTags, K, T3

(* Streisand gets links exactly as long as the subscription is active. *)
LEMMA StreisandServes == Usable(Streisand) <=> Active
<1>1. CASE Active
  <2>1. Streisand = Config(LinkOuts, PlainRouting({}))
    BY <1>1 DEF Streisand, LinkOuts, LinkKinds
  <2>2. Usable(Config(LinkOuts, PlainRouting({})))
    BY LinksListed, NodeServes
  <2> QED BY <1>1, <2>1, <2>2
<1>2. CASE ~Active
  <2>1. <<>> \in Seq({1}) /\ \A i \in 1..Len(<<>>) : ~IsServer(<<>>[i])
    OBVIOUS
  <2>2. ~Usable(Config(<<>>, PlainRouting({})))
    BY <2>1, NothingServed
  <2> QED BY <1>2, <2>2 DEF Streisand
<1> QED BY <1>1, <1>2

(* Every answer keeps the invariant. *)
LEMMA AnswersKeep ==
  ASSUME ConfigInv, [ConfigNext]_configVars PROVE ConfigInv'
<1> DEFINE Looked == {"json", "json-global", "singbox", "clash", "streisand", "internal-fragment",
                      "json-xhttp-test", "json-xhttp-tcp-caddy-test"}
<1>1. ConfigTypes
  BY DEF ConfigInv
<1>2. ASSUME NEW asked, NEW configs, Answer(asked, configs), asked \in Looked => Serves(configs)
      PROVE  ConfigInv'
  BY <1>2, AnswerServes
<1>3. CASE ServeExtended
  <2>1. CASE Answer("json", Extended(FourProfiles("split-ru")))
    BY <1>1, <1>2, <2>1, ProfilesServe
  <2>2. CASE Answer("json-global", Extended(FourProfiles("global")))
    BY <1>1, <1>2, <2>2, ProfilesServe
  <2>3. CASE Answer("json-xhttp-test", Extended(XhttpTests))
    BY <1>1, <1>2, <2>3, TestsServe
  <2>4. CASE Answer("json-relay", Extended(<<Portable("split-ru")>>))
    BY <1>2, <2>4
  <2>5. CASE Answer("json-google", Extended(<<Portable("global")>>))
    BY <1>2, <2>5
  <2>6. CASE Answer("json-nl-test-fp", Extended(TestFp))
    BY <1>2, <2>6
  <2>7. CASE Answer("json-dual-auto-test", Extended(<<DualAuto>>))
    BY <1>2, <2>7
  <2>8. CASE Answer("json-hybrid", Extended(<<Hybrid>>))
    BY <1>2, <2>8
  <2>9. CASE Answer("raw", <<Raw>>)
    BY <1>2, <2>9
  <2> QED BY <1>3, <2>1, <2>2, <2>3, <2>4, <2>5, <2>6, <2>7, <2>8, <2>9 DEF ServeExtended
<1>4. CASE ServeAsBuilt
  <2>1. CASE Answer("singbox", <<SingBox>>)
    BY <1>2, <2>1, SmartServes, OneServes
  <2>2. CASE Answer("clash", <<Clash>>)
    BY <1>2, <2>2, ClashServes, OneServes
  <2>3. CASE Answer("streisand", <<Streisand>>)
    BY <1>2, <2>3, StreisandServes, OneServes
  <2>4. CASE Answer("internal-fragment", FourProfiles("split-ru"))
    BY <1>1, <1>2, <2>4, ProfilesServe
  <2>5. CASE Answer("json-xhttp-tcp-caddy-test", CaddyTest)
    BY <1>1, <1>2, <2>5, TestsServe
  <2>6. CASE Answer("json-dual-test", DualTest)
    BY <1>2, <2>6
  <2>7. CASE Answer("json-auto-wifi-first-test", <<WifiFirst>>)
    BY <1>2, <2>7
  <2>8. CASE Answer("json-sosproxy", <<Sosproxy, Sosproxy, Sosproxy>>)
    BY <1>2, <2>8
  <2> QED BY <1>4, <2>1, <2>2, <2>3, <2>4, <2>5, <2>6, <2>7, <2>8 DEF ServeAsBuilt
<1>5. CASE UNCHANGED configVars
  <2>1. /\ panelEnds' = panelEnds /\ shopEnds' = shopEnds /\ shopRead' = shopRead /\ clientOn' = clientOn
        /\ extras' = extras /\ route' = route /\ answer' = answer
    BY <1>5 DEF configVars
  <2>2. ConfigTypes'
    BY <1>1, <2>1 DEF ConfigTypes, Moments, Never, Past, Present, Future
  <2>3. ServesThePaid'
    BY <2>1 DEF ConfigInv, ServesThePaid, ServersIn, IsServer, Never, Future
  <2> QED BY <2>2, <2>3 DEF ConfigInv
<1> QED BY <1>3, <1>4, <1>5 DEF ConfigNext

(* ServesThePaid of ClientConfigs, for every file of extra outbounds: on the routes
   that look at the state of the subscription (subscription_summary), a customer
   gets servers exactly if his client is enabled and panel and shop together, or
   the panel alone while the shop's database cannot be read, give him time, or if
   his time is over and two extra outbounds bring a balancer. *)
THEOREM PayingCustomersAreServed == ConfigSpec => []ServesThePaid
<1>1. ConfigInit => ConfigInv
  <2>1. SUFFICES ASSUME ConfigInit PROVE ConfigInv
    OBVIOUS
  <2>2. ConfigTypes
    BY <2>1, ConfigAssumption DEF ConfigInit, ConfigTypes
  <2>3. ServesThePaid
    BY <2>1 DEF ConfigInit, ServesThePaid
  <2> QED BY <2>2, <2>3 DEF ConfigInv
<1>2. ConfigInv /\ [ConfigNext]_configVars => ConfigInv'
  BY AnswersKeep
<1>3. ConfigInv => ServesThePaid
  BY DEF ConfigInv
<1> QED BY <1>1, <1>2, <1>3, PTL DEF ConfigSpec
-----------------------------------------------------------------------------
(* The tags of a configuration. It can be loaded if no tag is there twice and a
   balancer has a server to fall back to; and what it names is there. *)
Loads(config) ==
  /\ IsInjective([j \in DOMAIN config.outs |-> config.outs[j].tag])
  /\ config.routing.balanced => config.routing.balancers # {}
  /\ \A b \in config.routing.balancers : b.fallback \in ServerTags(config)

Named(config) == config.routing.names \subseteq TagsOf(config.outs)

Resolves(configs) == \A i \in DOMAIN configs : Loads(configs[i]) /\ Named(configs[i])

(* The tags of the configurations that extra outbounds are inserted into. *)
OwnTags ==
  PlainTags \cup TagsAt("proxy", {"tcp", "wifi", "xhttp"}) \cup TagsAt("node", ToSet(NodeKinds))

(* The tags of the extra outbounds are new and differ from each other. *)
NewExtras(e) == IsInjective(e) /\ ToSet(e) \cap OwnTags = {}

ResolveInv == ConfigTypes /\ NewExtras(extras) /\ ReferencesResolve

(* An answer whose configurations load and name what is there keeps the invariant. *)
LEMMA AnswerResolves ==
  ASSUME ResolveInv, NEW asked, NEW configs, Answer(asked, configs),
         \A i \in DOMAIN configs :
           Loads(configs[i]) /\ (Named(configs[i]) \/ (asked = "clash" /\ ~german))
  PROVE  ResolveInv'
<1>1. /\ route' = asked /\ answer' = configs
      /\ UNCHANGED <<panelEnds, shopEnds, shopRead, clientOn, german, extras>>
  BY DEF Answer
<1>2. ConfigTypes'
  BY <1>1 DEF ResolveInv, ConfigTypes, Moments, Never, Past, Present, Future
<1>3. NewExtras(extras)'
  BY <1>1 DEF ResolveInv
<1>4. ReferencesResolve'
  BY <1>1 DEF ReferencesResolve, Loads, Named
<1> QED BY <1>2, <1>3, <1>4 DEF ResolveInv

(* A list without a tag twice loads if its routing names its tags and falls back
   to one of its servers. *)
Sound(outs, T, routing) ==
  /\ Listed(outs, T) /\ routing.names \subseteq T
  /\ routing.balanced => routing.balancers # {}
  /\ \A b \in routing.balancers : \E i \in 1..Len(outs) : outs[i] = Server(b.fallback)

(* A sound configuration loads and names what is there. *)
LEMMA SoundResolves ==
  ASSUME NEW outs, NEW T, NEW routing, Sound(outs, T, routing)
  PROVE  Loads(Config(outs, routing)) /\ Named(Config(outs, routing))
<1>1. Config(outs, routing).outs = outs /\ Config(outs, routing).routing = routing
  BY DEF Config
<1>2. /\ outs \in Seq(ToSet(outs)) /\ TagsOf(outs) = T
      /\ \A i, j \in 1..Len(outs) : outs[i].tag = outs[j].tag => i = j
  BY DEF Sound, Listed
<1>3. DOMAIN outs = 1..Len(outs)
  BY <1>2
<1>4. IsInjective([j \in DOMAIN outs |-> outs[j].tag])
  BY <1>2, <1>3 DEF IsInjective
<1>5. ASSUME NEW b \in routing.balancers PROVE b.fallback \in ServerTags(Config(outs, routing))
  <2>1. PICK i \in 1..Len(outs) : outs[i] = Server(b.fallback)
    BY DEF Sound
  <2>2. IsServer(outs[i]) /\ outs[i].tag = b.fallback
    BY <2>1, FixedTags
  <2>3. i \in ServersIn(Config(outs, routing))
    BY <1>1, <1>3, <2>2 DEF ServersIn
  <2> QED BY <1>1, <2>2, <2>3 DEF ServerTags
<1> QED BY <1>1, <1>2, <1>4, <1>5 DEF Loads, Named, Sound

(* The list with the extras in it: every place holds an outbound of the list or an extra. *)
Mixture(outs, T, new) ==
  /\ Listed(new, T \cup ToSet(extras))
  /\ \A i \in 1..Len(outs) : \E j \in 1..Len(new) : new[j] = outs[i]

(* It is without a tag twice if the list was, and has all that the list had. *)
LEMMA MixedListed ==
  ASSUME ConfigTypes, NewExtras(extras), NEW outs, NEW T, Listed(outs, T), T \subseteq OwnTags,
         NEW at \in 0..Len(outs), NEW new, new = Splice(outs, at)
  PROVE  Mixture(outs, T, new)
<1>0. outs \in Seq(ToSet(outs))
  BY DEF Listed
<1>1. new \in Seq(With(ToSet(outs))) /\ Places(outs, at, new)
  BY <1>0, WhereTheyAre, Zenon
<1>2. PICK n \in Nat, m \in Nat : n = Len(outs) /\ m = Len(extras)
  BY <1>0 DEF ConfigTypes
<1>3. /\ Len(new) = n + m /\ DOMAIN new = 1..(n + m) /\ DOMAIN outs = 1..n /\ DOMAIN extras = 1..m
      /\ at \in 0..n
  BY <1>0, <1>1, <1>2 DEF Places, ConfigTypes
<1>4. /\ \A i \in 1..at : new[i] = outs[i]
      /\ \A i \in 1..m : new[at + i] = Server(extras[i])
      /\ \A i \in (at + 1)..n : new[i + m] = outs[i]
  BY <1>1, <1>2 DEF Places
<1> DEFINE Old(j, i) == /\ i \in 1..n /\ new[j] = outs[i]
                        /\ (i <= at /\ j = i) \/ (i > at /\ j = i + m)
           Extra(j, i) == i \in 1..m /\ new[j].tag = extras[i] /\ j = at + i
<1>5. ASSUME NEW j \in 1..(n + m) PROVE (\E i : Old(j, i)) \/ (\E i : Extra(j, i))
  <2>1. CASE j <= at
    <3>1. Old(j, j)
      BY <1>3, <1>4, <2>1
    <3> QED BY <3>1
  <2>2. CASE at < j /\ j <= at + m
    <3>1. j - at \in 1..m /\ j = at + (j - at)
      BY <1>3, <2>2
    <3>2. new[j] = Server(extras[j - at])
      BY <1>4, <3>1
    <3>3. Extra(j, j - at)
      BY <3>1, <3>2, FixedTags
    <3> QED BY <3>3
  <2>3. CASE at + m < j
    <3>1. j - m \in (at + 1)..n /\ j = (j - m) + m /\ j - m \in 1..n /\ j - m > at
      BY <1>3, <2>3
    <3>2. new[j] = outs[j - m]
      BY <1>4, <3>1
    <3>3. Old(j, j - m)
      BY <3>1, <3>2
    <3> QED BY <3>3
  <2> QED BY <1>3, <2>1, <2>2, <2>3
<1>6. ASSUME NEW i \in 1..n PROVE \E j \in 1..(n + m) : new[j] = outs[i]
  <2>1. CASE i <= at
    <3>1. i \in 1..(n + m) /\ new[i] = outs[i]
      BY <1>3, <1>4, <2>1
    <3> QED BY <3>1
  <2>2. CASE i > at
    <3>1. i + m \in 1..(n + m) /\ new[i + m] = outs[i]
      BY <1>3, <1>4, <2>2
    <3> QED BY <3>1
  <2> QED BY <1>3, <2>1, <2>2
<1>7. /\ \A i \in 1..n : outs[i].tag \in T /\ outs[i].tag \notin ToSet(extras)
      /\ \A t \in T : \E i \in 1..n : outs[i].tag = t
      /\ \A i, j \in 1..n : outs[i].tag = outs[j].tag => i = j
  <2>1. TagsOf(outs) = {outs[i].tag : i \in 1..n} /\ TagsOf(outs) = T
    BY <1>3 DEF Listed, TagsOf
  <2>2. T \cap ToSet(extras) = {}
    BY DEF NewExtras
  <2>3. \A i, j \in 1..n : outs[i].tag = outs[j].tag => i = j
    BY <1>2 DEF Listed
  <2> QED BY <2>1, <2>2, <2>3
<1>8. /\ ToSet(extras) = {extras[i] : i \in 1..m}
      /\ \A i, j \in 1..m : extras[i] = extras[j] => i = j
  BY <1>3 DEF ToSet, NewExtras, IsInjective
<1> HIDE DEF Old, Extra
<1>9. TagsOf(new) = T \cup ToSet(extras)
  <2>1. TagsOf(new) = {new[j].tag : j \in 1..(n + m)}
    BY <1>3 DEF TagsOf
  <2>2. ASSUME NEW j \in 1..(n + m) PROVE new[j].tag \in T \cup ToSet(extras)
    <3>1. CASE \E i : Old(j, i)
      BY <1>7, <3>1 DEF Old
    <3>2. CASE \E i : Extra(j, i)
      BY <1>8, <3>2 DEF Extra
    <3> QED BY <1>5, <3>1, <3>2
  <2>3. ASSUME NEW t \in T PROVE \E j \in 1..(n + m) : new[j].tag = t
    <3>1. PICK i \in 1..n : outs[i].tag = t
      BY <1>7
    <3> QED BY <1>6, <3>1
  <2>4. ASSUME NEW t \in ToSet(extras) PROVE \E j \in 1..(n + m) : new[j].tag = t
    <3>1. PICK i \in 1..m : extras[i] = t
      BY <1>8
    <3>2. new[at + i] = Server(t) /\ at + i \in 1..(n + m)
      BY <1>3, <1>4, <3>1
    <3>3. new[at + i].tag = t
      BY <3>2, FixedTags
    <3> QED BY <3>2, <3>3
  <2> QED BY <2>1, <2>2, <2>3, <2>4
<1>10. ASSUME NEW j \in 1..(n + m), NEW k \in 1..(n + m), new[j].tag = new[k].tag
       PROVE  j = k
  <2>1. CASE (\E i : Old(j, i)) /\ (\E i : Old(k, i))
    <3>1. PICK i : Old(j, i)
      BY <2>1
    <3>2. PICK l : Old(k, l)
      BY <2>1
    <3>3. i = l
      BY <1>7, <1>10, <3>1, <3>2 DEF Old
    <3>4. (i <= at /\ j = i) \/ (i > at /\ j = i + m)
      BY <3>1 DEF Old
    <3>5. (i <= at /\ k = i) \/ (i > at /\ k = i + m)
      BY <3>2, <3>3 DEF Old
    <3>6. i \in Nat /\ at \in Nat
      BY <1>3, <3>1 DEF Old
    <3> QED BY <3>4, <3>5, <3>6
  <2>2. CASE (\E i : Extra(j, i)) /\ (\E i : Extra(k, i))
    <3>1. PICK i : Extra(j, i)
      BY <2>2
    <3>2. PICK l : Extra(k, l)
      BY <2>2
    <3>3. i = l
      BY <1>8, <1>10, <3>1, <3>2 DEF Extra
    <3> QED BY <3>1, <3>2, <3>3 DEF Extra
  <2>3. CASE (\E i : Old(j, i)) /\ (\E i : Extra(k, i))
    <3>1. PICK i : Old(j, i)
      BY <2>3
    <3>2. PICK l : Extra(k, l)
      BY <2>3
    <3>3. new[j].tag = outs[i].tag /\ outs[i].tag \notin ToSet(extras)
      BY <1>7, <3>1 DEF Old
    <3>4. new[k].tag = extras[l] /\ extras[l] \in ToSet(extras)
      BY <1>8, <3>2 DEF Extra
    <3> QED BY <1>10, <3>3, <3>4
  <2>4. CASE (\E i : Extra(j, i)) /\ (\E i : Old(k, i))
    <3>1. PICK i : Old(k, i)
      BY <2>4
    <3>2. PICK l : Extra(j, l)
      BY <2>4
    <3>3. new[k].tag = outs[i].tag /\ outs[i].tag \notin ToSet(extras)
      BY <1>7, <3>1 DEF Old
    <3>4. new[j].tag = extras[l] /\ extras[l] \in ToSet(extras)
      BY <1>8, <3>2 DEF Extra
    <3> QED BY <1>10, <3>3, <3>4
  <2> QED BY <1>5, <2>1, <2>2, <2>3, <2>4
<1>11. new \in Seq(ToSet(new))
  BY <1>1, OwnMembers
<1> QED BY <1>2, <1>3, <1>6, <1>9, <1>10, <1>11 DEF Listed, Mixture

(* Extra outbounds leave a sound configuration sound. *)
LEMMA ExtrasResolve ==
  ASSUME ConfigTypes, NewExtras(extras), NEW outs, NEW T, NEW routing, Sound(outs, T, routing),
         T \subseteq OwnTags
  PROVE  Loads(WithExtras(Config(outs, routing))) /\ Named(WithExtras(Config(outs, routing)))
<1>1. CASE extras = <<>>
  <2>1. WithExtras(Config(outs, routing)) = Config(outs, routing)
    BY <1>1 DEF WithExtras
  <2> QED BY <2>1, SoundResolves
<1>2. CASE extras # <<>>
  <2>0. Listed(outs, T) /\ outs \in Seq(ToSet(outs))
    BY DEF Sound, Listed
  <2>1. PICK at \in 0..Len(outs) : \E new : Mixed(outs, routing, at, new)
    BY <1>2, <2>0, ExtrasGoIn
  <2>2. PICK new : Mixed(outs, routing, at, new)
    BY <2>1
  <2>3. new = Splice(outs, at)
    BY <2>2 DEF Mixed
  <2>4. /\ Listed(new, T \cup ToSet(extras))
        /\ \A i \in 1..Len(outs) : \E j \in 1..Len(new) : new[j] = outs[i]
    <3>1. Listed(outs, T) /\ at \in 0..Len(outs) /\ new = Splice(outs, at)
      BY <2>0, <2>3
    <3>2. ConfigTypes /\ NewExtras(extras) /\ T \subseteq OwnTags
      OBVIOUS
    <3>3. Mixture(outs, T, new)
      BY <3>1, <3>2, MixedListed, Zenon
    <3> QED BY <3>3, Zenon DEF Mixture
  <2>5. CASE Cardinality(ServersIn(Config(new, routing))) <= 1
    <3>1. WithExtras(Config(outs, routing)) = Config(new, routing)
      BY <2>2, <2>5 DEF Mixed
    <3>2. Sound(new, T \cup ToSet(extras), routing)
      BY <2>4 DEF Sound
    <3> QED BY <3>1, <3>2, SoundResolves
  <2>6. CASE ~(Cardinality(ServersIn(Config(new, routing))) <= 1)
    <3> DEFINE servers == ServersIn(Config(new, routing))
               after == [names |-> routing.names \ ServerTags(Config(new, routing)), balanced |-> TRUE,
                         balancers |-> {[selects |-> <<"proxy", FALSE>>, fallback |-> new[Min(servers)].tag]}]
    <3>1. WithExtras(Config(outs, routing)) = Config(new, after)
      BY <2>2, <2>6 DEF Mixed
    <3>2. servers # {}
      <4>1. Cardinality({}) = 0 /\ IsFiniteSet({})
        BY FS_EmptySet
      <4> QED BY <2>6, <4>1
    <3>3. servers \subseteq 1..Len(new) /\ servers \in SUBSET Nat
      <4>1. DOMAIN new = 1..Len(new)
        BY <2>4 DEF Listed
      <4> QED BY <4>1 DEF ServersIn, Config
    <3>4. Min(servers) \in servers
      <4> HIDE DEF servers
      <4> QED BY <3>2, <3>3, FirstOf
    <3>5. /\ after.names \subseteq T /\ after.balanced
          /\ after.balancers = {[selects |-> <<"proxy", FALSE>>, fallback |-> new[Min(servers)].tag]}
      BY DEF Sound
    <3>6. new[Min(servers)].tag \in ServerTags(Config(new, after))
      <4>1. ServersIn(Config(new, after)) = servers /\ Config(new, after).outs = new
        BY DEF ServersIn, Config
      <4> QED BY <3>4, <4>1 DEF ServerTags
    <3> HIDE DEF after, servers
    <3>7. \A b \in after.balancers : b.fallback = new[Min(servers)].tag
      BY <3>5
    <3>8. Sound(new, T \cup ToSet(extras), PlainRouting({}))
      BY <2>4 DEF Sound, PlainRouting
    <3>9. IsInjective([j \in DOMAIN new |-> new[j].tag])
      BY <3>8, SoundResolves DEF Loads, Config
    <3>10. Loads(Config(new, after))
      BY <3>5, <3>6, <3>7, <3>9 DEF Loads, Config
    <3>11. Named(Config(new, after))
      BY <2>4, <3>5 DEF Named, Config, Listed
    <3> QED BY <3>1, <3>10, <3>11
  <2> QED BY <2>5, <2>6
<1> QED BY <1>1, <1>2

(* What each builder returns is sound. *)
LEMMA PlainSound ==
  ASSUME NEW names, names \subseteq PlainTags
  PROVE  LET outs == <<Server(<<"proxy", "">>), Direct, Block>>
         IN Sound(outs, PlainTags, PlainRouting(names))
BY PlainListed DEF Sound, PlainRouting

(* The rules of build_routing name the proxy, `direct' and `block' only. *)
LEMMA RoutingNames ==
  ASSUME NEW mode
  PROVE  /\ Routing(mode).names \subseteq PlainTags
         /\ Routing(mode) = PlainRouting(Routing(mode).names)
         /\ Routing(mode).names \ {<<"proxy", "">>} \subseteq {Direct.tag, Block.tag}
BY DEF Routing, PlainRouting, PlainTags

(* One proxy with `direct' and `block', and rules for these, with extras and without *)
LEMMA PlainConfigs ==
  ASSUME ConfigTypes, NewExtras(extras),
         NEW config, NEW names, names \subseteq PlainTags,
         config = Config(<<Server(<<"proxy", "">>), Direct, Block>>, PlainRouting(names))
  PROVE  /\ Loads(config) /\ Named(config)
         /\ Loads(WithExtras(config)) /\ Named(WithExtras(config))
<1>1. PICK outs : outs = <<Server(<<"proxy", "">>), Direct, Block>>
  OBVIOUS
<1>2. PICK routing : routing = PlainRouting(names)
  OBVIOUS
<1>3. Sound(outs, PlainTags, routing)
  BY <1>1, <1>2, PlainSound
<1>4. PlainTags \subseteq OwnTags
  BY DEF OwnTags
<1>5. config = Config(outs, routing)
  BY <1>1, <1>2
<1> QED BY <1>3, <1>4, <1>5, SoundResolves, ExtrasResolve

(* The portable, the static and the sosproxy profiles are such configurations. *)
LEMMA PlainOnes ==
  ASSUME ConfigTypes, NewExtras(extras), NEW mode
  PROVE  \A config \in {Portable(mode), NlXhttp, Sosproxy} :
           /\ Loads(config) /\ Named(config)
           /\ Loads(WithExtras(config)) /\ Named(WithExtras(config))
<1> DEFINE Fine(config) == /\ Loads(config) /\ Named(config)
                           /\ Loads(WithExtras(config)) /\ Named(WithExtras(config))
           outs == <<Server(<<"proxy", "">>), Direct, Block>>
<1>1. Fine(Portable(mode))
  <2>1. PICK names : names = Routing(mode).names
    OBVIOUS
  <2>2. Portable(mode) = Config(outs, PlainRouting(names)) /\ names \subseteq PlainTags
    BY <2>1, RoutingNames DEF Portable
  <2> QED BY <2>2, PlainConfigs
<1>2. Fine(NlXhttp)
  <2>1. PICK names : names = {Direct.tag, Block.tag}
    OBVIOUS
  <2>2. NlXhttp = Config(outs, PlainRouting(names)) /\ names \subseteq PlainTags
    BY <2>1 DEF NlXhttp, PlainTags
  <2> QED BY <2>2, PlainConfigs
<1>3. Fine(Sosproxy)
  <2>1. PICK names : names = {Direct.tag, <<"proxy", "">>}
    OBVIOUS
  <2>2. Sosproxy = Config(outs, PlainRouting(names)) /\ names \subseteq PlainTags
    BY <2>1 DEF Sosproxy, PlainTags
  <2> QED BY <2>2, PlainConfigs
<1> HIDE DEF Fine
<1>4. \A config \in {Portable(mode), NlXhttp, Sosproxy} : Fine(config)
  BY <1>1, <1>2, <1>3
<1> QED BY <1>4 DEF Fine

(* Outbounds of one place with `direct' and `block', and a balancer that falls back
   to the first of them *)
LEMMA BalancedSound ==
  ASSUME NEW outs, NEW T, NEW tag, NEW mode, NEW selects,
         Listed(outs, T \cup {Direct.tag, Block.tag}), Placed(outs, 1, Server(tag))
  PROVE  Sound(outs, T \cup {Direct.tag, Block.tag}, BalancedRouting(mode, selects, tag))
<1> DEFINE routing == BalancedRouting(mode, selects, tag)
<1>1. /\ routing.names = Routing(mode).names \ {<<"proxy", "">>}
      /\ routing.balancers = {[selects |-> selects, fallback |-> tag]}
  BY DEF BalancedRouting
<1>2. routing.names \subseteq {Direct.tag, Block.tag}
  BY <1>1, RoutingNames
<1> HIDE DEF routing
<1>3. \A b \in routing.balancers : b.fallback = tag
  <2>1. PICK one : one = [selects |-> selects, fallback |-> tag]
    OBVIOUS
  <2>2. one.fallback = tag /\ routing.balancers = {one}
    BY <1>1, <2>1
  <2> QED BY <2>2
<1>4. 1 \in 1..Len(outs) /\ outs[1] = Server(tag)
  BY DEF Placed
<1>5. routing.balancers # {}
  BY <1>1
<1>6. Sound(outs, T \cup {Direct.tag, Block.tag}, routing)
  BY <1>2, <1>3, <1>4, <1>5 DEF Sound
<1> QED BY <1>6 DEF routing

(* Such a configuration is fine, with extras and without. *)
LEMMA BalancedFine ==
  ASSUME ConfigTypes, NewExtras(extras),
         NEW outs, NEW T, NEW tag, NEW mode, NEW selects, T \subseteq OwnTags,
         Listed(outs, T \cup {Direct.tag, Block.tag}), Placed(outs, 1, Server(tag)),
         NEW config, config = Config(outs, BalancedRouting(mode, selects, tag))
  PROVE  /\ Loads(config) /\ Named(config)
         /\ Loads(WithExtras(config)) /\ Named(WithExtras(config))
<1>1. PICK routing : routing = BalancedRouting(mode, selects, tag)
  OBVIOUS
<1>2. PICK U : U = T \cup {Direct.tag, Block.tag}
  OBVIOUS
<1>3. Sound(outs, U, routing)
  BY <1>1, <1>2, BalancedSound
<1>4. U \subseteq OwnTags
  BY <1>2 DEF OwnTags, PlainTags
<1>5. config = Config(outs, routing)
  BY <1>1
<1> QED BY <1>3, <1>4, <1>5, SoundResolves, ExtrasResolve

(* The balancer over the nodes is one. *)
LEMMA BalancerFine ==
  ASSUME ConfigTypes, NewExtras(extras), NEW mode
  PROVE  /\ Loads(AutoBalancer(mode)) /\ Named(AutoBalancer(mode))
         /\ Loads(WithExtras(AutoBalancer(mode))) /\ Named(WithExtras(AutoBalancer(mode)))
<1>1. PICK T : T = TagsAt("node", ToSet(NodeKinds))
  OBVIOUS
<1>2. PICK tag : tag = <<"node", "nl-classic">>
  OBVIOUS
<1>3. PICK selects : selects = <<"node", TRUE>>
  OBVIOUS
<1>4. PICK config : config = AutoBalancer(mode)
  OBVIOUS
<1>5. T \subseteq OwnTags
  BY <1>1 DEF OwnTags
<1>6. Listed(NodeOuts, T \cup {Direct.tag, Block.tag}) /\ Placed(NodeOuts, 1, Server(tag))
  BY <1>1, <1>2, NodeOutsListed
<1>7. config = Config(NodeOuts, BalancedRouting(mode, selects, tag))
  BY <1>2, <1>3, <1>4 DEF AutoBalancer, NodeOuts, NodeKinds
<1>8. /\ Loads(config) /\ Named(config)
      /\ Loads(WithExtras(config)) /\ Named(WithExtras(config))
  BY <1>5, <1>6, <1>7, BalancedFine
<1> QED BY <1>4, <1>8

(* A configuration with proxies of some kinds, the first of which it falls back to *)
LEMMA ProxiesFine ==
  ASSUME ConfigTypes, NewExtras(extras),
         NEW n \in Nat, n >= 1, NEW kinds, DOMAIN kinds = 1..n,
         \A i, j \in 1..n : kinds[i] = kinds[j] => i = j,
         ToSet(kinds) \subseteq {"tcp", "wifi", "xhttp"},
         NEW config, NEW mode,
         config = Config(ProxyTags(kinds), BalancedRouting(mode, <<"proxy", TRUE>>, <<"proxy", kinds[1]>>))
  PROVE  /\ Loads(config) /\ Named(config)
         /\ Loads(WithExtras(config)) /\ Named(WithExtras(config))
<1>1. PICK T : T = TagsAt("proxy", ToSet(kinds))
  OBVIOUS
<1>2. PICK tag : tag = <<"proxy", kinds[1]>>
  OBVIOUS
<1>3. PICK selects : selects = <<"proxy", TRUE>>
  OBVIOUS
<1>4. PICK outs : outs = ProxyTags(kinds)
  OBVIOUS
<1>5. T \subseteq OwnTags
  <2>1. T \subseteq TagsAt("proxy", {"tcp", "wifi", "xhttp"})
    BY <1>1 DEF TagsAt
  <2> QED BY <2>1 DEF OwnTags
<1>6. Listed(outs, T \cup {Direct.tag, Block.tag}) /\ Placed(outs, 1, Server(tag))
  <2>1. PICK place : place = "proxy"
    OBVIOUS
  <2>2. /\ Listed(Servers(place, kinds) \o <<Direct, Block>>,
                  TagsAt(place, ToSet(kinds)) \cup {Direct.tag, Block.tag})
        /\ Placed(Servers(place, kinds) \o <<Direct, Block>>, 1, Server(<<place, kinds[1]>>))
    BY <2>1, ProxiesListed
  <2> QED BY <1>1, <1>2, <1>4, <2>1, <2>2 DEF ProxyTags
<1>7. config = Config(outs, BalancedRouting(mode, selects, tag))
  BY <1>2, <1>3, <1>4
<1> QED BY <1>5, <1>6, <1>7, BalancedFine

(* So are those of the dual and hybrid routes. *)
LEMMA TestsFine ==
  ASSUME ConfigTypes, NewExtras(extras)
  PROVE  \A config \in {DualAuto, WifiFirst, Hybrid} :
           /\ Loads(config) /\ Named(config)
           /\ Loads(WithExtras(config)) /\ Named(WithExtras(config))
<1> DEFINE Fine(config) == /\ Loads(config) /\ Named(config)
                           /\ Loads(WithExtras(config)) /\ Named(WithExtras(config))
<1>1. ASSUME NEW kinds, NEW config, NEW a, NEW b, a \in {"tcp", "wifi"}, b \in {"tcp", "wifi"}, a # b,
             kinds = <<a, b>>,
             config = Config(ProxyTags(kinds),
                             BalancedRouting("split-ru", <<"proxy", TRUE>>, <<"proxy", a>>))
      PROVE  Fine(config)
  <2>1. PICK n \in Nat : n = 2
    OBVIOUS
  <2>2. DOMAIN kinds = 1..n /\ kinds[1] = a /\ kinds[2] = b /\ n >= 1
    BY <1>1, <2>1
  <2>3. \A i \in 1..n : i = 1 \/ i = 2
    BY <2>1
  <2>4. \A i, j \in 1..n : kinds[i] = kinds[j] => i = j
    BY <1>1, <2>2, <2>3
  <2>5. ToSet(kinds) \subseteq {"tcp", "wifi", "xhttp"}
    <3>1. ToSet(kinds) = {kinds[i] : i \in 1..n}
      BY <2>2 DEF ToSet
    <3> QED BY <1>1, <2>2, <2>3, <3>1
  <2>6. PICK mode : mode = "split-ru"
    OBVIOUS
  <2>7. config = Config(ProxyTags(kinds), BalancedRouting(mode, <<"proxy", TRUE>>, <<"proxy", kinds[1]>>))
    BY <1>1, <2>2, <2>6
  <2> QED BY <2>2, <2>4, <2>5, <2>7, ProxiesFine
<1>2. Fine(DualAuto)
  <2>1. PICK kinds : kinds = <<"tcp", "wifi">>
    OBVIOUS
  <2>2. DualAuto = Config(ProxyTags(kinds), BalancedRouting("split-ru", <<"proxy", TRUE>>, <<"proxy", "tcp">>))
    BY <2>1 DEF DualAuto
  <2> HIDE DEF Fine
  <2> QED BY <1>1, <2>1, <2>2
<1>3. Fine(WifiFirst)
  <2>1. PICK kinds : kinds = <<"wifi", "tcp">>
    OBVIOUS
  <2>2. WifiFirst = Config(ProxyTags(kinds), BalancedRouting("split-ru", <<"proxy", TRUE>>, <<"proxy", "wifi">>))
    BY <2>1 DEF WifiFirst
  <2> HIDE DEF Fine
  <2> QED BY <1>1, <2>1, <2>2
<1>4. Fine(Hybrid)
  <2>1. PICK n \in Nat : n = 3
    OBVIOUS
  <2>2. PICK kinds : kinds = <<"tcp", "xhttp", "wifi">>
    OBVIOUS
  <2>3. DOMAIN kinds = 1..n /\ kinds[1] = "tcp" /\ kinds[2] = "xhttp" /\ kinds[3] = "wifi" /\ n >= 1
    BY <2>1, <2>2
  <2>4. \A i \in 1..n : i = 1 \/ i = 2 \/ i = 3
    BY <2>1
  <2>5. \A i, j \in 1..n : kinds[i] = kinds[j] => i = j
    BY <2>3, <2>4
  <2>6. ToSet(kinds) \subseteq {"tcp", "wifi", "xhttp"}
    <3>1. ToSet(kinds) = {kinds[i] : i \in 1..n}
      BY <2>3 DEF ToSet
    <3> QED BY <2>3, <2>4, <3>1
  <2>7. PICK mode, config : mode = "split-ru" /\ config = Hybrid
    OBVIOUS
  <2>8. config = Config(ProxyTags(kinds), BalancedRouting(mode, <<"proxy", TRUE>>, <<"proxy", kinds[1]>>))
    BY <2>2, <2>3, <2>7 DEF Hybrid
  <2>9. Fine(config)
    BY <2>3, <2>5, <2>6, <2>8, ProxiesFine
  <2> QED BY <2>7, <2>9
<1> HIDE DEF Fine
<1>5. \A config \in {DualAuto, WifiFirst, Hybrid} : Fine(config)
  BY <1>2, <1>3, <1>4
<1> QED BY <1>5 DEF Fine

(* One outbound that nothing refers to: the raw profile, the black hole *)
LEMMA SingleSound ==
  ASSUME NEW o PROVE Sound(<<o>>, {o.tag}, PlainRouting({}))
BY ListedOne DEF Sound, PlainRouting

(* They are fine, the black hole also with extras. *)
LEMMA SinglesFine ==
  ASSUME ConfigTypes, NewExtras(extras)
  PROVE  /\ Loads(Raw) /\ Named(Raw) /\ Loads(ExpiredDummy) /\ Named(ExpiredDummy)
         /\ Loads(WithExtras(ExpiredDummy)) /\ Named(WithExtras(ExpiredDummy))
<1>1. PICK outs, T, routing : Raw = Config(outs, routing) /\ Sound(outs, T, routing)
  BY SingleSound DEF Raw
<1>2. PICK hole : hole = [tag |-> <<"proxy", "">>, kind |-> "blackhole"]
  OBVIOUS
<1>3. ExpiredDummy = Config(<<hole>>, PlainRouting({}))
  BY <1>2 DEF ExpiredDummy
<1>4. {hole.tag} \subseteq OwnTags
  BY <1>2 DEF OwnTags, PlainTags
<1>5. PICK outs1, T1, routing1 :
        outs1 = <<hole>> /\ T1 = {hole.tag} /\ routing1 = PlainRouting({})
  OBVIOUS
<1>6. Sound(outs1, T1, routing1) /\ T1 \subseteq OwnTags /\ ExpiredDummy = Config(outs1, routing1)
  BY <1>3, <1>4, <1>5, SingleSound
<1> QED BY <1>1, <1>6, SoundResolves, ExtrasResolve

(* Answers of several configurations, as they were built and with extras *)
Fine(configs) == Resolves(configs) /\ Resolves(Extended(configs))

(* A list of fine configurations is a fine answer. *)
LEMMA AllFine ==
  ASSUME NEW S, NEW configs \in Seq(S),
         \A config \in S : /\ Loads(config) /\ Named(config)
                           /\ Loads(WithExtras(config)) /\ Named(WithExtras(config))
  PROVE  Fine(configs)
<1>1. \A i \in DOMAIN configs : configs[i] \in S
  OBVIOUS
<1>2. /\ DOMAIN Extended(configs) = DOMAIN configs
      /\ \A i \in DOMAIN configs : Extended(configs)[i] = WithExtras(configs[i])
  BY DEF Extended
<1> QED BY <1>1, <1>2 DEF Fine, Resolves

(* The four profiles, or the black hole of an expired subscription *)
LEMMA ProfilesFine ==
  ASSUME ConfigTypes, NewExtras(extras), NEW mode
  PROVE  Fine(FourProfiles(mode))
<1>1. CASE Active
  <2> DEFINE S == {AutoBalancer(mode), Portable(mode)}
             first == <<AutoBalancer(mode)>>
  <2>1. NlProfiles(mode) \in Seq(S) /\ FiProfiles(mode) \in Seq(S) /\ DeProfiles(mode) \in Seq(S)
    <3>1. [i \in 1..4 |-> Portable(mode)] \in Seq(S)
      OBVIOUS
    <3>2. <<>> \in Seq(S)
      OBVIOUS
    <3> QED BY <3>1, <3>2 DEF NlProfiles, FiProfiles, DeProfiles, German
  <2>2. first \in Seq(S)
    OBVIOUS
  <2>3. FourProfiles(mode) = first \o NlProfiles(mode) \o FiProfiles(mode) \o DeProfiles(mode)
    BY <1>1 DEF FourProfiles
  <2>4. \A config \in S : /\ Loads(config) /\ Named(config)
                          /\ Loads(WithExtras(config)) /\ Named(WithExtras(config))
    BY PlainOnes, BalancerFine
  <2> HIDE DEF S, first
  <2>5. first \o NlProfiles(mode) \o FiProfiles(mode) \o DeProfiles(mode) \in Seq(S)
    BY <2>1, <2>2, Joined
  <2> QED BY <2>3, <2>4, <2>5, AllFine
<1>2. CASE ~Active
  <2> DEFINE S == {ExpiredDummy}
  <2>1. FourProfiles(mode) = <<ExpiredDummy>> /\ <<ExpiredDummy>> \in Seq(S)
    BY <1>2 DEF FourProfiles
  <2>2. \A config \in S : /\ Loads(config) /\ Named(config)
                          /\ Loads(WithExtras(config)) /\ Named(WithExtras(config))
    BY SinglesFine
  <2> HIDE DEF S
  <2> QED BY <2>1, <2>2, AllFine
<1> QED BY <1>1, <1>2

(* The answers of the other routes *)
LEMMA SmallFine ==
  ASSUME ConfigTypes, NewExtras(extras)
  PROVE  /\ Fine(<<Portable("split-ru")>>) /\ Fine(<<Portable("global")>>) /\ Fine(TestFp)
         /\ Fine(DualTest) /\ Fine(XhttpTests) /\ Fine(CaddyTest)
         /\ Fine(<<Sosproxy, Sosproxy, Sosproxy>>)
         /\ Fine(<<DualAuto>>) /\ Fine(<<WifiFirst>>) /\ Fine(<<Hybrid>>)
<1> DEFINE S == {Portable("split-ru"), Portable("global"), NlXhttp, Sosproxy, DualAuto, WifiFirst,
                 Hybrid, ExpiredDummy}
<1>1. \A config \in S : /\ Loads(config) /\ Named(config)
                        /\ Loads(WithExtras(config)) /\ Named(WithExtras(config))
  BY PlainOnes, TestsFine, SinglesFine
<1>2. /\ Portable("split-ru") \in S /\ Portable("global") \in S /\ NlXhttp \in S /\ Sosproxy \in S
      /\ DualAuto \in S /\ WifiFirst \in S /\ Hybrid \in S /\ ExpiredDummy \in S
  OBVIOUS
<1> HIDE DEF S
<1>3. /\ <<Portable("split-ru")>> \in Seq(S) /\ <<Portable("global")>> \in Seq(S)
      /\ TestFp \in Seq(S) /\ DualTest \in Seq(S) /\ <<Sosproxy, Sosproxy, Sosproxy>> \in Seq(S)
      /\ <<DualAuto>> \in Seq(S) /\ <<WifiFirst>> \in Seq(S) /\ <<Hybrid>> \in Seq(S)
  BY <1>2 DEF TestFp, DualTest
<1>4. XhttpTests \in Seq(S)
  BY <1>2 DEF XhttpTests
<1>5. CaddyTest \in Seq(S)
  BY <1>2 DEF CaddyTest
<1> QED BY <1>1, <1>3, <1>4, <1>5, AllFine

(* The readable names keep the tags of the sing-box configuration apart. *)
LEMMA SmartPlaces ==
  ASSUME NEW t \in SmartTags
  PROVE  \/ t = Selector
         \/ t[1] = "de" /\ t[2] # "openflux-socks"
         \/ t[1] = "pl" /\ t[2] = "openflux-socks"
         \/ t # Selector /\ t[1] \notin {"de", "pl"}
<1>1. CASE t \in {Selector}
  BY <1>1
<1>2. CASE t \in {UrlTest}
  <2>1. t = <<"auto", "urltest">>
    BY <1>2 DEF UrlTest
  <2>2. t[1] = "auto"
    BY <2>1
  <2> QED BY <2>2
<1>3. CASE t \in TagsAt("nl", ToSet(Protocols)) \/ t \in TagsAt("fi", ToSet(Protocols))
  <2>1. t[1] \in {"nl", "fi"}
    BY <1>3, TagParts
  <2> QED BY <2>1
<1>4. CASE t \in {<<"nl", "ws443">>, <<"fi", "ws443">>, <<"nl", "openflux-socks">>, <<"fi", "openflux-socks">>}
  <2>1. PICK a \in {"nl", "fi"}, b \in {"ws443", "openflux-socks"} : t = <<a, b>>
    BY <1>4
  <2>2. t[1] = a
    BY <2>1, PairParts, Zenon
  <2> QED BY <2>2
<1>5. CASE t = <<"pl", "openflux-socks">>
  BY <1>5
<1>6. CASE t \in TagsAt("de", ToSet(Protocols) \cup {"ws443"})
  <2>1. t[1] = "de" /\ t[2] \in ToSet(Protocols) \cup {"ws443"}
    BY <1>6, TagParts, Zenon
  <2> QED BY <2>1, KindsOf
<1>7. CASE t = Direct.tag
  <2>1. t = <<"direct", "">>
    BY <1>7, FixedTags
  <2>2. t[1] = "direct"
    BY <2>1
  <2> QED BY <2>2
<1> QED BY <1>1, <1>2, <1>3, <1>4, <1>5, <1>6, <1>7 DEF SmartTags

(* A tag of the sing-box configuration is a pair. *)
LEMMA SmartPairs ==
  ASSUME NEW t \in SmartTags PROVE t = <<t[1], t[2]>>
<1>1. PICK a, b : t = <<a, b>>
  <2>1. ASSUME NEW place, NEW kinds, t \in TagsAt(place, kinds) PROVE \E a, b : t = <<a, b>>
    <3>1. PICK k \in kinds : t = <<place, k>>
      BY <2>1 DEF TagsAt
    <3> QED BY <3>1, Zenon
  <2>2. \/ t = <<"proxy", "selector">> \/ t = <<"auto", "urltest">> \/ t = <<"direct", "">>
        \/ \E place, kinds : t \in TagsAt(place, kinds)
        \/ t = <<"nl", "ws443">> \/ t = <<"fi", "ws443">>
        \/ t = <<"nl", "openflux-socks">> \/ t = <<"pl", "openflux-socks">>
        \/ t = <<"fi", "openflux-socks">>
    <3>1. CASE t \in TagsAt("nl", ToSet(Protocols)) \/ t \in TagsAt("fi", ToSet(Protocols))
      BY <3>1
    <3>2. CASE t \in TagsAt("de", ToSet(Protocols) \cup {"ws443"})
      BY <3>2
    <3>3. CASE ~(t \in TagsAt("nl", ToSet(Protocols)) \/ t \in TagsAt("fi", ToSet(Protocols)))
               /\ t \notin TagsAt("de", ToSet(Protocols) \cup {"ws443"})
      BY <3>3, FixedTags DEF SmartTags, Selector, UrlTest
    <3> QED BY <3>1, <3>2, <3>3
  <2> QED BY <2>1, <2>2, Zenon
<1> QED BY <1>1

(* happ_tag_map gives no two of them the same name. *)
LEMMA NamesApart ==
  ASSUME NEW s \in SmartTags, NEW t \in SmartTags, HappName(s) = HappName(t)
  PROVE  s = t
<1>1. \/ s = Selector
      \/ s[1] = "de" /\ s[2] # "openflux-socks"
      \/ s[1] = "pl" /\ s[2] = "openflux-socks"
      \/ s # Selector /\ s[1] \notin {"de", "pl"}
  BY SmartPlaces
<1>2. \/ t = Selector
      \/ t[1] = "de" /\ t[2] # "openflux-socks"
      \/ t[1] = "pl" /\ t[2] = "openflux-socks"
      \/ t # Selector /\ t[1] \notin {"de", "pl"}
  BY SmartPlaces
<1>3. PICK selector : selector = Selector
  OBVIOUS
<1>4. selector[1] = "proxy"
  BY <1>3 DEF Selector
<1>5. ASSUME NEW r PROVE \/ r = selector /\ HappName(r) = selector
                         \/ r # selector /\ r[1] \in {"de", "pl"} /\ HappName(r) = <<"DE", r[2]>>
                         \/ r # selector /\ r[1] \notin {"de", "pl"} /\ HappName(r) = <<"readable", r>>
  BY <1>3 DEF HappName
<1>6. ASSUME NEW a, NEW b PROVE <<a, b>>[1] = a /\ <<a, b>>[2] = b
  OBVIOUS
<1>7. PICK p : p = HappName(s) /\ p = HappName(t)
  OBVIOUS
<1>8. \/ s = selector /\ p[1] = "proxy"
      \/ s[1] \in {"de", "pl"} /\ p[1] = "DE" /\ p[2] = s[2]
      \/ s # selector /\ s[1] \notin {"de", "pl"} /\ p[1] = "readable" /\ p[2] = s
  BY <1>4, <1>5, <1>6, <1>7
<1>9. \/ t = selector /\ p[1] = "proxy"
      \/ t[1] \in {"de", "pl"} /\ p[1] = "DE" /\ p[2] = t[2]
      \/ t # selector /\ t[1] \notin {"de", "pl"} /\ p[1] = "readable" /\ p[2] = t
  BY <1>4, <1>5, <1>6, <1>7
<1>10. s = <<s[1], s[2]>> /\ t = <<t[1], t[2]>>
  BY SmartPairs
<1>11. CASE s[1] \in {"de", "pl"} /\ t[1] \in {"de", "pl"}
  <2>1. s # selector /\ t # selector
    BY <1>4, <1>11
  <2>2. s[2] = t[2]
    BY <1>4, <1>8, <1>9, <1>11
  <2>3. s[1] = t[1]
    BY <1>1, <1>2, <1>3, <1>11, <2>1, <2>2
  <2> QED BY <1>10, <2>2, <2>3, Zenon
<1>12. CASE s[1] \notin {"de", "pl"} \/ t[1] \notin {"de", "pl"}
  BY <1>8, <1>9, <1>12
<1> QED BY <1>11, <1>12

(* Lists of outbounds with a tag and a kind *)
Outbounds(S) == \A o \in S : \E t, k : o = [tag |-> t, kind |-> k]
Builds(s) == \E S : s \in Seq(S) /\ Outbounds(S)

(* Two such lists, one behind the other, are one. *)
LEMMA BuildsTwo ==
  ASSUME NEW s, NEW t, Builds(s), Builds(t) PROVE Builds(s \o t)
<1>1. PICK S : s \in Seq(S) /\ Outbounds(S)
  BY DEF Builds
<1>2. PICK U : t \in Seq(U) /\ Outbounds(U)
  BY DEF Builds
<1>3. PICK V : V = S \cup U
  OBVIOUS
<1>4. s \in Seq(V) /\ t \in Seq(V)
  <2>1. ToSet(s) \subseteq V /\ ToSet(t) \subseteq V
    BY <1>1, <1>2, <1>3, OwnMembers
  <2> QED BY <1>1, <1>2, <2>1, OwnMembers
<1>5. s \o t \in Seq(V)
  BY <1>4, Joined
<1>6. Outbounds(V)
  BY <1>1, <1>2, <1>3 DEF Outbounds
<1> QED BY <1>5, <1>6 DEF Builds

(* The short ones among them *)
LEMMA BuildsSome ==
  /\ Builds(<<>>)
  /\ \A t, u : Builds(<<Group(t), Group(u)>>) /\ Builds(<<Server(t), Server(u)>>)
  /\ Builds(<<Direct>>)
<1>1. Builds(<<>>)
  <2>1. <<>> \in Seq({})
    OBVIOUS
  <2>2. Outbounds({})
    BY DEF Outbounds
  <2> QED BY <2>1, <2>2, Zenon DEF Builds
<1>2. ASSUME NEW o, NEW p, \E t, k : o = [tag |-> t, kind |-> k], \E t, k : p = [tag |-> t, kind |-> k]
      PROVE  Builds(<<o, p>>) /\ Builds(<<o>>)
  <2>1. <<o, p>> \in Seq({o, p}) /\ <<o>> \in Seq({o, p})
    OBVIOUS
  <2>2. Outbounds({o, p})
    BY <1>2 DEF Outbounds
  <2> QED BY <2>1, <2>2, Zenon DEF Builds
<1>3. \A t : (\E a, k : Group(t) = [tag |-> a, kind |-> k]) /\ (\E a, k : Server(t) = [tag |-> a, kind |-> k])
  BY DEF Group, Server
<1>4. \E a, k : Direct = [tag |-> a, kind |-> k]
  BY DEF Direct
<1> QED BY <1>1, <1>2, <1>3, <1>4

(* Servers of one place *)
LEMMA BuildsServers ==
  ASSUME NEW place, NEW n \in Nat, NEW kinds, DOMAIN kinds = 1..n
  PROVE  Builds(Servers(place, kinds))
<1> DEFINE S == {Server(<<place, kinds[i]>>) : i \in 1..n}
<1>1. Servers(place, kinds) = [i \in 1..n |-> Server(<<place, kinds[i]>>)]
  BY DEF Servers
<1>2. Servers(place, kinds) \in Seq(S)
  BY <1>1
<1>3. Outbounds(S)
  BY DEF Server, Outbounds
<1> HIDE DEF S
<1> QED BY <1>2, <1>3, Zenon DEF Builds

(* The outbounds of sing-box are such a list. *)
LEMMA SmartBuilds == Builds(SmartOuts)
<1>1. /\ DOMAIN Protocols = 1..4 /\ DOMAIN (Protocols \o <<"ws443">>) = 1..5
  <2>1. "ws443" \notin ToSet(Protocols)
    BY KindsOf
  <2> QED BY <2>1, KindsOf, KindsWith
<1>2. Builds(SmartNodes)
  <2>1. 4 \in Nat
    OBVIOUS
  <2>2. Builds(Servers("nl", Protocols)) /\ Builds(Servers("fi", Protocols))
    BY <1>1, <2>1, BuildsServers
  <2> QED BY <2>2, BuildsTwo DEF SmartNodes
<1>3. Builds(SmartGermans)
  <2>1. 5 \in Nat
    OBVIOUS
  <2>2. Builds(Servers("de", Protocols \o <<"ws443">>))
    BY <1>1, <2>1, BuildsServers
  <2> QED BY <2>2, BuildsSome DEF SmartGermans, German
<1>4. Builds(SmartFallbacks)
  <2> DEFINE f == [i \in 1..3 |-> Server(<< <<"nl", "pl", "fi">>[i], "openflux-socks">>)]
  <2>1. Builds(f)
    <3> DEFINE S == {f[i] : i \in 1..3}
    <3>1. f \in Seq(S)
      OBVIOUS
    <3>2. Outbounds(S)
      BY DEF Server, Outbounds
    <3> HIDE DEF S, f
    <3> QED BY <3>1, <3>2, Zenon DEF Builds
  <2>2. Builds(<<Server(<<"nl", "ws443">>), Server(<<"fi", "ws443">>)>>)
    BY BuildsSome
  <2> QED BY <2>1, <2>2, BuildsTwo DEF SmartFallbacks
<1>5. Builds(<<Group(Selector), Group(UrlTest)>>) /\ Builds(<<Direct>>)
  BY BuildsSome
<1> QED BY <1>2, <1>3, <1>4, <1>5, BuildsTwo DEF SmartOuts

(* Names that keep the tags apart keep the list one without a tag twice. *)
LEMMA RenamedListed ==
  ASSUME NEW outs, NEW T, Listed(outs, T), Builds(outs),
         \A s, t \in T : HappName(s) = HappName(t) => s = t
  PROVE  Listed(Renamed(outs), {HappName(t) : t \in T})
<1>1. outs \in Seq(ToSet(outs)) /\ TagsOf(outs) = T
  BY DEF Listed
<1>2. PICK n \in Nat : n = Len(outs) /\ DOMAIN outs = 1..n
  BY <1>1
<1>3. PICK new : new = Renamed(outs)
  OBVIOUS
<1>4. new = [i \in 1..n |-> [outs[i] EXCEPT !.tag = HappName(@)]]
  BY <1>2, <1>3 DEF Renamed
<1>5. ASSUME NEW i \in 1..n PROVE new[i].tag = HappName(outs[i].tag)
  <2>1. PICK S : outs \in Seq(S) /\ Outbounds(S)
    BY DEF Builds
  <2>2. PICK t, k : outs[i] = [tag |-> t, kind |-> k]
    <3>1. outs[i] \in S
      BY <1>2, <2>1
    <3> QED BY <2>1, <3>1, Zenon DEF Outbounds
  <2>3. new[i] = [outs[i] EXCEPT !.tag = HappName(outs[i].tag)]
    BY <1>4
  <2>4. \A a, b, c : [[tag |-> a, kind |-> b] EXCEPT !.tag = c] = [tag |-> c, kind |-> b]
    OBVIOUS
  <2>5. new[i] = [tag |-> HappName(outs[i].tag), kind |-> k]
    BY <2>2, <2>3, <2>4
  <2> QED BY <2>5
<1>6. /\ \A i \in 1..n : outs[i].tag \in T
      /\ \A t \in T : \E i \in 1..n : outs[i].tag = t
      /\ \A i, j \in 1..n : outs[i].tag = outs[j].tag => i = j
  BY <1>1, <1>2 DEF Listed, TagsOf
<1>7. Len(new) = n /\ DOMAIN new = 1..n
  BY <1>4
<1>8. new \in Seq(ToSet(new))
  <2>1. \A i \in 1..n : new[i] \in ToSet(new)
    BY <1>7 DEF ToSet
  <2> QED BY <1>4, <2>1
<1>9. TagsOf(new) = {HappName(t) : t \in T}
  <2>1. TagsOf(new) = {new[i].tag : i \in 1..n}
    BY <1>7 DEF TagsOf
  <2>2. ASSUME NEW x \in TagsOf(new) PROVE x \in {HappName(t) : t \in T}
    <3>1. PICK i \in 1..n : x = new[i].tag
      BY <2>1
    <3> QED BY <1>5, <1>6, <3>1
  <2>3. ASSUME NEW t \in T PROVE HappName(t) \in TagsOf(new)
    <3>1. PICK i \in 1..n : outs[i].tag = t
      BY <1>6
    <3> QED BY <1>5, <2>1, <3>1
  <2> QED BY <2>2, <2>3
<1>10. \A i, j \in 1..n : new[i].tag = new[j].tag => i = j
  BY <1>5, <1>6
<1> QED BY <1>3, <1>7, <1>8, <1>9, <1>10 DEF Listed

(* What the two groups of sing-box offer is among its tags. *)
LEMMA OffersAreThere ==
  SelectorOffers \cup UrlTestOffers \cup {Direct.tag} \subseteq SmartTags
<1>1. \A p \in ToSet(Protocols) :
         /\ <<"nl", p>> \in TagsAt("nl", ToSet(Protocols)) /\ <<"fi", p>> \in TagsAt("fi", ToSet(Protocols))
         /\ <<"de", p>> \in TagsAt("de", ToSet(Protocols) \cup {"ws443"})
  BY DEF TagsAt
<1>2. <<"de", "ws443">> \in TagsAt("de", ToSet(Protocols) \cup {"ws443"})
  BY DEF TagsAt
<1>3. /\ UrlTest \in SmartTags /\ Direct.tag \in SmartTags
      /\ <<"nl", "ws443">> \in SmartTags /\ <<"fi", "ws443">> \in SmartTags
      /\ <<"nl", "openflux-socks">> \in SmartTags /\ <<"pl", "openflux-socks">> \in SmartTags
      /\ <<"fi", "openflux-socks">> \in SmartTags
  BY DEF SmartTags
<1>4. \A p \in ToSet(Protocols) : <<"nl", p>> \in SmartTags /\ <<"fi", p>> \in SmartTags
  BY <1>1 DEF SmartTags
<1>5. german => \A p \in ToSet(Protocols) \cup {"ws443"} : <<"de", p>> \in SmartTags
  BY <1>1, <1>2 DEF SmartTags
<1>6. "classic-tcp" \in ToSet(Protocols)
  BY KindsOf
<1>7. SelectorOffers \subseteq SmartTags
  <2>1. {<<place, p>> : place \in {"nl", "fi"}, p \in ToSet(Protocols) \cup {"ws443", "openflux-socks"}}
          \subseteq SmartTags
    <3>1. ASSUME NEW place \in {"nl", "fi"}, NEW p \in ToSet(Protocols) \cup {"ws443", "openflux-socks"}
          PROVE  <<place, p>> \in SmartTags
      <4>1. CASE p \in ToSet(Protocols)
        BY <1>4, <4>1
      <4>2. CASE p = "ws443"
        BY <1>3, <4>2
      <4>3. CASE p = "openflux-socks"
        BY <1>3, <4>3
      <4> QED BY <4>1, <4>2, <4>3
    <3> QED BY <3>1
  <2>2. (IF german THEN {<<"de", p>> : p \in ToSet(Protocols) \cup {"ws443"}} ELSE {}) \subseteq SmartTags
    BY <1>5
  <2> QED BY <1>3, <2>1, <2>2 DEF SelectorOffers
<1>8. UrlTestOffers \subseteq SmartTags
  <2>1. {<<"nl", p>> : p \in ToSet(Protocols) \ {"backup-grpc"}} \subseteq SmartTags
    BY <1>4
  <2>2. (IF german THEN {<<"de", p>> : p \in ToSet(Protocols)} ELSE {}) \subseteq SmartTags
    BY <1>5
  <2>3. <<"fi", "classic-tcp">> \in SmartTags
    BY <1>4, <1>6
  <2> QED BY <2>1, <2>2, <2>3 DEF UrlTestOffers
<1> QED BY <1>3, <1>7, <1>8

(* sing-box: every name is renamed along with the outbound that it names. *)
LEMMA SmartFine ==
  ASSUME ConfigTypes, NewExtras(extras) PROVE Loads(SingBox) /\ Named(SingBox)
<1>1. CASE Active
  <2> DEFINE names == {HappName(t) : t \in SelectorOffers \cup UrlTestOffers \cup {Direct.tag}} \cup {Selector}
             T == {HappName(t) : t \in SmartTags}
             routing == PlainRouting(names)
             outs == Renamed(SmartOuts)
  <2>1. SingBox = Config(outs, routing)
    BY <1>1 DEF SingBox, SmartOuts, Renamed
  <2>2. Listed(outs, T)
    BY SmartListed, SmartBuilds, NamesApart, RenamedListed
  <2>3. names \subseteq T
    <3>1. Selector \in SmartTags /\ HappName(Selector) = Selector
      BY DEF SmartTags, HappName
    <3> QED BY <3>1, OffersAreThere
  <2>4. routing.names = names /\ ~routing.balanced /\ routing.balancers = {}
    BY DEF PlainRouting
  <2> HIDE DEF names, T, routing, outs
  <2>5. Sound(outs, T, routing)
    BY <2>2, <2>3, <2>4 DEF Sound
  <2> QED BY <2>1, <2>5, SoundResolves
<1>2. CASE ~Active
  BY <1>2, SinglesFine DEF SingBox
<1> QED BY <1>1, <1>2

(* Clash: the fallback group names German servers, which are there with a German host. *)
LEMMA ClashFine ==
  Loads(Clash) /\ (Named(Clash) \/ ~german)
<1>1. CASE Active
  <2> DEFINE names == TagsOf(ClashServers) \cup TagsOf(ClashGroups) \cup PriorityFallback \cup {Direct.tag}
             outs == ClashServers \o ClashGroups \o <<Direct>>
             T == ClashServerTags \cup TagsOf(ClashGroups) \cup {Direct.tag}
             routing == PlainRouting(names)
  <2>1. Clash = Config(outs, routing)
    BY <1>1 DEF Clash, ClashServers
  <2>2. Listed(outs, T) /\ TagsOf(ClashServers) = ClashServerTags
    BY ClashListed DEF Listed
  <2>3. german => names \subseteq T
    <3>1. german => PriorityFallback \subseteq ClashServerTags
      BY DEF PriorityFallback, ClashServerTags, TagsAt
    <3> QED BY <2>2, <3>1
  <2>4. routing.names = names /\ ~routing.balanced /\ routing.balancers = {}
    BY DEF PlainRouting
  <2>5. ~PlainRouting({}).balanced /\ PlainRouting({}).balancers = {} /\ PlainRouting({}).names = {}
    BY DEF PlainRouting
  <2> HIDE DEF names, T, routing, outs
  <2>6. german => Sound(outs, T, routing)
    BY <2>2, <2>3, <2>4 DEF Sound
  <2>7. Sound(outs, T, PlainRouting({}))
    BY <2>2, <2>5 DEF Sound
  <2>8. IsInjective([j \in DOMAIN outs |-> outs[j].tag])
    BY <2>7, SoundResolves DEF Loads, Config
  <2>9. Loads(Config(outs, routing))
    BY <2>4, <2>8 DEF Loads, Config
  <2> QED BY <2>1, <2>6, <2>9, SoundResolves
<1>2. CASE ~Active
  <2>1. PICK a : a = <<"clash", "PROXY">>
    OBVIOUS
  <2>2. PICK o : o = Group(a)
    OBVIOUS
  <2>3. o.tag = a /\ a # Direct.tag
    <3>1. a[1] = "clash"
      BY <2>1
    <3>4. PICK d : d = <<"direct", "">>
      OBVIOUS
    <3>2. d = Direct.tag
      BY <3>4, FixedTags
    <3>3. d[1] = "direct"
      BY <3>4
    <3> QED BY <2>2, <3>1, <3>2, <3>3, FixedTags
  <2>4. Listed(<<o, Direct>>, {a, Direct.tag})
    BY <2>3 DEF Listed, TagsOf, ToSet
  <2>5. PICK outs, T, routing :
          outs = <<o, Direct>> /\ T = {a, Direct.tag} /\ routing = PlainRouting({Direct.tag})
    OBVIOUS
  <2>6. Sound(outs, T, routing)
    BY <2>4, <2>5 DEF Sound, PlainRouting
  <2>7. Clash = Config(outs, routing)
    BY <1>2, <2>1, <2>2, <2>5 DEF Clash
  <2> QED BY <2>6, <2>7, SoundResolves
<1> QED BY <1>1, <1>2

(* Streisand: nothing refers to anything. *)
LEMMA StreisandFine == Loads(Streisand) /\ Named(Streisand)
<1>1. PICK routing : routing = PlainRouting({})
  OBVIOUS
<1>2. routing.names = {} /\ ~routing.balanced /\ routing.balancers = {}
  BY <1>1 DEF PlainRouting
<1>3. Sound(LinkOuts, LinkTags, routing) /\ Sound(<<>>, {}, routing)
  BY <1>2, LinksListed, ListedNone DEF Sound
<1>4. Streisand = Config(LinkOuts, routing) \/ Streisand = Config(<<>>, routing)
  BY <1>1 DEF Streisand, LinkOuts, LinkKinds
<1> QED BY <1>3, <1>4, SoundResolves

(* Every answer keeps what has to be true of the references. *)
LEMMA AnswersResolve ==
  ASSUME ResolveInv, [ConfigNext]_configVars PROVE ResolveInv'
<1>1. ConfigTypes /\ NewExtras(extras)
  BY DEF ResolveInv
<1>2. ASSUME NEW asked, NEW configs, Answer(asked, configs), Resolves(configs)
      PROVE  ResolveInv'
  BY <1>2, AnswerResolves DEF Resolves
<1>3. ASSUME NEW config, Loads(config), Named(config) PROVE Resolves(<<config>>)
  <2>1. PICK configs : configs = <<config>>
    OBVIOUS
  <2>2. \A i \in DOMAIN configs : configs[i] = config
    BY <2>1
  <2> QED BY <1>3, <2>1, <2>2 DEF Resolves
<1>4. CASE ServeExtended
  <2>1. CASE Answer("json", Extended(FourProfiles("split-ru")))
    BY <1>1, <1>2, <2>1, ProfilesFine DEF Fine
  <2>2. CASE Answer("json-global", Extended(FourProfiles("global")))
    BY <1>1, <1>2, <2>2, ProfilesFine DEF Fine
  <2>3. CASE Answer("json-xhttp-test", Extended(XhttpTests))
    BY <1>1, <1>2, <2>3, SmallFine DEF Fine
  <2>4. CASE Answer("json-relay", Extended(<<Portable("split-ru")>>))
    BY <1>1, <1>2, <2>4, SmallFine DEF Fine
  <2>5. CASE Answer("json-google", Extended(<<Portable("global")>>))
    BY <1>1, <1>2, <2>5, SmallFine DEF Fine
  <2>6. CASE Answer("json-nl-test-fp", Extended(TestFp))
    BY <1>1, <1>2, <2>6, SmallFine DEF Fine
  <2>7. CASE Answer("json-dual-auto-test", Extended(<<DualAuto>>))
    BY <1>1, <1>2, <2>7, SmallFine DEF Fine
  <2>8. CASE Answer("json-hybrid", Extended(<<Hybrid>>))
    BY <1>1, <1>2, <2>8, SmallFine DEF Fine
  <2>9. CASE Answer("raw", <<Raw>>)
    BY <1>1, <1>2, <1>3, <2>9, SinglesFine
  <2> QED BY <1>4, <2>1, <2>2, <2>3, <2>4, <2>5, <2>6, <2>7, <2>8, <2>9 DEF ServeExtended
<1>5. CASE ServeAsBuilt
  <2>1. CASE Answer("singbox", <<SingBox>>)
    BY <1>1, <1>2, <1>3, <2>1, SmartFine
  <2>2. CASE Answer("clash", <<Clash>>)
    <3>1. PICK configs : configs = <<Clash>>
      OBVIOUS
    <3>2. \A i \in DOMAIN configs : configs[i] = Clash
      BY <3>1
    <3>3. \A i \in DOMAIN configs : Loads(configs[i]) /\ (Named(configs[i]) \/ ~german)
      BY <3>2, ClashFine
    <3> QED BY <2>2, <3>1, <3>3, AnswerResolves
  <2>3. CASE Answer("streisand", <<Streisand>>)
    BY <1>2, <1>3, <2>3, StreisandFine
  <2>4. CASE Answer("internal-fragment", FourProfiles("split-ru"))
    BY <1>1, <1>2, <2>4, ProfilesFine DEF Fine
  <2>5. CASE Answer("json-xhttp-tcp-caddy-test", CaddyTest)
    BY <1>1, <1>2, <2>5, SmallFine DEF Fine
  <2>6. CASE Answer("json-dual-test", DualTest)
    BY <1>1, <1>2, <2>6, SmallFine DEF Fine
  <2>7. CASE Answer("json-auto-wifi-first-test", <<WifiFirst>>)
    BY <1>1, <1>2, <2>7, SmallFine DEF Fine
  <2>8. CASE Answer("json-sosproxy", <<Sosproxy, Sosproxy, Sosproxy>>)
    BY <1>1, <1>2, <2>8, SmallFine DEF Fine
  <2> QED BY <1>5, <2>1, <2>2, <2>3, <2>4, <2>5, <2>6, <2>7, <2>8 DEF ServeAsBuilt
<1>6. CASE UNCHANGED configVars
  <2>1. /\ panelEnds' = panelEnds /\ shopEnds' = shopEnds /\ shopRead' = shopRead /\ clientOn' = clientOn
        /\ german' = german /\ extras' = extras /\ route' = route /\ answer' = answer
    BY <1>6 DEF configVars
  <2>2. ConfigTypes'
    BY <1>1, <2>1 DEF ConfigTypes, Moments, Never, Past, Present, Future
  <2>3. ReferencesResolve' /\ NewExtras(extras)'
    BY <2>1 DEF ResolveInv, ReferencesResolve
  <2> QED BY <2>2, <2>3 DEF ResolveInv
<1> QED BY <1>4, <1>5, <1>6 DEF ConfigNext

(* ReferencesResolve of ClientConfigs, for every file of extra outbounds whose tags
   are new and differ from each other (load_extra_outbounds does not look at them):
   an application is never given a configuration with a tag twice, a rule, group or
   detour that names nothing, or a balancer without a server to fall back to, but
   for Clash without a German host. *)
THEOREM EveryReferenceResolves ==
  ASSUME \A e \in ExtraFiles : NewExtras(e) PROVE ConfigSpec => []ReferencesResolve
<1>1. ConfigInit => ResolveInv
  <2>1. SUFFICES ASSUME ConfigInit PROVE ResolveInv
    OBVIOUS
  <2>2. ConfigTypes /\ NewExtras(extras)
    BY <2>1, ConfigAssumption DEF ConfigInit, ConfigTypes
  <2>3. ReferencesResolve
    BY <2>1 DEF ConfigInit, ReferencesResolve
  <2> QED BY <2>2, <2>3 DEF ResolveInv
<1>2. ResolveInv /\ [ConfigNext]_configVars => ResolveInv'
  BY AnswersResolve
<1>3. ResolveInv => ReferencesResolve
  BY DEF ResolveInv
<1> QED BY <1>1, <1>2, <1>3, PTL DEF ConfigSpec
=============================================================================
