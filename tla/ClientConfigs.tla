---------------------------- MODULE ClientConfigs ----------------------------
(***************************************************************************)
(* The subscription service: what a customer's VPN application is given    *)
(* when it fetches a subscription. A configuration is put together from    *)
(* parts that name one another by tag (outbounds, groups, routing rules,   *)
(* balancers, the detours of DNS servers), and is then changed: Germany is *)
(* added where it has a host, tags are replaced by readable ones, the      *)
(* outbounds of a file are inserted and the routing rewritten for them.    *)
(*                                                                         *)
(* An outbound is its tag and what kind it is. A tag is a pair, <<"nl",    *)
(* "fast-tcp">> for nl-fast-tcp. Hosts, keys and ports are left out.       *)
(***************************************************************************)
EXTENDS Integers, SequencesExt

CONSTANT ExtraFiles \* what EXTRA_OUTBOUNDS_PATH may hold for the subscription: sequences of tags

ASSUME ConfigAssumption == \A e \in ExtraFiles : e \in Seq(ToSet(e))

VARIABLES
  panelEnds, \* expiry of the client in x-ui: Never, Past or Future
  shopEnds,  \* expires_at of its profile in the shop's database, likewise
  shopRead,  \* the shop's database can be read
  clientOn,  \* the client is enabled in its inbound
  statsOn,   \* client_traffics.enable
  german,    \* a host of the German node is configured
  extras,    \* load_extra_outbounds
  route,     \* what was asked for last
  answer     \* the configurations it was answered with

configVars == <<panelEnds, shopEnds, shopRead, clientOn, statsOn, german, extras, route, answer>>

Never == 0
Past == 1
Present == 2
Future == 3
Moments == {Never, Past, Future}
-----------------------------------------------------------------------------
(* Parts of a configuration. `names' are the tags that its rules, groups and
   detours refer to; a balancer chooses among the outbounds whose tag begins
   with `selects' (<<"proxy", TRUE>> for proxy-, <<"proxy", FALSE>> for proxy). *)
Server(tag) == [tag |-> tag, kind |-> "server"]
Group(tag) == [tag |-> tag, kind |-> "group"]
Direct == [tag |-> <<"direct", "">>, kind |-> "freedom"]
Block == [tag |-> <<"block", "">>, kind |-> "blackhole"]
Servers(place, kinds) == [i \in DOMAIN kinds |-> Server(<<place, kinds[i]>>)]
TagsOf(outs) == {outs[i].tag : i \in DOMAIN outs}

PlainRouting(names) == [names |-> names, balanced |-> FALSE, balancers |-> {}]

(* build_routing: only the split mode has rules for the proxy. *)
Routing(mode) == PlainRouting(
  {Direct.tag, Block.tag} \cup (IF mode = "split-ru" THEN {<<"proxy", "">>} ELSE {}))

(* build_balanced_routing: the proxy's rules go to the balancer, and so does a last one. *)
BalancedRouting(mode, selects, fallback) ==
  [names |-> Routing(mode).names \ {<<"proxy", "">>}, balanced |-> TRUE,
   balancers |-> {[selects |-> selects, fallback |-> fallback]}]

Config(outs, routing) == [outs |-> outs, routing |-> routing]

(* What a configuration has only if there is a German host *)
German(parts) == IF german THEN parts ELSE <<>>

(* Faulty variant of the next definition: the shop is asked only when the panel
   knows no end. *)
_SubscriptionEnds == IF shopRead /\ panelEnds = Never THEN shopEnds ELSE panelEnds
(* subscription_summary: the shop's expiry counts if it is the later one and the
   shop's database can be read; a failure to read it is passed over. *)
SubscriptionEnds == IF shopRead /\ shopEnds > panelEnds THEN shopEnds ELSE panelEnds
Expired == SubscriptionEnds # Never /\ SubscriptionEnds < Present
Active == clientOn /\ ~Expired

(* build_expired_dummy_profile *)
ExpiredDummy == Config(<<[tag |-> <<"proxy", "">>, kind |-> "blackhole"]>>, PlainRouting({}))

(* build_portable_client_config, build_ws443_client_config, each profile of
   build_four_profiles but the first *)
Portable(mode) == Config(<<Server(<<"proxy", "">>), Direct, Block>>, Routing(mode))

(* build_dual_test_client_configs and build_test_fp_profiles (twice as many with a relay) *)
DualTest == <<Portable("split-ru"), Portable("split-ru")>>
TestFp == <<Portable("split-ru"), Portable("split-ru")>>

(* build_raw_client_config: one outbound without a tag *)
Raw == Config(<<Server(<<"", "">>)>>, PlainRouting({}))

(* build_sosproxy_client_config *)
Sosproxy == Config(<<Server(<<"proxy", "">>), Direct, Block>>,
                   PlainRouting({Direct.tag, <<"proxy", "">>}))

(* build_xhttp_test_profiles, build_xhttp_tcp_caddy_test_profile: made from the
   static files json-nl-maxru-xhttp and json-frankfurt-xhttp *)
NlXhttp == Config(<<Server(<<"proxy", "">>), Direct, Block>>, PlainRouting({Direct.tag, Block.tag}))
XhttpTests == IF Active THEN <<NlXhttp, NlXhttp, NlXhttp, Portable("split-ru"), Portable("split-ru")>>
              ELSE <<ExpiredDummy>>
CaddyTest == IF Active THEN <<NlXhttp>> ELSE <<ExpiredDummy>>

(* build_dual_auto_test_client_config, and the same with Wi-Fi first *)
ProxyTags(kinds) == Servers("proxy", kinds) \o <<Direct, Block>>
DualAuto == Config(ProxyTags(<<"tcp", "wifi">>),
                   BalancedRouting("split-ru", <<"proxy", TRUE>>, <<"proxy", "tcp">>))
WifiFirst == Config(ProxyTags(<<"wifi", "tcp">>),
                    BalancedRouting("split-ru", <<"proxy", TRUE>>, <<"proxy", "wifi">>))

(* build_hybrid_client_config *)
Hybrid == Config(ProxyTags(<<"tcp", "xhttp", "wifi">>),
                 BalancedRouting("split-ru", <<"proxy", TRUE>>, <<"proxy", "tcp">>))

(* build_xray_auto_balancer_profile and build_four_profiles *)
AutoBalancer(mode) == Config(
  Servers("node", <<"nl-classic", "nl-fast", "nl-grpc", "fi-classic", "fi-fast", "fi-grpc">>)
    \o <<Direct, Block>>,
  BalancedRouting(mode, <<"node", TRUE>>, <<"node", "nl-classic">>))

(* TCP twice, Hysteria and gRPC; the XHTTP profiles are built and left out. *)
NlProfiles(mode) == [i \in 1..4 |-> Portable(mode)]
FiProfiles(mode) == NlProfiles(mode)
DeProfiles(mode) == German(NlProfiles(mode))

FourProfiles(mode) ==
  IF Active
  THEN <<AutoBalancer(mode)>> \o NlProfiles(mode) \o FiProfiles(mode) \o DeProfiles(mode)
  ELSE <<ExpiredDummy>>
-----------------------------------------------------------------------------
(* build_singbox_smart_config *)
Protocols == <<"classic-tcp", "fast-tcp", "speed-hysteria2", "backup-grpc">>
Selector == <<"proxy", "selector">>
UrlTest == <<"auto", "urltest">>

SmartNodes == Servers("nl", Protocols) \o Servers("fi", Protocols)
SmartFallbacks ==
  <<Server(<<"nl", "ws443">>), Server(<<"fi", "ws443">>)>>
    \o [i \in 1..3 |-> Server(<< <<"nl", "pl", "fi">>[i], "openflux-socks">>)]
SmartGermans == German(Servers("de", Protocols \o <<"ws443">>))

(* What its two groups offer, each in a list of its own *)
SelectorOffers ==
  {UrlTest, Direct.tag}
    \cup {<<place, p>> : place \in {"nl", "fi"}, p \in ToSet(Protocols) \cup {"ws443", "openflux-socks"}}
    \cup {<<"pl", "openflux-socks">>}
    \cup (IF german THEN {<<"de", p>> : p \in ToSet(Protocols) \cup {"ws443"}} ELSE {})
UrlTestOffers ==
  {<<"nl", p>> : p \in ToSet(Protocols) \ {"backup-grpc"}} \cup {<<"fi", "classic-tcp">>}
    \cup (IF german THEN {<<"de", p>> : p \in ToSet(Protocols)} ELSE {})

(* Faulty variant of the next definition: the selector gets a readable name too. *)
_HappName(tag) == IF tag[1] = "pl" THEN <<"DE", tag[2]>> ELSE <<"readable", tag>>
(* happ_tag_map: de and pl come out the same; the selector keeps its tag. *)
HappName(tag) ==
  IF tag = Selector THEN tag
  ELSE IF tag[1] \in {"de", "pl"} THEN <<"DE", tag[2]>>
  ELSE <<"readable", tag>>

(* The map is applied to outbounds, groups and rules; the DNS servers' detour and
   the final route name the selector as it is. *)
SingBox ==
  IF Active
  THEN LET outs == <<Group(Selector), Group(UrlTest)>> \o SmartNodes \o SmartFallbacks
                     \o SmartGermans \o <<Direct>>
           mapped == SelectorOffers \cup UrlTestOffers \cup {Direct.tag}
       IN Config([i \in DOMAIN outs |-> [outs[i] EXCEPT !.tag = HappName(@)]],
                 PlainRouting({HappName(t) : t \in mapped} \cup {Selector}))
  ELSE ExpiredDummy

(* build_clash_meta_config: DIRECT is built into the application. *)
ClashProxies == Servers("nl", Protocols) \o Servers("fi", Protocols)
ClashGermans == German(Servers("de", Protocols))
ClashGroups == <<Group(<<"clash", "PROXY">>), Group(<<"clash", "auto">>), Group(<<"clash", "fallback">>)>>
PriorityFallback == {<<place, p>> : place \in {"nl", "fi", "de"}, p \in ToSet(Protocols)}
Clash ==
  IF Active
  THEN LET outs == ClashProxies \o ClashGermans \o Servers("socks", <<"nl", "de">>)
       IN Config(outs \o ClashGroups \o <<Direct>>,
                 PlainRouting(TagsOf(outs) \cup TagsOf(ClashGroups) \cup PriorityFallback \cup {Direct.tag}))
  ELSE Config(<<Group(<<"clash", "PROXY">>), Direct>>, PlainRouting({Direct.tag}))

(* build_streisand_bundle: a list of links that refer to nothing *)
Streisand ==
  LET kinds == Protocols \o <<"xhttp">>
  IN IF Active
     THEN Config(Servers("nl", kinds) \o Servers("fi", kinds) \o German(Servers("de", kinds)), PlainRouting({}))
     ELSE Config(<<>>, PlainRouting({}))
-----------------------------------------------------------------------------
IsServer(out) == out.kind = "server"
ServersIn(config) == {j \in DOMAIN config.outs : IsServer(config.outs[j])}
ServerTags(config) == {config.outs[j].tag : j \in ServersIn(config)}
IsEnd(out) == out.tag \in {Direct.tag, Block.tag}

(* append_extra_outbounds: the extra outbounds go before `direct'; with more than
   one server, whatever was routed to a server goes to a balancer over `proxy'. *)
WithExtras(config) ==
  LET ends == {j \in DOMAIN config.outs : IsEnd(config.outs[j])}
      at == IF ends = {} THEN Len(config.outs) ELSE Min(ends) - 1
      added == [config EXCEPT !.outs =
                  SubSeq(@, 1, at) \o [i \in DOMAIN extras |-> Server(extras[i])]
                    \o SubSeq(@, at + 1, Len(@))]
  IN IF extras = <<>> THEN config
     ELSE IF Cardinality(ServersIn(added)) <= 1 THEN added
     ELSE [added EXCEPT !.routing =
             [names |-> @.names \ ServerTags(added), balanced |-> TRUE,
              balancers |-> {[selects |-> <<"proxy", FALSE>>,
                              fallback |-> added.outs[Min(ServersIn(added))].tag]}]]

Extended(configs) == [i \in DOMAIN configs |-> WithExtras(configs[i])]
-----------------------------------------------------------------------------
ConfigTypeOK ==
  /\ panelEnds \in Moments /\ shopEnds \in Moments
  /\ shopRead \in BOOLEAN /\ clientOn \in BOOLEAN /\ statsOn \in BOOLEAN /\ german \in BOOLEAN
  /\ extras \in ExtraFiles
  /\ \A i \in DOMAIN answer : DOMAIN answer[i] = {"outs", "routing"}

ConfigInit ==
  /\ panelEnds \in Moments /\ shopEnds \in Moments
  /\ shopRead \in BOOLEAN /\ clientOn \in BOOLEAN /\ statsOn \in BOOLEAN /\ german \in BOOLEAN
  /\ extras \in ExtraFiles
  /\ route = "none" /\ answer = <<>>

(* A request is answered, and subscription_summary, which its headers or its
   contents need, switches on the statistics of a client that is active. *)
Answer(asked, configs) ==
  /\ route' = asked
  /\ answer' = configs
  /\ statsOn' = (statsOn \/ Active)
  /\ UNCHANGED <<panelEnds, shopEnds, shopRead, clientOn, german, extras>>

(* The routes of do_GET that go through _send_subscription_json, one for each
   builder and mode *)
ServeExtended ==
  \/ Answer("json", Extended(FourProfiles("split-ru")))
  \/ Answer("json-global", Extended(FourProfiles("global")))
  \/ Answer("json-relay", Extended(<<Portable("split-ru")>>))
  \/ Answer("json-google", Extended(<<Portable("global")>>))
  \/ Answer("json-nl-test-fp", Extended(TestFp))
  \/ Answer("json-xhttp-test", Extended(XhttpTests))
  \/ Answer("json-dual-auto-test", Extended(<<DualAuto>>))
  \/ Answer("json-hybrid", Extended(<<Hybrid>>))
  \/ Answer("raw", <<Raw>>)

(* Those that are sent as they were built *)
ServeAsBuilt ==
  \/ Answer("singbox", <<SingBox>>)
  \/ Answer("clash", <<Clash>>)
  \/ Answer("streisand", <<Streisand>>)
  \/ Answer("internal-fragment", FourProfiles("split-ru"))
  \/ Answer("json-dual-test", DualTest)
  \/ Answer("json-auto-wifi-first-test", <<WifiFirst>>)
  \/ Answer("json-xhttp-tcp-caddy-test", CaddyTest)
  \/ Answer("json-sosproxy", <<Sosproxy, Sosproxy, Sosproxy>>)

ConfigNext == ServeExtended \/ ServeAsBuilt

ConfigSpec == ConfigInit /\ [][ConfigNext]_configVars
-----------------------------------------------------------------------------
(* Every configuration can be loaded: no tag is there twice, every rule, group and
   detour names something that is there, a rule goes to a balancer only if there
   is one, and a balancer that finds no candidate has a server to fall back to.
   The code breaks this for Clash without a German host: the fallback group lists
   German servers all the same. *)
ReferencesResolve ==
  \A i \in DOMAIN answer :
    LET config == answer[i]
    IN /\ IsInjective([j \in DOMAIN config.outs |-> config.outs[j].tag])
       /\ config.routing.names \subseteq TagsOf(config.outs) \/ (route = "clash" /\ ~german)
       /\ config.routing.balanced => config.routing.balancers # {}
       /\ \A b \in config.routing.balancers : b.fallback \in ServerTags(config)

(* On the routes that look at the subscription's state, a customer gets servers
   exactly if his client is enabled and one of the two databases still gives him
   time or none of them knows an end: a panel that has not heard of a renewal yet
   does not turn a paying customer away. The code breaks this in two cases. While
   the shop's database cannot be read the panel decides alone, and does turn him
   away; and an expired subscription with several extra outbounds gets them, for
   they come with a balancer. *)
ServesThePaid ==
  LET ends == IF shopRead THEN {panelEnds, shopEnds} ELSE {panelEnds}
      paid == clientOn /\ (Future \in ends \/ ends = {Never})
      served == \E i \in DOMAIN answer :
                  LET config == answer[i]
                  IN \/ config.routing.balanced
                     \/ ServersIn(config) # {} /\ config.outs[1].kind # "blackhole"
  IN route \in {"json", "json-global", "singbox", "clash", "streisand", "internal-fragment",
                "json-xhttp-test", "json-xhttp-tcp-caddy-test"}
       => (served <=> paid) \/ (~paid /\ Len(extras) > 1)
=============================================================================
