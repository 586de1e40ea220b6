------------------------------- MODULE MCBgp -------------------------------
(***************************************************************************)
(* For TLC: BGP.  The routes of a channel; the session between two         *)
(* routers; route flap dampening; and what is computed without any state:  *)
(* the negotiation, attributes, NLRI and next hops of messages, for which  *)
(* each input is an initial state.  The parts share no state: a behaviour  *)
(* is one of the part that runs.                                           *)
(***************************************************************************)
EXTENDS BgpUpdates, TLC

CONSTANTS r1, r2

VARIABLES part, scenario, bgp, link, faults, s, rib, resent, phase, done

session_vars == <<bgp, link, faults>>          \* and scenario
damp_vars == <<s, rib, resent, phase, done>>   \* and scenario
MCVars == <<vars, part, scenario, session_vars, damp_vars>>

ChannelConf(gr, llgr, stale, c, r, b) ==
  [gr |-> gr, llgr |-> llgr, stale_time |-> stale, enhanced_refresh |-> TRUE,
   changes |-> c, requests |-> r, breaks |-> b]

\* Two graceful restarts; route refresh; a refresh and a restart; a restart of
\* which only other channels are long-lived.
MCConfigs ==
  {ChannelConf(TRUE, TRUE, TRUE, 2, 0, 2), ChannelConf(FALSE, FALSE, FALSE, 2, 1, 0),
   ChannelConf(TRUE, FALSE, FALSE, 1, 1, 1), ChannelConf(TRUE, TRUE, FALSE, 1, 0, 1)}

----------------------------------------------------------------------------
\* Two active routers without faults, and one that waits, with faults.
SessionConf(same, passive, gr, llgr, f) ==
  [id |-> r1 :> 1 @@ r2 :> (IF same THEN 1 ELSE 2), passive |-> passive, gr_ready |-> gr,
   llgr_ready |-> llgr, faults |-> f]
SessionConfigs ==
  {SessionConf(same, {}, {}, {}, 0) : same \in BOOLEAN} \cup
  {SessionConf(FALSE, {r2}, {r1}, llgr, 1) : llgr \in {{}, {r1}}} \cup
  {SessionConf(FALSE, {r2}, {}, {}, 2)}

Session == INSTANCE BgpSession WITH
  Routers <- {r1, r2}, As <- r1 :> 2 @@ r2 :> 1, Links <- {"l1", "l2"},
  Configs <- SessionConfigs, conf <- scenario

\* The ratios of the default parameters; the neighbor refreshes and restarts.
Flapping ==
  [half_life |-> 6, reuse_limit |-> 6, suppress_value |-> 16, max_suppress_time |-> 12,
   top |-> 13, updates |-> 4, refreshes |-> 1, restarts |-> 1, graceful |-> FALSE]
DampConfigs ==
  {Flapping, [Flapping EXCEPT !.graceful = TRUE, !.updates = 3, !.restarts = 1, !.refreshes = 0]}

Damp == INSTANCE BgpDamp WITH
  Nets <- {1}, Attrs <- {1, 2}, Configs <- DampConfigs, conf <- scenario

----------------------------------------------------------------------------
(* OPEN messages: a family of configurations for each router, of which one *)
(* has a 4-byte AS number.                                                 *)
Packets == INSTANCE BgpPackets WITH Afis <- {"ipv4", "ipv6"}

OpenBase(as, id) ==
  [capabilities |-> TRUE, channels |-> {"ipv4"}, ext_next_hop |-> FALSE, add_path |-> {},
   gr_able |-> FALSE, gr_recovery |-> FALSE, llgr_able |-> FALSE, enable_as4 |-> TRUE,
   public_as |-> as, local_as |-> as, remote_as |-> 0, is_internal |-> FALSE, id |-> id,
   enable_extended_messages |-> FALSE, enable_refresh |-> TRUE, enable_enhanced_refresh |-> TRUE,
   local_role |-> "UNDEFINED", gr_mode |-> FALSE, llgr_mode |-> FALSE, hold_time |-> 240,
   keepalive_time |-> 0, min_hold_time |-> 0, min_keepalive_time |-> 0, require |-> {},
   mandatory |-> {}, require_add_path |-> FALSE, require_roles |-> FALSE]
Variations(c) ==
  {c, [c EXCEPT !.add_path = {"RX"}],
   [c EXCEPT !.add_path = {"RX", "TX"}, !.require_add_path = TRUE],
   [c EXCEPT !.ext_next_hop = TRUE], [c EXCEPT !.enable_as4 = FALSE],
   [c EXCEPT !.gr_mode = TRUE, !.gr_able = TRUE, !.llgr_mode = TRUE, !.llgr_able = TRUE],
   [c EXCEPT !.local_role = "PEER"],
   [c EXCEPT !.local_role = "CUSTOMER", !.require_roles = TRUE],
   [c EXCEPT !.hold_time = 9, !.min_keepalive_time = 2], [c EXCEPT !.hold_time = 0],
   [c EXCEPT !.hold_time = 3, !.keepalive_time = 1],
   [c EXCEPT !.enable_extended_messages = TRUE, !.enable_refresh = FALSE]}
OpenConfigs(as, id) ==
  {c \in UNION {Variations([OpenBase(as, id) EXCEPT !.capabilities = b, !.channels = ch]) :
                  b \in BOOLEAN, ch \in {{"ipv4"}, {"ipv6"}, {"ipv4", "ipv6"}}} :
     Packets!bgp_postconfig(c)}

(* Attributes: sessions between routers of an AS, of two ones and of a     *)
(* confederation; AS 9, 10 and 12 do not fit in two bytes.                 *)
Msg == INSTANCE BgpAttrs WITH
  AS16 <- 8, AS_TRANS <- 6, SegMax <- 2, IGP_METRIC_UNKNOWN <- 12, BGP_AIGP_MAX <- 15,
  MaxLabel <- 20, MaxNlriBits <- 255

Seg(t, as) == [t |-> t, as |-> as]
Router(id, as, confed, cluster) == [id |-> id, as |-> as, confed |-> confed, cluster |-> cluster]
Neighbor ==
  [rr_client |-> FALSE, rs_client |-> FALSE, as4_session |-> TRUE, local_role |-> "UNDEFINED",
   role_applicable |-> TRUE, allow_as_sets |-> TRUE, enforce_first_as |-> FALSE,
   allow_local_as |-> 0, allow_local_pref |-> FALSE, allow_med |-> FALSE,
   interpret_communities |-> TRUE, llgr_aware |-> FALSE, aigp |-> FALSE,
   aigp_originate |-> FALSE, default_local_pref |-> 100, mpls |-> FALSE]
Attribute(v, f) == [v |-> v, flags |-> f, originated |-> FALSE, fresh |-> FALSE]
At(c, v) == c :> Attribute(v, Msg!AttrTable[c])
MsgPaths ==
  {<< >>, <<Seg("SEQUENCE", <<3>>)>>, <<Seg("SEQUENCE", <<9, 3>>)>>,
   <<Seg("SEQUENCE", <<9>>), Seg("SET", <<3, 10>>)>>,
   <<Seg("SET", <<3>>), Seg("SEQUENCE", <<9, 10>>)>>}
Mandatory(path) == At("ORIGIN", 0) @@ At("AS_PATH", path) @@ At("NEXT_HOP", "local")
Optional ==
  {<< >>,
   At("AGGREGATOR", <<9, 1>>) @@ At("ATOMIC_AGGR", 1) @@ At("COMMUNITY", <<<<3>>, <<2>>>>),
   At("LOCAL_PREF", 50) @@ At("EXT_COMMUNITY", <<<<70, 1>>, <<5, 1>>>>)
     @@ At("MULTI_EXIT_DISC", 3),
   At("AIGP", <<[t |-> 1, v |-> 5], [t |-> 3, v |-> 0]>>) @@ ("250" :> Attribute(1, {"O", "T"}))
     @@ ("251" :> Attribute(1, {"O"})) @@ At("LARGE_COMMUNITY", <<<<2, 2, 2>>, <<1, 2, 3>>>>),
   At("ONLY_TO_CUSTOMER", 3),
   At("COMMUNITY", <<<<Msg!NO_EXPORT>>>>) @@ At("AGGREGATOR", <<3, 1>>)
     @@ ("MULTI_EXIT_DISC" :> [Attribute(3, {"O"}) EXCEPT !.fresh = TRUE])}
Export(src, attrs) ==
  [src |-> src, attrs |-> attrs, rts_bgp |-> src.bgp, igp_metric |-> 2, resolvable |-> TRUE,
   nlri_bits |-> 24, flow_invalid |-> FALSE, local_next_hop |-> TRUE]
MsgRouters ==
  {Router(1, 1, 0, 0), Router(2, 2, 0, 0), Router(9, 12, 0, 0), Router(3, 1, 0, 0),
   Router(4, 4, 6, 0), Router(5, 5, 6, 0)}
MsgSources == {Msg!NoSrc, Msg!Session(Router(1, 1, 0, 0), Router(7, 7, 0, 0), Neighbor)}
Roles == {<<"UNDEFINED", "UNDEFINED">>, <<"PROVIDER", "CUSTOMER">>,
          <<"CUSTOMER", "PROVIDER">>, <<"PEER", "PEER">>}

AttrsInput ==
  \E x, y \in MsgRouters, path \in MsgPaths, o \in Optional, as4 \in BOOLEAN,
    src \in MsgSources, via \in {<< >>, <<7>>, <<7, 3>>}, aigp \in BOOLEAN, role \in Roles :
    LET external == x.as # y.as /\ (x.confed = 0 \/ y.confed = 0)
        opts(r) == [Neighbor EXCEPT !.as4_session = as4, !.aigp = aigp, !.local_role = r]
    IN  /\ x # y
        /\ via # << >> => ~as4 /\ external
        /\ role[1] # "UNDEFINED" => external /\ via = << >> /\ as4
        /\ aigp => as4
        /\ src.bgp => x.id = 1
        /\ scenario = <<Msg!Session(x, y, opts(role[1])),
                        Export(src, IF path = << >> /\ ~src.bgp THEN o ELSE Mandatory(path) @@ o),
                        Msg!Session(y, x, opts(role[2])), via>>

(* Walks over four routers, of an AS with reflectors or of several ASes.   *)
Reflecting == {Router(1, 1, 0, 0), Router(2, 1, 0, 0), Router(3, 1, 0, 8), Router(4, 1, 0, 8)}
Clients ==
  {{}, {<<2, 1>>}, {<<2, 3>>, <<3, 4>>}, {<<2, 3>>, <<3, 4>>, <<4, 2>>}, {<<2, 3>>, <<3, 2>>},
   {<<1, 2>>, <<2, 3>>, <<3, 4>>, <<4, 1>>}, {<<2, 4>>, <<3, 4>>, <<2, 1>>}}
Several == {Router(1, 1, 0, 0), Router(2, 2, 0, 0), Router(3, 4, 6, 0), Router(4, 5, 6, 0)}
Hop(x, y, cli) ==
  [p |-> Msg!Session(x, y, [Neighbor EXCEPT !.rr_client = <<x.id, y.id>> \in cli]),
   q |-> Msg!Session(y, x, [Neighbor EXCEPT !.rr_client = <<y.id, x.id>> \in cli])]

LoopsInput ==
  \E f \in {<<Reflecting, Clients>>, <<Several, {{}}>>} :
    \E cli \in f[2], w \in [1..6 -> f[1]], src \in MsgSources :
      /\ w[1].id = 1 /\ \A i \in 1..5 : w[i] # w[i + 1]
      /\ scenario = <<[i \in 1..5 |-> Hop(w[i], w[i + 1], cli)], Export(src, Mandatory(<< >>))>>

(* NLRI: two messages' worth of networks of each kind, with the longest    *)
(* stacks of labels, in messages that are too small and large enough.      *)
Px(t, l, x) == [t |-> t, pxlen |-> l, prefix |-> x]
NlriNets(k) ==
  CASE k = "ip4" -> {Px(k, 0, 0), Px(k, 32, 1), Px(k, 17, 2)}
    [] k = "ip6" -> {Px(k, 0, 0), Px(k, 128, 1), Px(k, 9, 2)}
    [] k = "vpn4" -> {Px(k, 0, 0) @@ [rd |-> 5], Px(k, 32, 1) @@ [rd |-> 5]}
    [] k = "vpn6" -> {Px(k, 0, 0) @@ [rd |-> 5], Px(k, 128, 1) @@ [rd |-> 5]}
    [] k \in {"flow4", "flow6"} -> {[t |-> k, len |-> l, valid |-> b] : l \in {3, 40}, b \in BOOLEAN}
    [] k = "evpn" ->
         {[t |-> "ead", rd |-> 1, esi |-> 2, tag |-> 3],
          [t |-> "mac", rd |-> 1, tag |-> 3, mac |-> 7, ip |-> Packets!NONE],
          [t |-> "mac", rd |-> 1, tag |-> 3, mac |-> 7, ip |-> <<6, 1>>],
          [t |-> "imet", rd |-> 1, tag |-> 3, rtr |-> <<4, 1>>],
          [t |-> "es", rd |-> 1, esi |-> 3, rtr |-> <<6, 1>>],
          [t |-> "prefix", len |-> 34, data |-> 1]}
LabelStacks(k) ==
  CASE k = "evpn" -> {Packets!NULL, <<4>>, <<4, 5>>, <<3>>}
    [] k = "vpn6" -> {<<3>>, <<4, 5>>}
    [] k = "ip6" -> {<<3>>, <<4, 5>>, <<4, 5, 6, 7, 8>>}
    [] OTHER -> {<<3>>, <<4, 5>>, [i \in 1..(IF k = "ip4" THEN 9 ELSE 6) |-> 4]}
Buckets(c) ==
  {[nets |-> << >>, labels |-> Packets!NULL]} \cup
  {[nets |-> <<<<n, 1>>, <<CHOOSE m \in NlriNets(c.kind) : TRUE, i>>>>,
    labels |-> IF c.reach THEN l ELSE Packets!NULL] :
      n \in NlriNets(c.kind), i \in {1, 2},
      l \in IF c.mpls THEN LabelStacks(c.kind) ELSE {Packets!NULL}}
IsFlow(k) == k \in {"flow4", "flow6"}
Small(c) == IF c.kind = "evpn" THEN 60 ELSE IF IsFlow(c.kind) THEN 50 ELSE 40

NlriInput ==
  \E k \in {"ip4", "ip6", "vpn4", "vpn6", "flow4", "flow6", "evpn"},
    m, ap, r, v \in BOOLEAN :
    LET c == [kind |-> k, mpls |-> k = "evpn" \/ m, add_path |-> ap, reach |-> r,
              validate |-> v, gw_mode |-> "direct"]
    IN  /\ IF IsFlow(k) THEN ~m ELSE ~v
        /\ k = "evpn" => m /\ (~ap \/ r)
        /\ \E b1, b2 \in Buckets(c), size \in {Small(c), 500} :
             scenario = <<c, <<b1, b2>>, size>>

(* Next hops: addresses are pairs of a family (4, 6, 10 for link-local)    *)
(* and a number; L1 is the link of the session.                            *)
Peering ==
  [bgp |-> TRUE, up |-> TRUE, is_internal |-> FALSE, is_interior |-> FALSE, vrf |-> "any",
   neigh |-> "L1", local_ip |-> <<6, 1>>, link_addr |-> <<10, 1>>, remote_ip |-> <<6, 2>>]
Peerings ==
  {[Peering EXCEPT !.neigh = n, !.is_interior = i, !.is_internal = i, !.local_ip = ip[1],
                   !.remote_ip = ip[2]] :
     n \in {"none", "L1"}, i \in BOOLEAN,
     ip \in {<<<<6, 1>>, <<6, 2>>>>, <<<<4, 1>>, <<4, 2>>>>, <<<<10, 1>>, <<10, 2>>>>}}
Families == {<<"ipv4", FALSE>>, <<"ipv4", TRUE>>, <<"ipv6", FALSE>>, <<"ipv6", TRUE>>,
             <<"l2vpn", FALSE>>}
HopChannels ==
  {[afi |-> f[1], vpn |-> f[2], mpls |-> f[2], ext_next_hop |-> x, next_hop_self |-> h[1],
    next_hop_keep |-> h[2], next_hop_addr |-> Packets!NONE, llnh_format |-> l,
    gw_mode |-> "direct", prefer |-> "global"] :
     f \in Families, x \in BOOLEAN, l \in {"native", "double"},
     h \in {<<"NO", "NO">>, <<"EBGP", "NO">>, <<"NO", "IBGP">>}}
LocalRoute ==
  [src |-> [bgp |-> FALSE], next_hop |-> Packets!NULL, stack |-> Packets!NULL, fresh |-> FALSE,
   dest |-> "unicast", gw |-> Packets!NONE, gw_vrf |-> "v1", iface |-> "L1", multi |-> FALSE,
   labels |-> << >>, label |-> Packets!NULL]
HopSources ==
  {[Peering EXCEPT !.neigh = n, !.is_internal = i, !.up = u] :
     n \in {"L1", "L2"}, i \in BOOLEAN, u \in BOOLEAN}
OnLink(n) ==
  IF n = "L1" THEN {<<<<4, 3>>>>, <<<<6, 3>>, <<10, 3>>>>, <<Packets!NONE, <<10, 3>>>>, <<<<6, 2>>>>}
              ELSE {<<<<4, 8>>>>, <<<<6, 8>>, <<10, 8>>>>}
HopRoutes ==
  UNION {{[LocalRoute EXCEPT !.src = src, !.next_hop = nh, !.stack = <<7>>, !.gw = nh[1],
                             !.iface = src.neigh] : nh \in OnLink(src.neigh)} : src \in HopSources}
  \cup {[LocalRoute EXCEPT !.gw = g, !.multi = m] :
          g \in {<<4, 3>>, <<6, 3>>, <<10, 3>>, Packets!NONE}, m \in BOOLEAN}
  \cup {[LocalRoute EXCEPT !.gw = g, !.iface = "L2"] : g \in {<<4, 8>>, <<6, 8>>}}
  \cup {[LocalRoute EXCEPT !.next_hop = nh, !.fresh = TRUE] :
          nh \in {<<<<4, 3>>>>, <<<<6, 8>>>>, <<<<6, 2>>>>}}
OwnAddrs == [ipv4 |-> <<4, 1>>, ipv6 |-> <<6, 1>>, l2vpn |-> Packets!NONE]
Scopes ==
  [a \in {4, 6, 10} \X {1, 3} |-> "link"] @@ [a \in {4, 6, 10} \X {2} |-> "host"]

HopsInput ==
  \E p \in Peerings, c \in HopChannels, e \in HopRoutes : scenario = <<p, c, e>>

----------------------------------------------------------------------------
NoSession == bgp = 0 /\ link = 0 /\ faults = 0
NoDamp == s = 0 /\ rib = 0 /\ resent = 0 /\ phase = 0 /\ done = 0

MCInit ==
  /\ Init
  /\ \/ part = "updates" /\ scenario = 0 /\ NoSession /\ NoDamp
     \/ part = "session" /\ Session!Init /\ NoDamp
     \/ part = "damp" /\ Damp!Init /\ NoSession
     \/ /\ NoSession /\ NoDamp
        /\ \/ part = "open" /\ \E x \in OpenConfigs(1, 1), y \in OpenConfigs(70000, 2) :
                                scenario = <<x, y>>
           \/ part = "attrs" /\ AttrsInput
           \/ part = "loops" /\ LoopsInput
           \/ part = "nlri" /\ NlriInput
           \/ part = "hops" /\ HopsInput
  /\ part # "updates" => conf = ChannelConf(FALSE, FALSE, FALSE, 2, 1, 0)

\* A neighbor, and a scenario, may come to its end.
Over == UNCHANGED MCVars

MCNext ==
  \/ part = "updates" /\ Next /\ UNCHANGED <<part, scenario, session_vars, damp_vars>>
  \/ part = "session" /\ Session!Next /\ UNCHANGED <<vars, part, damp_vars>>
  \/ part = "damp" /\ Damp!Next /\ UNCHANGED <<vars, part, session_vars>>
  \/ Over

\* The fairness of the channel and of the session.
MCSpec ==
  /\ MCInit /\ [][MCNext]_MCVars
  /\ WF_vars(part = "updates" /\ channel_feed_loop)
  /\ WF_vars(part = "updates" /\ bgp_fire_tx)
  /\ WF_vars(part = "updates" /\ bgp_rx)
  /\ WF_vars(part = "updates" /\ bgp_rx_route_refresh)
  /\ WF_vars(part = "updates" /\ SendRouteRefresh)
  /\ WF_vars(part = "updates" /\ \E f \in BOOLEAN : bgp_conn_enter_established_state(f))
  /\ \A r \in {r1, r2} :
       /\ WF_session_vars(part = "session" /\ Session!Events(r))
       /\ WF_session_vars(part = "session" /\ Session!SocketHooks(r))
       /\ WF_session_vars(part = "session" /\ Session!Timers(r))
       /\ \A c \in {"out", "in"} : WF_session_vars(part = "session" /\ Session!ConnHooks(r, c))

(* See BgpSession: one connection is up, connections and sockets belong    *)
(* together. See BgpDamp: only suppressed routes are held back, and not    *)
(* for ever.                                                               *)
SessionsRight ==
  /\ part = "session" => /\ Session!TypeOK /\ Session!OneConnection /\ Session!SocketsOwned
  /\ part = "damp" => Damp!DampRight

(* See BgpPackets and BgpAttrs: both routers take the same from the        *)
(* OPEN messages; a route keeps its attributes, networks and next hop on   *)
(* its way, but for the stray path ids that NlriFaithful names; and no     *)
(* route goes round in circles.                                            *)
MessagesRight ==
  /\ part = "open" => Packets!OpenAgrees(scenario[1], scenario[2])
  /\ part = "attrs" =>
       Msg!AttrsFaithful(scenario[1], scenario[2], scenario[3], scenario[4])
  /\ part = "loops" => Msg!LoopsStop(scenario[1], scenario[2])
  /\ part = "nlri" => Packets!NlriFaithful(scenario[1], scenario[2], scenario[3])
  /\ part = "hops" =>
       Packets!NextHopRight(scenario[1], scenario[2], scenario[3], OwnAddrs, scenario[2], Scopes)

(* See BgpSession: stopping ends, and the session comes up; see            *)
(* BgpUpdates: the receiver gets what is exported.                         *)
Progress ==
  /\ <>[](/\ part = "updates" => Received
          /\ part = "session" => Session!Up)
  /\ \A r \in {r1, r2} : []<>(part = "session" => ~Session!Stopping(r))
=============================================================================
