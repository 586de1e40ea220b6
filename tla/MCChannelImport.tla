-------------------------- MODULE MCChannelImport --------------------------
(***************************************************************************)
(* For TLC: the import of routes by a channel, with reloads and refreshes; *)
(* RPKI, which refreshes what it imported from a cache server; router      *)
(* advertisements; networks of Babel and of RIP routers, and the packets   *)
(* of Babel.  The parts share no state: a behaviour is one of the part     *)
(* that runs.                                                              *)
(***************************************************************************)
EXTENDS ChannelImport, Integers, Sequences, TLC

CONSTANTS n1, n2, n3

VARIABLES part, conf, c, server, ch, p, link, r, done

others == <<part, conf, c, server, ch, p, link, r, done>>
MCVars == <<vars, others>>

Setup(reload, refresh, restart) ==
    [reload |-> reload, refresh |-> refresh, restart |-> restart]

(* Reloads or enhanced route refresh, not both, with graceful restarts.    *)
MCNets == {n1, n2, n3}
MCSetups == {Setup(TRUE, FALSE, TRUE), Setup(FALSE, TRUE, TRUE)}

----------------------------------------------------------------------------
(* RPKI: records of each kind, versions of both sides, lost connections,   *)
(* lost history, mute servers, expiry, reconfigurations.                   *)
R4 == [t |-> "roa4", id |-> 8, max |-> 16]
R6 == [t |-> "roa6", id |-> 16, max |-> 32]
As == [t |-> "aspa", id |-> 3, max |-> 0]

RpkiBase ==
    [max_version |-> 3, min_version |-> 1, server |-> 3, strict |-> TRUE,
     ignore_max_length |-> FALSE, channels |-> {"roa4", "roa6", "aspa"}, data |-> {R4},
     avail |-> TRUE, early |-> 0, breaks |-> 0, expiries |-> 0, plans |-> << >>, mutes |-> 0,
     notifies |-> 0, updates |-> 0, forgets |-> 0, sessions |-> 0]
Changed ==
    [min_version |-> 1, max_version |-> 3, ignore_max_length |-> FALSE, intervals |-> FALSE,
     transport |-> FALSE]

RpkiConfigs ==
    {[RpkiBase EXCEPT !.breaks = 2, !.updates = 1, !.sessions = 1],
     [RpkiBase EXCEPT !.updates = 2, !.notifies = 1, !.forgets = 1, !.early = 1],
     [RpkiBase EXCEPT !.avail = FALSE, !.updates = 1, !.mutes = 1, !.expiries = 1, !.breaks = 1],
     [RpkiBase EXCEPT !.updates = 1, !.sessions = 1, !.notifies = 1, !.early = 1],
     [RpkiBase EXCEPT !.server = 2, !.updates = 1,
        !.plans = <<[Changed EXCEPT !.min_version = 3], [Changed EXCEPT !.min_version = 2]>>],
     [RpkiBase EXCEPT !.updates = 1, !.breaks = 1,
        !.plans = <<[Changed EXCEPT !.max_version = 2],
                    [Changed EXCEPT !.max_version = 2, !.intervals = TRUE]>>],
     [RpkiBase EXCEPT !.updates = 1, !.breaks = 1,
        !.plans = <<[Changed EXCEPT !.ignore_max_length = TRUE],
                    [Changed EXCEPT !.transport = TRUE]>>]}
    \union {[RpkiBase EXCEPT !.server = v, !.strict = b, !.breaks = 1, !.updates = 1] :
              v \in 1..2, b \in BOOLEAN}

Rpki == INSTANCE Rpki WITH Records <- {R4, R6, As}, Configs <- RpkiConfigs

(* Router advertisements: prefixes and routes that come and go, a trigger, *)
(* other routers, links and sockets that fail, packets that do not fit,    *)
(* reconfigurations.                                                       *)
NoIface == [none |-> TRUE]
Ic ==
    [min_ra_int |-> 1, max_ra_int |-> 2, min_delay |-> 1, prefix_linger_time |-> 2,
     route_linger_time |-> 2, default_sensitive |-> TRUE, route_sensitive |-> TRUE,
     link_mtu |-> TRUE, lists_local |-> FALSE, rdnss |-> << >>, dnssl |-> << >>,
     custom |-> << >>, skip |-> {}, sensitive |-> {}, solicited_ra_unicast |-> FALSE,
     router_discovery |-> TRUE]
Cf ==
    [trigger |-> 0, propagate_routes |-> TRUE,
     rdnss |-> <<[life |-> 5], [life |-> 5], [life |-> 7]>>,
     dnssl |-> <<[life |-> 5, dlen_all |-> 11]>>, custom |-> <<[type |-> 1, length |-> 7]>>,
     ifs |-> 1 :> Ic]
RAdvBase ==
    [cf |-> Cf, table |-> 48 :> 1, addrs |-> 1 :> {1}, tbsize |-> 1024, max_delay |-> 1,
     changes |-> 0, updowns |-> 0, links |-> 0, routes |-> 0, plans |-> << >>, triggers |-> {},
     kept |-> FALSE, shutdowns |-> 0, packets |-> 0, channels |-> 0, blocks |-> 0,
     blockable |-> FALSE, failures |-> 0]

RAdvConfigs ==
    {[RAdvBase EXCEPT !.changes = 2, !.shutdowns = 1],
     [RAdvBase EXCEPT !.routes = 2, !.shutdowns = 1],
     [RAdvBase EXCEPT !.routes = 1, !.changes = 1, !.links = 1, !.cf.ifs[1].route_linger_time = 3],
     [RAdvBase EXCEPT !.cf.trigger = 80, !.routes = 2, !.shutdowns = 1],
     [RAdvBase EXCEPT !.packets = 3, !.channels = 1],
     [RAdvBase EXCEPT !.packets = 1, !.blocks = 1, !.changes = 1, !.blockable = TRUE,
        !.cf.ifs[1].prefix_linger_time = 3, !.cf.ifs[1].solicited_ra_unicast = TRUE],
     [RAdvBase EXCEPT !.updowns = 2, !.failures = 1, !.changes = 1],
     [RAdvBase EXCEPT !.routes = 1,
        !.plans = <<[Cf EXCEPT !.trigger = 80], [Cf EXCEPT !.propagate_routes = FALSE], Cf>>],
     [RAdvBase EXCEPT
        !.plans = <<[Cf EXCEPT !.ifs[1].skip = {1}], [Cf EXCEPT !.ifs[1] = NoIface]>>]}
    \union {[RAdvBase EXCEPT !.tbsize = size, !.routes = 1, !.changes = 1] : size \in {100, 130, 180}}

RAdv == INSTANCE RAdv WITH Ifaces <- {1}, Nets <- {48, 80}, LinkPrefixes <- {1, 2},
                           Neighbors <- {1, 2}, Configs <- RAdvConfigs

----------------------------------------------------------------------------
(* Babel and RIP: two routers, three in a line, three in a triangle *)

Pair == {1, 2} :> 1
Line == ({1, 2} :> 1) @@ ({2, 3} :> 1)
Triangle(long) == Line @@ ({1, 3} :> long)
InPair == <<{1, 2}>>
InLine == <<{1, 2}, {2, 3}>>
InTriangle == <<{1, 2}, {2, 3}, {1, 3}>>

\* The sequence numbers are the last ones before the wrap, or the first ones.
BabelBase ==
  [seqno |-> 15, cost |-> Triangle(3), order |-> InTriangle, origins |-> {1}, losses |-> 0, early |-> 0,
   changes |-> 0, states |-> {"up", "down"}, costs |-> 0, statics |-> 0, restarts |-> 0,
   again |-> FALSE]
BabelLine == [BabelBase EXCEPT !.cost = Line, !.order = InLine]
BabelPair == [BabelBase EXCEPT !.cost = Pair, !.order = InPair]

BabelConfigs ==
  {[BabelBase EXCEPT !.costs = 1],
   [BabelLine EXCEPT !.changes = 1],
   [BabelPair EXCEPT !.seqno = 1, !.restarts = 1, !.losses = 1],
   [BabelPair EXCEPT !.statics = 1, !.early = 1]}

Babel == INSTANCE Babel WITH
  Routers <- 1 .. 3, BABEL_INFINITY <- 8, IP4_MAX <- 2, IP6_MAX <- 3,
  SeqnoModulus <- 16, BABEL_SEQNO_REQUEST_RETRY <- 1,
  Configs <- BabelConfigs

RipBase ==
  [metric |-> Triangle(1), order |-> InTriangle,
   static |-> (1 :> {1}) @@ (2 :> {2}) @@ (3 :> {}), losses |-> 0, early |-> 0, changes |-> 0,
   states |-> {"up", "down"}, statics |-> 0, bfds |-> 0, demand |-> FALSE, ecmp |-> FALSE,
   split_horizon |-> TRUE, poison_reverse |-> TRUE, blocks |-> 2]
RipLine == [RipBase EXCEPT !.metric = Line, !.order = InLine]
RipPair == [RipBase EXCEPT !.metric = Pair, !.order = InPair]

RipConfigs ==
  {[RipLine EXCEPT !.changes = 1],
   [RipLine EXCEPT !.changes = 1, !.states = {"cut"}],
   [RipPair EXCEPT !.bfds = 1, !.statics = 1],
   [RipPair EXCEPT !.demand = TRUE, !.losses = 2, !.blocks = 1, !.static[1] = {1, 2},
                   !.static[2] = {}],
   [RipPair EXCEPT !.demand = TRUE, !.losses = 1, !.early = 1, !.blocks = 1, !.changes = 1]}

Rip == INSTANCE Rip WITH
  Routers <- 1 .. 3, Nets <- {1, 2}, infinity <- 5, SeqModulus <- 8, Configs <- RipConfigs

----------------------------------------------------------------------------
(* Queues of three Babel messages, with source-specific networks or none *)

If6 == [af |-> 6, ip |-> 1]
If4 == [af |-> 4, ip |-> 1]
NoHop == [af |-> 0, ip |-> 0]
Net(type, a, plen) == [type |-> type, addr |-> a, plen |-> plen, src |-> << >>, splen |-> 0]
AnyNet == Net("none", << >>, 0)
Sadr(a, plen, src, splen) == [type |-> "sadr", addr |-> a, plen |-> plen, src |-> src, splen |-> splen]
Upd(net, metric, rid, hop) ==
  [type |-> "UPDATE", wildcard |-> FALSE, seqno |-> 3, metric |-> metric, rid |-> rid,
   net |-> net, next_hop |-> hop]
Wildcard == [Upd(AnyNet, 8, 0, NoHop) EXCEPT !.wildcard = TRUE]
RouteRequest(net) == [type |-> "ROUTE_REQUEST", net |-> net]
SeqnoRequest(net) == [type |-> "SEQNO_REQUEST", net |-> net, rid |-> 3, seqno |-> 2, hop_count |-> 3]

Plain ==
  {Upd(Net("ip6", <<1, 2>>, 16), 5, 1, If6), Upd(Net("ip6", <<1, 2, 16>>, 20), 5, 2, If6),
   Upd(Net("ip6", <<2>>, 8), 5, 1, [If6 EXCEPT !.ip = 2]), Upd(Net("ip6", << >>, 0), 5, 1, If6),
   Upd(Net("ip6", <<1, 3>>, 16), 8, 1, If6), Wildcard,
   Upd(Net("ip4", <<1>>, 8), 5, 2, If6), Upd(Net("ip4", <<1, 2>>, 16), 5, 1, If4),
   Upd(Net("ip4", <<1, 2>>, 16), 8, 1, NoHop),
   [type |-> "HELLO", seqno |-> 1, tstamp |-> TRUE],
   [type |-> "IHU", rxcost |-> 3, addr |-> 7, tstamp |-> TRUE],
   [type |-> "ACK", nonce |-> 1],
   RouteRequest(AnyNet), RouteRequest(Net("ip6", <<1, 2>>, 16)),
   SeqnoRequest(Net("ip4", <<1, 2>>, 16))}
Specific ==
  {Upd(Sadr(<<1, 2>>, 16, <<3>>, 8), 5, 1, If6), Upd(Sadr(<<1, 2>>, 16, << >>, 0), 5, 1, If6),
   Upd(Sadr(<<1>>, 8, <<4, 5>>, 16), 8, 1, If6),
   RouteRequest(Sadr(<<1, 2>>, 16, <<3>>, 8)), SeqnoRequest(Sadr(<<1, 2>>, 16, <<3>>, 8))}

Queues == [queue : [1 .. 3 -> Plain], size : {40, 60, 512}, sadr : {FALSE}]
          \union [queue : [1 .. 3 -> Specific], size : {40, 60, 512}, sadr : {TRUE}]

----------------------------------------------------------------------------
Unused == setup = Setup(TRUE, FALSE, TRUE) /\ accepted = {}
NoRpki == c = 0 /\ server = 0
NoNetwork == link = 0 /\ r = 0 /\ done = 0
MCInit ==
    /\ Init
    /\ \/ part = "import" /\ conf = 0 /\ p = 0 /\ ch = 0 /\ NoRpki /\ NoNetwork
       \/ part = "rpki" /\ Unused /\ Rpki!Init /\ p = 0 /\ NoNetwork
       \/ part = "radv" /\ Unused /\ RAdv!Init /\ ch = 0 /\ NoRpki /\ NoNetwork
       \/ part = "babel" /\ Unused /\ Babel!Init /\ p = 0 /\ NoRpki
       \/ part = "rip" /\ Unused /\ Rip!Init /\ p = 0 /\ NoRpki
       \/ part = "packets" /\ Unused /\ conf \in Queues /\ p = 0 /\ ch = 0 /\ NoRpki /\ NoNetwork

\* The scenarios of RPKI and router advertisements come to an end.
Over == part \in {"rpki", "radv", "packets"} /\ UNCHANGED MCVars

MCNext ==
    \/ part = "import" /\ Next /\ UNCHANGED others
    \/ part = "rpki" /\ Rpki!Next /\ UNCHANGED <<vars, part, p, link, r, done>>
    \/ part = "radv" /\ RAdv!Next /\ UNCHANGED <<vars, part, c, server, ch, link, r, done>>
    \/ part = "babel" /\ Babel!Next /\ UNCHANGED <<vars, part, c, server, p>>
    \/ part = "rip" /\ Rip!Next /\ UNCHANGED <<vars, part, c, server, p>>
    \/ Over

\* While messages or timers are to come, something happens: the fairness of Rpki, RAdv,
\* Babel and Rip.
Busy ==
    \/ part = "rpki" /\ Rpki!Moving
    \/ part = "radv" /\ RAdv!Serving
    \/ part \in {"babel", "rip"}

MCSpec ==
    /\ MCInit /\ [][MCNext]_MCVars
    /\ WF_vars(part = "import" /\ channel_reload_loop /\ UNCHANGED setup)
    /\ WF_vars(part = "import" /\ channel_roa_in_changed /\ UNCHANGED setup)
    /\ WF_vars(part = "import" /\ Prune /\ UNCHANGED setup)
    /\ []<>~Busy \/ []<><<TRUE>>_MCVars

(* See Rpki: an established router has the ROAs of the server at the       *)
(* serial number it remembers. See RAdv: a prepared packet is up to date,  *)
(* a stopped router is default router of no host, other routers are        *)
(* forgotten in time.                                                      *)
ServicesRight ==
    /\ part = "rpki" => Rpki!TypeOK /\ Rpki!SyncedExactly
    /\ part = "radv" => RAdv!TypeOK /\ RAdv!PacketFresh /\ RAdv!Goodbye /\ RAdv!NeighborsExpire

(* See Babel and Rip: feasibility distances are kept, packets say what was *)
(* queued, kept routes are equally good.                                   *)
DistancesKept ==
    /\ part = "babel" => Babel!TypeOK /\ Babel!DistancesKept
    /\ part = "rip" => Rip!TypeOK /\ Rip!EquallyGood
    /\ part = "packets" => Babel!PacketsFaithful(conf.queue, If6, conf.size, conf.sadr)

(* See ChannelImport, Rpki, RAdv, Babel and Rip: reloads end, the router   *)
(* comes to have the data of the server, the hosts those of the router,    *)
(* and in a network at rest every router has its shortest paths.           *)
Progress ==
    /\ ReloadsFinish
    /\ <>[](/\ part = "rpki" => Rpki!Synchronized
            /\ part = "radv" => RAdv!HostsRight
            /\ part = "babel" => Babel!Right
            /\ part = "rip" => Rip!Right)
============================================================================
