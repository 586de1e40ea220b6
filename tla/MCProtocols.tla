---------------------------- MODULE MCProtocols ----------------------------
(***************************************************************************)
(* For TLC: the protocols and channels of the core; and OSPF: the database *)
(* exchange of two routers, the election on a network, and the routes in   *)
(* and between areas.  The parts share no state: a behaviour is one of the *)
(* part that runs.                                                         *)
(***************************************************************************)
EXTENDS Protocols, Sequences, TLC

CONSTANTS
  Parts,      \* the parts to check
  bgp1, kernel1, ipv4, ipv6

VARIABLES part, conf, st, net, ifa, up, exports, lsdb, vl, tr, rtf, todo

area_vars == <<up, exports, lsdb, vl, tr, rtf, todo>>
MCVars == <<vars, part, conf, st, net, ifa, area_vars>>

MCBgp == {bgp1}
MCKrt == {kernel1}
MCChannels == [p \in {bgp1, kernel1} |-> IF p = bgp1 THEN {ipv4, ipv6} ELSE {ipv4}]

----------------------------------------------------------------------------
\* One fault of each kind, and the wrap of the sequence number.
Faultless == [restarts |-> 0, losses |-> 0, early |-> 0, changes |-> {}, ages |-> 0,
              exported |-> FALSE, first |-> 1, MaxSeq |-> 9]
ExchangeConfigs ==
  {[Faultless EXCEPT !.restarts = 1], [Faultless EXCEPT !.losses = 1],
   [Faultless EXCEPT !.early = 1], [Faultless EXCEPT !.changes = {0}, !.exported = TRUE],
   [Faultless EXCEPT !.ages = 1], [Faultless EXCEPT !.first = 3, !.MaxSeq = 3]}

Exchange == INSTANCE OspfExchange WITH Configs <- ExchangeConfigs, DbdesMax <- 1, LsreqMax <- 1

\* Two routers with every fault, three of which one is not eligible.
Lan(type, prio) ==
  [type |-> type, prio |-> prio, strict |-> FALSE, listed |-> DOMAIN prio,
   links |-> 0, stops |-> 0, losses |-> 0, changes |-> 0]
Faulty(c) == [c EXCEPT !.links = 1, !.stops = 1, !.losses = 1]
IfaceConfigs ==
  {[Faulty(Lan("bcast", <<1, 1>>)) EXCEPT !.changes = 1],
   Lan("nbma", <<0, 1, 1>>), Faulty(Lan("nbma", <<1, 1>>)),
   Faulty(Lan("ptmp", <<1, 1>>)),
   [Faulty(Lan("nbma", <<0, 1>>)) EXCEPT !.strict = TRUE]}

Iface == INSTANCE OspfIface WITH Configs <- IfaceConfigs, Flight <- 1

\* Router 3 of area 1 has two border routers, which the backbone joins.
Link(id, area, kind, n, cost) ==
  [id |-> id, area |-> area, kind |-> kind, net |-> n, cost |-> cost]
Plain(nets) == [n \in nets \cup {"default"} |-> <<n, "default">>]
None == [n \in {} |-> FALSE]
Area(type) ==
  [type |-> type, summary |-> TRUE, default_cost |-> 1, default_nssa |-> FALSE,
   translators |-> {}, nets |-> None, enets |-> None]
Options ==
  [v3 |-> FALSE, ecmp |-> TRUE, rfc1583 |-> FALSE, merge_external |-> FALSE,
   stubnets |-> {}, vlinks |-> {}, asbrs |-> {}, external |-> {}, changes |-> 0,
   fails |-> 1, mayfail |-> {1, 2, 3}]
TwoAreas ==
  [areas |-> 0 :> Area("ext") @@ 1 :> Area("ext"),
   ifaces |-> {Link(1, 0, "lan", "n1", 1 :> 1 @@ 2 :> 1), Link(2, 1, "ptp", "n2", 1 :> 1 @@ 3 :> 1),
               Link(3, 1, "ptp", "n3", 2 :> 2 @@ 3 :> 2), Link(4, 0, "stub", "n4", 1 :> 1),
               Link(5, 1, "stub", "n5", 3 :> 1)},
   covers |-> Plain({"n1", "n2", "n3", "n4", "n5", "x"})] @@ Options
\* Condensed networks and an ordinary external route; stub areas; an NSSA with
\* an elected and with a configured translator.
External ==
  [TwoAreas EXCEPT !.asbrs = {3}, !.changes = 1,
                   !.external = {[rt |-> 3, net |-> "x", m1 |-> 0, m2 |-> 3]}]
Agg(n) == n :> <<n, "agg", "default">>
CondensedArea ==
  [TwoAreas EXCEPT !.areas[1].nets = ("agg" :> FALSE),
                   !.covers = Agg("n2") @@ Agg("n3") @@ Agg("n5") @@ @]
StubArea == [TwoAreas EXCEPT !.areas[1] = [Area("stub") EXCEPT !.summary = FALSE]]
Nssa ==
  [External EXCEPT !.areas[1] = [Area("nssa") EXCEPT !.default_nssa = TRUE],
                   !.ifaces = {i \in @ : i.id # 5}]
NssaRange ==
  [External EXCEPT !.areas[1] = [Area("nssa") EXCEPT !.translators = {1}, !.enets = ("xs" :> FALSE)],
                   !.covers = ("x" :> <<"x", "xs", "default">>) @@ Plain({"xs"}) @@ @]
Stubnet ==
  [TwoAreas EXCEPT !.ecmp = FALSE, !.mayfail = {2},
                   !.stubnets = {[rt |-> 3, area |-> 1, net |-> "n5", cost |-> 1,
                                  hidden |-> FALSE, summary |-> FALSE]}]
\* Area 2 is joined by a virtual link; two border routers have a better way
\* through area 1 than through the backbone.
Virtual(kind, v3) ==
  [areas |-> 0 :> Area("ext") @@ 1 :> Area("ext") @@ 2 :> Area("ext"),
   ifaces |-> {Link(1, 0, "stub", "n1", 1 :> 1), Link(2, 1, kind, "n2", 1 :> 1 @@ 2 :> 1),
               Link(3, 2, "ptp", "n3", 2 :> 1 @@ 3 :> 1), Link(4, 2, "stub", "n4", 3 :> 1)},
   covers |-> Plain({"n1", "n2", "n3", "n4"})]
  @@ [Options EXCEPT !.v3 = v3, !.mayfail = {2}, !.vlinks = {[ends |-> {1, 2}, area |-> 1]}]
Transit ==
  [areas |-> 0 :> Area("ext") @@ 1 :> Area("ext"),
   ifaces |-> {Link(1, 0, "ptp", "n1", 1 :> 5 @@ 2 :> 5), Link(3, 0, "stub", "n3", 1 :> 1),
               Link(2, 1, "lan", "n2", 1 :> 1 @@ 2 :> 1 @@ 3 :> 1), Link(4, 0, "stub", "n4", 2 :> 1)},
   covers |-> Plain({"n1", "n2", "n3", "n4"})]
  @@ [Options EXCEPT !.mayfail = {1, 2}, !.vlinks = {[ends |-> {1, 2}, area |-> 1]}]
\* One area where the way over two links is the shorter one.
Triangle ==
  [areas |-> 1 :> Area("ext"),
   ifaces |-> {Link(1, 1, "ptp", "n1", 1 :> 5 @@ 2 :> 5), Link(2, 1, "ptp", "n2", 1 :> 1 @@ 3 :> 2),
               Link(3, 1, "ptp", "n3", 2 :> 1 @@ 3 :> 1), Link(4, 1, "stub", "n4", 2 :> 1)},
   covers |-> Plain({"n1", "n2", "n3", "n4"})] @@ Options
AreaConfigs ==
  {Triangle, External, CondensedArea, StubArea, Nssa, NssaRange, Stubnet, Virtual("lan", FALSE),
   Virtual("ptp", TRUE), Transit}

Areas == INSTANCE OspfAreas WITH Configs <- AreaConfigs, LSINFINITY <- 99

----------------------------------------------------------------------------
NoAreas == /\ up = 0 /\ exports = 0 /\ lsdb = 0 /\ vl = 0
           /\ tr = 0 /\ rtf = 0 /\ todo = 0
NoProtocols == proto = 0 /\ graceful_restart_state = 0 /\ graceful_restart_locks = 0 /\ gr_wait_timer = 0
MCInit ==
  /\ part \in Parts
  /\ IF part = "protocols" THEN Init ELSE NoProtocols
  /\ \/ part = "protocols" /\ conf = 0 /\ st = 0 /\ net = 0 /\ ifa = 0 /\ NoAreas
     \/ part = "exchange" /\ Exchange!Init /\ ifa = 0 /\ NoAreas
     \/ part = "iface" /\ Iface!Init /\ st = 0 /\ NoAreas
     \/ part = "areas" /\ Areas!Init /\ st = 0 /\ net = 0 /\ ifa = 0

\* OSPF may come to rest.
Over == part # "protocols" /\ UNCHANGED MCVars

MCNext ==
  \/ part = "protocols" /\ Next /\ UNCHANGED <<part, conf, st, net, ifa, area_vars>>
  \/ part = "exchange" /\ Exchange!Next /\ UNCHANGED <<vars, part, ifa, area_vars>>
  \/ part = "iface" /\ Iface!Next /\ UNCHANGED <<vars, part, st, area_vars>>
  \/ part = "areas" /\ Areas!Next /\ UNCHANGED <<vars, part, st, net, ifa>>
  \/ Over

\* The fairness of Protocols.
MCSpec ==
  /\ MCInit /\ [][MCNext]_MCVars
  /\ WF_vars(part = "protocols" /\ proto_shutdown_loop)
  /\ \A p \in Protos : WF_vars(part = "protocols" /\ Finish(p))

\* While a calculation is scheduled (by the timer of ospf_disp(), which runs
\* forever) or a translator timer runs, one of them fires.
OspfSpec ==
  /\ MCInit /\ [][MCNext]_MCVars
  /\ []<>(part = "areas" => Areas!Converged) \/ []<><<TRUE>>_MCVars

(* See OspfExchange: references are counted exactly, what a Full neighbor  *)
(* may lack is retransmitted, and when nothing is pending the databases    *)
(* are the same. See OspfIface: one designated router, and the adjacencies *)
(* that go with it.                                                        *)
AdjacenciesRight ==
  /\ part = "exchange" =>
       Exchange!ReferencesExact /\ Exchange!FullIsReliable /\ Exchange!NeverStuck
  /\ part = "iface" => Iface!ElectionAgrees /\ Iface!RolesMatch

(* See OspfAreas: next hops lead to the networks and to external routes.   *)
RoutesReach ==
  part = "areas" => /\ Areas!NetworksReached /\ Areas!ExternalsReached
                    /\ Areas!PathsShortest

(* See OspfAreas: after the last change the routers come to rest.          *)
Converges == <>[](part = "areas" => Areas!Converged)
============================================================================
