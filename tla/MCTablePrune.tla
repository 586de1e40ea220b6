---------------------------- MODULE MCTablePrune ----------------------------
(***************************************************************************)
(* For TLC: the routing tables.  The prune loop of a table; routes that    *)
(* depend on other tables; the best route of a network; the FIB with its   *)
(* iterators; and the aggregator, which fills one table from another.  The *)
(* parts share no state: a behaviour is one of the part that runs.         *)
(***************************************************************************)
EXTENDS TablePrune, Sequences, TLC

CONSTANTS n1, n2, c1, c2, w1, w2, None, Unreachable

VARIABLES
  part,
  conf, ip, hc, hc_trie, hcu, tab, flow_trie, changes,
  list, attrs, suppressed,
  order, table, readers, node, linked, reader,
  source, s, dst, cf, done

hop_vars == <<conf, ip, hc, hc_trie, hcu, tab, flow_trie, changes>>
best_vars == <<list, attrs, suppressed>>
fib_vars == <<order, table, readers, node, linked, reader>>
agg_vars == <<source, s, dst, cf, done>>    \* and conf
MCVars == <<vars, part, hop_vars, best_vars, fib_vars, agg_vars>>

TrieSetup == [trie |-> TRUE, stale |-> {}]
StaleSetup == [trie |-> FALSE, stale |-> {c1}]

MCSetups == {TrieSetup, StaleSetup}

----------------------------------------------------------------------------
\* A default route, a network in it, and a more specific one.
HopNets == "all" :> 0 @@ "half" :> 1 @@ "own" :> 2
HopHosts == "h1" :> {"all", "half"} @@ "h2" :> {"all"}
HopFlows == "f1" :> [asn |-> 1, dst |-> {"all", "half"}, sub |-> {"own"}]
HopRoutes == {[asn |-> 1, recursive |-> FALSE], [asn |-> 2, recursive |-> FALSE],
              [asn |-> 1, recursive |-> TRUE]}
HopConfigs ==
  {[changes |-> 4, rivals |-> {FALSE}, tables |-> {"dst"}],
   [changes |-> 4, rivals |-> {FALSE}, tables |-> {"flow"}]}

NextHops == INSTANCE NextHops WITH
  Nets <- HopNets, Hosts <- HopHosts, Dsts <- {"d1", "d2"}, Flows <- HopFlows,
  Routes <- HopRoutes, Configs <- HopConfigs

\* Two neighboring ASes; only in the first one MED differs.
MCPeers == "p1" :> 1 @@ "p2" :> 2 @@ "p3" :> 3
Attr(p, as, g, m, i) ==
  [pref |-> p, as |-> as, aigp |-> g, pathlen |-> 1, med |-> m, igp |-> i]
MCRouteAttrs ==
  {Attr(1, 1, 0, 0, 0), Attr(1, 1, 0, 1, 0),
   Attr(1, 2, 0, 0, 1), Attr(2, 1, 0, 0, 1), Attr(1, 1, 1, 0, 1)}

Best == INSTANCE BgpBest WITH
  Peers <- MCPeers, RouteAttrs <- MCRouteAttrs, routes <- list

\* Two networks have the same hash; the FIB grows with its third entry.
MCKeys == "k1" :> 0 @@ "k2" :> 1 @@ "k3" :> 2 @@ "k4" :> 2

Fib == INSTANCE Fib WITH
  Keys <- MCKeys, Bits <- 2, Iterators <- {"i1", "i2"},
  Hi <- 0 :> 1 @@ 1 :> 2 @@ 2 :> 100, Lo <- 0 :> 0 @@ 1 :> 0 @@ 2 :> 3, walk <- reader

\* Two values to aggregate on; filters that merge all routes or the best one.
Filters(on, merge) == [aggr_on |-> on, merge_by |-> merge, export |-> "all"]
AggConfigs ==
  {[changes |-> 3, restarts |-> 1, reconfigurations |-> 1,
    choices |-> {Filters(1, "accept"), Filters(1, "several"), Filters(2, "best")}]}

Agg == INSTANCE Aggregator WITH
  Srcs <- 1..2, Routes <- {<<1, 1>>, <<1, 2>>, <<2, 1>>}, Configs <- AggConfigs,
  table <- source

----------------------------------------------------------------------------
NoHops == /\ ip = 0 /\ hc = 0 /\ hc_trie = 0 /\ hcu = 0
          /\ tab = 0 /\ flow_trie = 0 /\ changes = 0
NoBest == list = 0 /\ attrs = 0 /\ suppressed = 0
NoFib == order = 0 /\ table = 0 /\ readers = 0 /\ node = 0 /\ linked = 0 /\ reader = 0
NoAgg == source = 0 /\ s = 0 /\ dst = 0 /\ cf = 0 /\ done = 0

MCInit ==
  /\ Init
  /\ \/ part = "prune" /\ conf = 0 /\ NoHops /\ NoBest /\ NoFib /\ NoAgg
     \/ part = "nexthops" /\ NextHops!Init /\ NoBest /\ NoFib /\ NoAgg
     \/ part = "best" /\ Best!Init /\ conf = 0 /\ NoHops /\ NoFib /\ NoAgg
     \/ part = "fib" /\ Fib!Init /\ conf = 0 /\ NoHops /\ NoBest /\ NoAgg
     \/ part = "aggregator" /\ Agg!Init /\ NoHops /\ NoBest /\ NoFib
  /\ part # "prune" => setup = TrieSetup

\* The others may come to rest.
Over == part # "prune" /\ UNCHANGED MCVars

MCNext ==
  \/ part = "prune" /\ Next /\ UNCHANGED <<part, hop_vars, best_vars, fib_vars, agg_vars>>
  \/ part = "nexthops" /\ NextHops!Next /\ UNCHANGED <<vars, part, best_vars, fib_vars, agg_vars>>
  \/ part = "best" /\ Best!Next /\ UNCHANGED <<vars, part, hop_vars, fib_vars, agg_vars>>
  \/ part = "fib" /\ Fib!Next /\ UNCHANGED <<vars, part, hop_vars, best_vars, agg_vars>>
  \/ part = "aggregator" /\ Agg!Next
     /\ UNCHANGED <<vars, part, ip, hc, hc_trie, hcu, tab, flow_trie, changes, best_vars, fib_vars>>
  \/ Over

\* The main loop runs every scheduled event: rt_event; and of the tables of
\* NextHops one of them, as long as one is scheduled.
MCSpec ==
  /\ MCInit /\ [][MCNext]_MCVars
  /\ WF_vars(part = "prune" /\ rt_event)
  /\ []<>(part = "nexthops" => NextHops!Quiet) \/ []<><<TRUE>>_MCVars

(* See NextHops: dependent routes are up to date when nothing is           *)
(* scheduled, and hostentries live as long as they are used. See BgpBest:  *)
(* the best route depends on the routes alone. See Fib: asynchronous       *)
(* readers miss nothing. See Aggregator: the peer table has what is        *)
(* aggregated now.                                                         *)
TablesRight ==
  /\ part = "nexthops" => NextHops!Settled /\ NextHops!HostentriesHeld
  /\ part = "best" => Best!BestByRoutes /\ Best!GroupsHaveWinners
  /\ part = "fib" => Fib!ReadersSeeAll /\ Fib!NodesFound
  /\ part = "aggregator" => Agg!AggregatedExactly

(* See TablePrune and NextHops: flushes come to an end, and so do the      *)
(* walks over tables with dependent routes.                                *)
Progress == FlushesFinish /\ <>[](part = "nexthops" => NextHops!Quiet)
=============================================================================
