-------------------------------- MODULE Krt ---------------------------------
(***************************************************************************)
(* Synchronisation with the kernel routing table (sysdep/unix/krt.c) over  *)
(* netlink (sysdep/linux/netlink.c): export of best routes, periodic scan  *)
(* and pruning, learning of alien routes, asynchronous notifications.      *)
(* The kernel and the routing table with its other protocols are external. *)
(*                                                                         *)
(* A kernel route is [net, metric, proto, dest]; dest stands for the type  *)
(* of the route and its next hops, 0 for none.                             *)
(***************************************************************************)
EXTENDS Integers, Sequences, FiniteSets, FiniteSetsExt, SequencesExt, TLC

CONSTANTS Nets, Metrics, Dests, Configs

VARIABLES
  conf,           \* configuration and what may still happen
  tab,            \* routes of the other protocols by network and source
  s               \* the kernel protocol, its channel, and the kernel table

vars == <<conf, tab, s>>

Sources == <<"a", "b">>      \* in the order of preference; learned routes come last

(***************************************************************************)
(* The kernel.  A route is identified by its network and metric.           *)
(***************************************************************************)

KeyOf(r) == <<r.net, r.metric>>

\* err: whether the last request has failed; fail has the networks and the kinds of
\* requests that do, for any error of the kernel.
Ops == {"ADD", "DELETE", "REPLACE"}
nl_send_route(t, net, dest, op) ==
    LET r == [net |-> net, metric |-> conf.metric, proto |-> "bird", dest |-> dest]
        same == {k \in t.kernel : KeyOf(k) = KeyOf(r)}
        gone == {k \in same : k.proto = "bird"}
    IN  IF <<net, op>> \in t.fail \/ (op = "ADD" /\ same # {}) THEN [t EXCEPT !.err = TRUE]
        ELSE IF op = "DELETE" THEN [t EXCEPT !.kernel = @ \ gone]
        ELSE [t EXCEPT !.kernel = (@ \ same) \cup {r}, !.err = FALSE]

\* IPv4, or IPv6 with a regular route (destinations above 1 have a gateway).
nl_allow_replace(new) == conf.ipv4 \/ new > 1

\* id is the identity of the new route, old the destination of the old one (or 0).
krt_replace_rte(t, net, id, new, old) ==
    LET t1 == IF old # 0 THEN nl_send_route(t, net, old, "DELETE") ELSE t
        t2 == IF old # 0 /\ new # 0 /\ nl_allow_replace(new)
              THEN nl_send_route(t, net, new, "REPLACE")
              ELSE IF new # 0 THEN nl_send_route(t1, net, new, "ADD") ELSE t1
    IN  IF new = 0 THEN t2
        ELSE [t2 EXCEPT !.sync_map = IF t2.err THEN @ \ {id} ELSE @ \cup {id}]

(***************************************************************************)
(* Routes of the table.  The route of the protocol itself (learned) is     *)
(* never exported.                                                         *)
(***************************************************************************)

None == [id |-> <<>>, dest |-> 0]

Best(tb, t, net) ==
    LET have == {i \in DOMAIN Sources : tb[net][Sources[i]] # 0}
    IN  IF have # {} THEN [id |-> <<net, Sources[Min(have)]>>, dest |-> tb[net][Sources[Min(have)]]]
        ELSE IF t.announced[net] # 0 THEN [id |-> <<net, "krt">>, dest |-> t.announced[net]]
        ELSE None

krt_is_installed(t, net, best) == best.id \in t.export_map

\* krt_preexport() is not run again: it is handled by krt_is_installed().
krt_export_net(net, best) == IF net \in conf.accept THEN best.dest ELSE 0

krt_preexport(best) == best.id # <<>> /\ best.id[2] # "krt"

\* A shutdown of BIRD, when routes are left as they are, ends the export as well:
\* the commit of its configuration calls krt_shutdown().
krt_rt_notify(t, net, id, new, old) ==
    IF t.initialized THEN krt_replace_rte(t, net, id, new, old) ELSE t

\* rt_notify_basic(), do_rt_notify(): old and new are best routes.
Notify(t, net, new, old) ==
    LET n == IF krt_preexport(new) /\ net \in conf.accept THEN new ELSE None
        o == IF old.id \in t.export_map THEN old ELSE None
        t1 == [t EXCEPT !.export_map = (@ \ {o.id}) \cup (IF n = None THEN {} ELSE {n.id})]
    IN  IF ~t.exporting \/ (n = None /\ o = None) THEN t
        ELSE krt_rt_notify(t1, net, n.id, n.dest, o.dest)

\* rte_update() of the learned route
Announce(tb, t, net, dest) ==
    LET t1 == [t EXCEPT !.announced[net] = dest]
        old == Best(tb, t, net)
        new == Best(tb, t1, net)
    IN  IF old = new THEN t1 ELSE Notify(t1, net, new, old)

(***************************************************************************)
(* Learning.  krt_table has [metric, dest, seen, best] for every network.  *)
(***************************************************************************)

krt_learn_scan(t, k) ==
    LET same == {m \in t.krt_table[k.net] : m.metric = k.metric}
        uptodate == \E m \in same : m.dest = k.dest
        new == IF uptodate THEN [(CHOOSE m \in same : TRUE) EXCEPT !.seen = TRUE]
               ELSE [metric |-> k.metric, dest |-> k.dest, seen |-> TRUE, best |-> FALSE]
    IN  [t EXCEPT !.krt_table[k.net] = (@ \ same) \cup {new}]

BestMetric(ms) == CHOOSE m \in ms : \A o \in ms : m.metric <= o.metric

krt_learn_prune(tb, t, net) ==
    LET ms == t.krt_table[net]
        seen == {m \in ms : m.seen}
        best == BestMetric(seen)
        t1 == [t EXCEPT !.krt_table[net] = {[m EXCEPT !.seen = FALSE, !.best = (m = best)] : m \in seen}]
    IN  IF seen = {}
        THEN IF \E m \in ms : m.best THEN Announce(tb, t1, net, 0) ELSE t1
        ELSE IF ~best.best \/ t.reload THEN Announce(tb, t1, net, best.dest) ELSE t1

krt_learn_async(tb, t, k, new) ==
    LET ms == t.krt_table[k.net]
        same == {m \in ms : m.metric = k.metric}
        e == [metric |-> k.metric, dest |-> k.dest, seen |-> FALSE, best |-> FALSE]
        left == (ms \ same) \cup (IF new THEN {e} ELSE {})
        best == BestMetric(left)
        t1 == [t EXCEPT !.krt_table[k.net] = {[m EXCEPT !.best = (m = best)] : m \in left}]
    IN  IF (new /\ \E m \in same : m.dest = k.dest) \/ (~new /\ same = {}) THEN t
        ELSE IF left = {} THEN Announce(tb, t1, k.net, 0)
        ELSE IF best.best THEN t1 ELSE Announce(tb, t1, k.net, best.dest)

\* Redirects are deleted, if the kernel reports any (KRT_SRC_REDIRECT).
Deleted(t, k) == krt_replace_rte(t, k.net, <<>>, 0, k.dest)
Learns(k) == conf.learn = "all" \/ (conf.learn = "alien" /\ k.proto = "alien")

(***************************************************************************)
(* Scans                                                                   *)
(***************************************************************************)

\* Routes are deleted before the feed is over.
GotEarly(tb, t, k) ==
    LET best == Best(tb, t, k.net)
        new == krt_export_net(k.net, best)
        t1 == [t EXCEPT !.seen_map = @ \cup {best.id}]
    IN  IF k.proto # "bird" THEN IF Learns(k) THEN krt_learn_scan(t, k) ELSE t
        ELSE IF ~krt_is_installed(t, k.net, best) \/ new = 0 THEN Deleted(t, k)
        ELSE IF best.id \in t.seen_map THEN t
        ELSE IF best.id \notin t.sync_map \/ k.dest # new
        THEN krt_replace_rte(t1, k.net, best.id, new, k.dest)
        ELSE t1

krt_got_route(tb, t, k) ==
    LET best == Best(tb, t, k.net)
        new == krt_export_net(k.net, best)
        t1 == [t EXCEPT !.seen_map = @ \cup {best.id}]
    IN  IF k.proto = "redirect" THEN Deleted(t, k)
        ELSE IF k.proto # "bird" THEN IF Learns(k) THEN krt_learn_scan(t, k) ELSE t
        ELSE IF ~t.ready THEN t
        ELSE IF ~krt_is_installed(t, k.net, best) \/ new = 0 THEN Deleted(t, k)
        ELSE IF best.id \in t.seen_map THEN t
        ELSE IF best.id \notin t.sync_map \/ k.dest # new
        THEN krt_replace_rte(t1, k.net, best.id, new, k.dest)
        ELSE t1

\* krt_prune() for one network, and its end
Prune(tb, t, net) ==
    LET best == Best(tb, t, net)
        new == krt_export_net(net, best)
    IN  IF t.ready /\ krt_is_installed(t, net, best) /\ best.id \notin t.seen_map /\ new # 0
        THEN krt_replace_rte(t, net, best.id, new, 0) ELSE t

krt_prune(tb, t) ==
    LET t1 == FoldSet(LAMBDA net, u : Prune(tb, u, net), t, Nets)
        t2 == IF conf.learn = "no" THEN t1
              ELSE [FoldSet(LAMBDA net, u : krt_learn_prune(tb, u, net), t1, Nets) EXCEPT !.reload = FALSE]
    IN  [t2 EXCEPT !.initialized = @ \/ t.ready]

\* krt_scan(), krt_do_scan(): the dump is what the kernel had when it was asked.
krt_scan(tb, t) ==
    krt_prune(tb, FoldSet(LAMBDA k, u : krt_got_route(tb, u, k),
                          [t EXCEPT !.seen_map = {}, !.kick = FALSE], t.kernel))

\* nl_async_msg(), krt_got_route_async()
krt_got_route_async(tb, t, msg) ==
    IF msg.k.proto = "redirect" THEN IF msg.new THEN Deleted(t, msg.k) ELSE t
    ELSE IF Learns(msg.k) THEN krt_learn_async(tb, t, msg.k, msg.new) ELSE t

krt_if_notify(t) == [t EXCEPT !.kick = @ \/ conf.learn # "no"]
krt_reload_routes(t) == IF conf.learn = "no" THEN t ELSE [t EXCEPT !.reload = TRUE, !.kick = TRUE]
krt_feed_end(t) == [t EXCEPT !.ready = TRUE, !.kick = TRUE]

\* krt_start(): the channel is fed when there is nothing to wait for.
krt_start(kernel, gr) ==
    [kernel |-> kernel, fail |-> {}, err |-> FALSE, running |-> TRUE, sync_map |-> {},
     seen_map |-> {}, export_map |-> {}, exporting |-> ~gr, gr_wait |-> gr,
     feeding |-> ~gr, todo |-> Nets, ready |-> FALSE, initialized |-> FALSE, reload |-> FALSE,
     kick |-> TRUE, announced |-> [net \in Nets |-> 0], krt_table |-> [net \in Nets |-> {}],
     async |-> <<>>, dirty |-> TRUE]

krt_flush_routes(tb, t) ==
    FoldSet(LAMBDA net, u : IF krt_is_installed(u, net, Best(tb, u, net))
                            THEN krt_replace_rte(u, net, <<>>, 0, Best(tb, u, net).dest) ELSE u, t, Nets)

krt_shutdown(tb, t, gr) ==
    LET t1 == IF t.initialized /\ ~conf.persist /\ ~gr THEN krt_flush_routes(tb, t) ELSE t
    IN  [t1 EXCEPT !.running = FALSE, !.ready = FALSE, !.initialized = FALSE, !.kick = FALSE,
                   !.exporting = FALSE, !.feeding = FALSE, !.export_map = {}, !.async = <<>>,
                   !.announced = [net \in Nets |-> 0] @@ <<>>, !.gr_wait = FALSE]

(***************************************************************************)
(* Actions                                                                 *)
(***************************************************************************)

Init == /\ conf \in Configs
        /\ tab = [net \in Nets |-> [src \in {"a", "b"} |-> 0]]
        /\ s = krt_start(conf.kernel, FALSE)

Spend(what) == conf[what] > 0 /\ conf' = [conf EXCEPT ![what] = @ - 1]

\* Requests of a step may fail, also one of the two that change a route; the table
\* is out of sync until the next scan.
Failures == {nets \X ops : nets \in SUBSET Nets \ {{}}, ops \in SUBSET Ops \ {{}}}
\* Without a scan time the table is scanned only when the timer has been kicked.
ScanTimer == /\ s.running /\ (s.kick \/ conf.periodic)
             /\ \/ s' = [krt_scan(tab, s) EXCEPT !.dirty = ~s.ready] /\ UNCHANGED conf
                \/ /\ Spend("failures")
                   /\ \E f \in Failures :
                        s' = [krt_scan(tab, [s EXCEPT !.fail = f]) EXCEPT !.fail = {}, !.dirty = TRUE]
             /\ UNCHANGED tab

Async == /\ s.running /\ s.async # <<>>
         /\ s' = [krt_got_route_async(tab, s, Head(s.async)) EXCEPT !.async = Tail(@)]
         /\ UNCHANGED <<conf, tab>>

\* A route of another protocol appears, changes or goes.
RouteUpdate(net, src, v) ==
    /\ tab[net][src] # v /\ conf.updates > 0
    /\ tab' = [tab EXCEPT ![net][src] = v]
    /\ LET old == Best(tab, s, net)
           new == Best(tab', s, net)
           Done(u) == IF old = new THEN u ELSE Notify(u, net, new, old)
       IN  \/ s' = Done(s) /\ Spend("updates")
           \/ /\ conf.failures > 0
              /\ \E f \in Failures : s' = [Done([s EXCEPT !.fail = f]) EXCEPT !.fail = {}, !.dirty = TRUE]
              /\ conf' = [conf EXCEPT !.failures = @ - 1, !.updates = @ - 1]

\* The channel is fed by parts, then it is ready.
Feed == /\ s.running /\ s.feeding
        /\ LET net == Min(s.todo)
               best == Best(tab, s, net)
               t == [s EXCEPT !.feeding = FALSE, !.todo = Nets]
           IN  s' = IF s.todo = {} THEN krt_feed_end(t)
                    ELSE [Notify(s, net, best, best) EXCEPT !.todo = @ \ {net}]
        /\ UNCHANGED <<conf, tab>>

\* Reconfiguration changes the export filter; the channel is fed again.  Routes are
\* exported in disagreement with the filter until that ends.
Refilter == /\ s.running /\ ~s.gr_wait
            /\ Spend("refilters")
            /\ \E acc \in SUBSET Nets : conf'.accept = acc
            /\ s' = [s EXCEPT !.feeding = TRUE, !.todo = Nets]
            /\ UNCHANGED tab

Reload == /\ s.running /\ Spend("reloads") /\ s' = krt_reload_routes(s) /\ UNCHANGED tab

\* Graceful restart recovery is over.
Recovered == /\ s.running /\ s.gr_wait
             /\ s' = [s EXCEPT !.gr_wait = FALSE, !.exporting = TRUE, !.feeding = TRUE]
             /\ UNCHANGED <<conf, tab>>

Shutdown(gr) == /\ s.running /\ Spend("stops")
                /\ s' = krt_shutdown(tab, s, gr)
                /\ UNCHANGED tab

\* BIRD crashes and loses all routes.
Crash == /\ s.running /\ Spend("crashes")
         /\ s' = [s EXCEPT !.running = FALSE, !.feeding = FALSE, !.gr_wait = FALSE, !.exporting = FALSE,
                           !.announced = [net \in Nets |-> 0] @@ <<>>, !.async = <<>>]
         /\ tab' = [net \in Nets |-> [src \in {"a", "b"} |-> 0]]

Start(gr) == /\ ~s.running
             /\ gr => conf.gr
             /\ s' = krt_start(s.kernel, gr)
             /\ UNCHANGED <<conf, tab>>

\* Somebody else changes the kernel table; BIRD is notified unless its buffer is full.
Alien(k, new) ==
    /\ conf.aliens > 0
    /\ \A o \in s.kernel : KeyOf(o) = KeyOf(k) => o.proto = k.proto
    /\ (k \in s.kernel) # new
    /\ LET same == {o \in s.kernel : KeyOf(o) = KeyOf(k)}
           t == [s EXCEPT !.kernel = IF new THEN (@ \ same) \cup {k} ELSE @ \ {k}]
           told == [t EXCEPT !.async = Append(@, [k |-> k, new |-> new])]
       IN  \/ s' = (IF s.running THEN told ELSE t) /\ Spend("aliens")
           \/ /\ s.running /\ conf.drops > 0
              /\ s' = [t EXCEPT !.dirty = TRUE]
              /\ conf' = [conf EXCEPT !.aliens = @ - 1, !.drops = @ - 1]
    /\ UNCHANGED tab

\* An interface goes down: the kernel removes the routes over it and tells nobody.
IfDown(dest) ==
    /\ Spend("downs")
    /\ s' = [krt_if_notify(s) EXCEPT !.kernel = {k \in @ : k.dest # dest}, !.dirty = TRUE]
    /\ UNCHANGED tab

AlienRoutes == [net : Nets, metric : Metrics \ {conf.metric}, proto : {"alien", "kernel"}, dest : Dests]

Next ==
    \/ ScanTimer \/ Async \/ Feed \/ Refilter \/ Reload \/ Recovered \/ Crash
    \/ \E net \in Nets, src \in {"a", "b"}, v \in Dests \cup {0} : RouteUpdate(net, src, v)
    \/ \E gr \in BOOLEAN : Shutdown(gr) \/ Start(gr)
    \/ \E k \in AlienRoutes, new \in BOOLEAN : Alien(k, new)
    \/ \E dest \in Dests : IfDown(dest)

\* While BIRD is to be started again, there is something to feed, a message, the end of
\* the recovery to come or a scan that would change something, a step is made.
Scanned == [krt_scan(tab, s) EXCEPT !.dirty = ~s.ready]

Busy == \/ ~s.running \/ s.feeding \/ s.async # <<>> \/ s.gr_wait
        \/ (s.kick \/ conf.periodic) /\ s # Scanned
Fairness == []<>~Busy \/ []<><<Next>>_vars

Spec == Init /\ [][Next]_vars /\ Fairness

(***************************************************************************)
(* Properties                                                              *)
(***************************************************************************)

TypeOK ==
    /\ s.kernel \subseteq [net : Nets, metric : Metrics, proto : {"bird", "alien", "kernel"}, dest : Dests]
    /\ \A k, l \in s.kernel : KeyOf(k) = KeyOf(l) => k = l
    /\ s.sync_map \cup s.seen_map \cup s.export_map \subseteq Nets \X {"a", "b"}
    /\ s.todo \subseteq Nets
    /\ \A net \in Nets : /\ s.announced[net] \in Dests \cup {0}
                         /\ \A m, n \in s.krt_table[net] : m.metric = n.metric => m = n

Installed(t) == {<<k.net, k.dest>> : k \in {k \in t.kernel : k.proto = "bird"}}
Wanted(tb, t, c) == {<<net, Best(tb, t, net).dest>> : net \in {n \in c.accept : krt_preexport(Best(tb, t, n))}}

\* Once the table has been scanned after the feed, BIRD's routes in the kernel are
\* exactly the best routes that pass the filter, as long as no request has failed and
\* no interface has gone down since the last scan.
KernelSynced ==
    (s.running /\ s.initialized /\ ~s.dirty /\ ~s.feeding) => Installed(s) = Wanted(tab, s, conf)

\* Over crashes and restarts, BIRD takes a route of its own out of the kernel only when
\* it is shut down, or when it has been fed and the route is not wanted any more, or if
\* a route of this kind is replaced by two requests and the second one fails.
HalfReplaced(d) == conf'.failures < conf.failures /\ ~nl_allow_replace(d)
Kept ==
    \A n \in Nets, d \in Dests :
      (/\ <<n, d>> \in Installed(s) \ Installed(s')
       /\ conf'.downs = conf.downs /\ s'.running)
      => /\ s.ready
         /\ \/ s.feeding \/ HalfReplaced(d)
            \/ ~(<<n, d>> \in Wanted(tab, s, conf) \cap Wanted(tab', s', conf'))
NoGap == [][Kept]_vars

LearnedRight ==
    \A n \in Nets :
      LET ks == {k \in s.kernel : k.net = n /\ k.proto # "bird" /\ Learns(k)}
      IN  s.announced[n] = IF ks = {} THEN 0 ELSE BestMetric(ks).dest

\* In the end, whatever has failed or got lost, the kernel has the exported routes and
\* the table has the routes learned from the kernel.
Settled == s.running /\ Installed(s) = Wanted(tab, s, conf) /\ LearnedRight
KernelSettles == <>[]Settled
=============================================================================
