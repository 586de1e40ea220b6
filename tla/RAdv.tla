-------------------------------- MODULE RAdv --------------------------------
(***************************************************************************)
(* Router advertisements (proto/radv/radv.c, packets.c): the prefixes of   *)
(* the interfaces, the routes exported to the protocol, the trigger route, *)
(* the packet that every interface keeps prepared, and the routers heard   *)
(* from on the link.                                                       *)
(*                                                                         *)
(* The protocol is one record and a handler is an operator on it.  Times   *)
(* are ages (of a change) and remaining times (of a timer or a deadline);  *)
(* heard is what a host on the link has learned from the packets.          *)
(***************************************************************************)
EXTENDS Integers, Sequences, FiniteSets, FiniteSetsExt, SequencesExt, TLC

CONSTANTS
  Ifaces,
  LinkPrefixes,   \* of addresses of the interfaces, numbers
  Nets,           \* networks of routes, named by their prefix length
  Neighbors,      \* other routers
  Configs         \* configurations and what may happen

VARIABLES
  conf,           \* what may still happen
  p               \* the protocol

vars == <<conf, p>>

None == [none |-> TRUE]
Infinity == 99                            \* TIME_INFINITY
Off == -1                                 \* a timer that is not active
MAX_INITIAL_RTR_ADVERTISEMENTS == 1       \* 3 in the code

\* The function f, which TLC computes at once.
Now(f) == f @@ <<>>

Active(s) == {i \in Ifaces : s.ifa[i] # None}
Ready(s) == {i \in Active(s) : s.ifa[i].sk}        \* with an open socket
Expired(x, linger) == ~x.valid /\ x.age >= linger

(***************************************************************************)
(* The packet: options are appended until one does not fit                 *)
(***************************************************************************)

Opt(kind, of, live, len) == [kind |-> kind, of |-> of, live |-> live, len |-> len]

radv_prepare_prefix(s, px, e) ==
    Opt("prefix", px, e.valid /\ (s.active \/ ~e.sensitive), 32)

radv_prepare_route(s, ic, x) ==
    LET rt == s.routes[x]
    IN  Opt("route", x, rt.valid /\ s.valid /\ (s.active \/ ~ic.route_sensitive) /\ rt.life > 0,
            8 * (1 + (rt.pxlen + 63) \div 64))

\* Entries of the list that have the same lifetime share an option.
Groups(list, Size(_)) ==
    LET Step(acc, e) ==
            IF acc # <<>> /\ Last(acc).of = e.life
            THEN [acc EXCEPT ![Len(acc)].len = @ + Size(e)]
            ELSE Append(acc, Opt("list", e.life, TRUE, Size(e)))
    IN  FoldLeft(Step, <<>>, list)

radv_prepare_rdnss(list) == LET G == Groups(list, LAMBDA e : 16)
                            IN  [i \in DOMAIN G |-> [G[i] EXCEPT !.len = 8 + @]]

radv_prepare_dnssl(list) == LET G == Groups(list, LAMBDA e : e.dlen_all + 1)
                            IN  [i \in DOMAIN G |-> [G[i] EXCEPT !.len = 8 + 8 * ((@ + 7) \div 8)]]

radv_prepare_custom(list) ==
    [i \in DOMAIN list |-> Opt("custom", list[i].type, TRUE, 8 * ((list[i].length + 9) \div 8))]

\* Everything that is to be said on interface i, in order.
Options(s, i) ==
    LET ic == s.cf.ifs[i]
        cf == s.cf
        pfx == SelectSeq(SetToSortSeq(DOMAIN s.ifa[i].pfx, <),
                         LAMBDA px : ~Expired(s.ifa[i].pfx[px], ic.prefix_linger_time))
        rts == SelectSeq(SetToSortSeq(DOMAIN s.routes, <),
                         LAMBDA x : ~Expired(s.routes[x], ic.route_linger_time))
    IN  (IF ic.link_mtu THEN <<Opt("mtu", 0, TRUE, 8)>> ELSE <<>>)
        \o [k \in DOMAIN pfx |-> radv_prepare_prefix(s, pfx[k], s.ifa[i].pfx[pfx[k]])]
        \o (IF ic.lists_local THEN <<>> ELSE radv_prepare_rdnss(cf.rdnss))
        \o radv_prepare_rdnss(ic.rdnss)
        \o (IF ic.lists_local THEN <<>> ELSE radv_prepare_dnssl(cf.dnssl))
        \o radv_prepare_dnssl(ic.dnssl)
        \o (IF ic.lists_local THEN <<>> ELSE radv_prepare_custom(cf.custom))
        \o radv_prepare_custom(ic.custom)
        \o [k \in DOMAIN rts |-> radv_prepare_route(s, ic, rts[k])]

Length(opts) == FoldLeft(LAMBDA n, o : n + o.len, 16, opts)

Fits(all, n) == \A m \in 1..n : Length(SubSeq(all, 1, m)) <= conf.tbsize
Longest(all) == SubSeq(all, 1, Max({n \in 0..Len(all) : Fits(all, n)}))

RaPacket(s, i) ==
    [router |-> s.valid /\ (s.active \/ ~s.cf.ifs[i].default_sensitive),
     opts |-> Longest(Options(s, i))]

\* The prepared packet is valid until the first invalid thing in it has
\* lingered long enough.
Linger(s, i, o) ==
    IF o.kind = "prefix" /\ ~s.ifa[i].pfx[o.of].valid
    THEN s.cf.ifs[i].prefix_linger_time - s.ifa[i].pfx[o.of].age
    ELSE IF o.kind = "route" /\ ~s.routes[o.of].valid
    THEN s.cf.ifs[i].route_linger_time - s.routes[o.of].age ELSE Infinity

Prepared(s, i, packet) ==
    [s EXCEPT !.ifa[i].packet = packet,
              !.ifa[i].valid_time =
                  Min({Infinity} \cup {Linger(s, i, o) : o \in Range(packet.opts)})]

radv_prepare_ra(s, i) == Prepared(s, i, RaPacket(s, i))

radv_invalidate(s, i) == [s EXCEPT !.ifa[i].packet = None]

\* What a host knows after a packet.
Heard(h, packet) ==
    LET Of(kind, live) == {o.of : o \in {o \in Range(packet.opts) : o.kind = kind /\ o.live = live}}
    IN  [router |-> packet.router,
         prefix |-> (h.prefix \ Of("prefix", FALSE)) \cup Of("prefix", TRUE),
         route |-> (h.route \ Of("route", FALSE)) \cup Of("route", TRUE)]

ValidPacket(s, i) == IF s.ifa[i].valid_time <= 0 THEN radv_invalidate(s, i) ELSE s
WithPacket(s, i) == IF s.ifa[i].packet = None THEN radv_prepare_ra(s, i) ELSE s

\* The socket may take the packet only later (wait > 0).
sk_send(s, i, wait) ==
    IF wait > 0 THEN [s EXCEPT !.ifa[i].tx = wait, !.ifa[i].sent = s.ifa[i].packet]
    ELSE [s EXCEPT !.heard[i] = Heard(@, s.ifa[i].packet)]

radv_send_ra(s, i, wait) ==
    IF s.ifa[i].tx > 0 THEN s ELSE sk_send(WithPacket(ValidPacket(s, i), i), i, wait)

(***************************************************************************)
(* Prefixes, routes and the timer of an interface                          *)
(***************************************************************************)

\* radv_prefix_match(): FALSE for a prefix the configuration skips.
radv_prefix_match(s, i, px) == px \notin s.cf.ifs[i].skip

radv_prepare_prefixes(s, i) ==
    LET used == {px \in s.addrs[i] : radv_prefix_match(s, i, px)}
        old == s.ifa[i].pfx
        Entry(px) == IF px \in used
                     THEN [valid |-> TRUE, age |-> 0, sensitive |-> px \in s.cf.ifs[i].sensitive]
                     ELSE IF old[px].valid THEN [valid |-> FALSE, age |-> 0, sensitive |-> FALSE]
                     ELSE old[px]
    IN  [s EXCEPT !.ifa[i].pfx = Now([px \in DOMAIN old \cup used |-> Entry(px)])]

radv_prune_prefixes(s, i) ==
    LET linger == s.cf.ifs[i].prefix_linger_time
        old == s.ifa[i].pfx
        left == {px \in DOMAIN old : ~Expired(old[px], linger)}
    IN  [s EXCEPT !.ifa[i].pfx = Now([px \in left |-> old[px]]),
                  !.ifa[i].prune_time =
                      Min({Infinity} \cup {linger - old[px].age : px \in {px \in left : ~old[px].valid}})]

max_linger_time(s) ==
    Max({0} \cup {s.cf.ifs[i].route_linger_time : i \in {i \in Ifaces : s.cf.ifs[i] # None}})

radv_prune_routes(s) ==
    LET left == {x \in DOMAIN s.routes : ~Expired(s.routes[x], max_linger_time(s))}
    IN  IF ~s.fib_up THEN s
        ELSE [s EXCEPT !.routes = Now([x \in left |-> s.routes[x]]),
                       !.prune_time = Min({Infinity} \cup
                           {max_linger_time(s) - s.routes[x].age :
                                x \in {x \in left : ~s.routes[x].valid}})]

\* t is the time to the next advertisement, between the two intervals.
radv_timer(s, i, t, wait) ==
    LET Prefixed(x) == IF x.ifa[i].prune_time <= 0 THEN radv_prune_prefixes(x, i) ELSE x
        Routed(x) == IF x.prune_time <= 0 THEN radv_prune_routes(x) ELSE x
    IN  [radv_send_ra(Routed(Prefixed(s)), i, wait) EXCEPT
                   !.ifa[i].last = 0, !.ifa[i].timer = t,
                   !.ifa[i].initial = IF @ > 0 THEN @ - 1 ELSE 0]

radv_iface_notify(s, i, event) ==
    LET s1 == IF event = "CHANGE" THEN radv_invalidate(s, i) ELSE s
        s2 == IF event = "RS" THEN s1
              ELSE radv_prune_prefixes(radv_prepare_prefixes(
                       [s1 EXCEPT !.ifa[i].initial = MAX_INITIAL_RTR_ADVERTISEMENTS], i), i)
    IN  IF ~s.ifa[i].sk THEN s
        ELSE [s2 EXCEPT !.ifa[i].timer = Max({0, s.cf.ifs[i].min_delay - s.ifa[i].last})]

radv_iface_notify_all(s, event) ==
    FoldSet(LAMBDA i, x : radv_iface_notify(x, i, event), s, Active(s))

(***************************************************************************)
(* Interfaces                                                              *)
(***************************************************************************)

radv_iface_new(s, i) ==
    [s EXCEPT !.ifa[i] = [sk |-> FALSE, pfx |-> <<>>, prune_time |-> Infinity, valid_time |-> 0,
                          timer |-> Off, last |-> s.cf.ifs[i].min_delay, initial |-> 0,
                          packet |-> None, tx |-> 0, sent |-> None, failed |-> FALSE]]

radv_iface_remove(s, i) == [s EXCEPT !.ifa[i] = None]

\* radv_iface_add(): the lock is acquired and the socket is open.
radv_iface_add(s, i) == radv_iface_notify([s EXCEPT !.ifa[i].sk = TRUE], i, "INIT")

radv_iface_shutdown(s, i) ==
    IF s.ifa[i].sk THEN radv_send_ra(radv_invalidate(s, i), i, 0) ELSE s

Restarted(s, i) == IF s.ifa[i] # None THEN radv_iface_remove(s, i) ELSE s

\* The interface goes up or down (and takes the link-local address with it).
radv_if_notify(s, i) ==
    LET s1 == Restarted(s, i)
    IN  IF s.up[i] /\ s.cf.ifs[i] # None THEN radv_iface_new(s1, i) ELSE s1

LinkUp(s, i) == IF s.ifa[i] = None THEN s ELSE radv_iface_notify(s, i, "INIT")

radv_ifa_notify(s, i) == IF s.ifa[i] = None THEN s ELSE radv_iface_notify(s, i, "CHANGE")

(***************************************************************************)
(* Routes and configurations                                               *)
(***************************************************************************)

radv_preexport(s, x) == x = s.cf.trigger \/ s.cf.propagate_routes

\* life is the lifetime of the route, -1 when the network is withdrawn.
radv_rt_notify(s, x, life) ==
    LET withdrawn == life = -1
        known == x \in DOMAIN s.routes
        rt == s.routes[x]
        new == [valid |-> TRUE, age |-> 0, life |-> life, pxlen |-> x]
        s1 == [s EXCEPT !.routes = (x :> new) @@ @]
        s2 == [s EXCEPT !.routes = (x :> [rt EXCEPT !.valid = FALSE, !.age = 0]) @@ @,
                        !.prune_time = Min({@, max_linger_time(s)})]
    IN  IF x = s.cf.trigger
        THEN IF s.active = ~withdrawn THEN s
             ELSE radv_iface_notify_all([s EXCEPT !.active = ~withdrawn], "CHANGE")
        ELSE IF ~s.cf.propagate_routes THEN s
        ELSE IF withdrawn
        THEN IF ~known \/ ~rt.valid THEN s ELSE radv_iface_notify_all(s2, "CHANGE")
        ELSE IF known /\ rt.valid /\ rt.life = life THEN s
        ELSE radv_iface_notify_all(s1, "CHANGE")

radv_set_fib(s, up) ==
    IF up = s.fib_up THEN s
    ELSE [s EXCEPT !.fib_up = up, !.routes = <<>>, !.prune_time = Infinity]

radv_start(s, cf) ==
    radv_set_fib([s EXCEPT !.cf = cf, !.valid = TRUE, !.active = cf.trigger = 0, !.fib_up = FALSE,
                           !.routes = <<>>, !.prune_time = Infinity, !.nbr_timer = Off],
                 cf.propagate_routes)

radv_check_active(s) == s.cf.trigger = 0 \/ s.cf.trigger \in DOMAIN s.table

radv_shutdown(s) ==
    [FoldSet(LAMBDA i, x : radv_iface_shutdown(x, i), [s EXCEPT !.valid = FALSE], Active(s)) EXCEPT
            !.ifa = Now([i \in Ifaces |-> None]), !.nbrs = <<>>, !.nbr_timer = Off]

\* The feed after the start of propagation, and the routes of a started protocol.
Fed(s) == FoldSet(LAMBDA x, y : IF radv_preexport(y, x) THEN radv_rt_notify(y, x, s.table[x]) ELSE y,
                  s, DOMAIN s.table)

radv_reconfigure(s, cf) ==
    LET s1 == [s EXCEPT !.cf = cf]
        s2 == radv_set_fib([s1 EXCEPT !.active = radv_check_active(s1)], cf.propagate_routes)
        One(i, x) == IF ~x.up[i] THEN x
                     ELSE IF x.ifa[i] # None
                     THEN IF cf.ifs[i] # None THEN radv_iface_notify(x, i, "CHANGE")
                          ELSE radv_iface_remove(
                                 [radv_iface_shutdown([x EXCEPT !.cf.ifs[i] = s.cf.ifs[i]], i) EXCEPT !.cf = cf], i)
                     ELSE IF cf.ifs[i] # None THEN radv_iface_new(x, i) ELSE x
        Feed(x) == IF cf.propagate_routes /\ ~s.cf.propagate_routes THEN Fed(x) ELSE x
    IN  Feed(FoldSet(One, s2, Ifaces))

(***************************************************************************)
(* Packets and the routers heard from                                      *)
(***************************************************************************)

radv_announce_nbr(s, n, lifetime) ==
    IF ~s.nbr_up THEN s
    ELSE [s EXCEPT !.nbrs = (n :> lifetime) @@ @,
                   !.nbr_timer = IF @ = Off \/ lifetime < @ THEN lifetime ELSE @]

radv_withdraw_nbr(s, n) ==
    IF ~s.nbr_up THEN s
    ELSE [s EXCEPT !.nbrs = Now([m \in DOMAIN @ \ {n} |-> @[m]])]

\* The timer is set for the next router only when one has expired.
PruneOne(s) ==
    LET gone == {n \in DOMAIN s.nbrs : s.nbrs[n] <= 0}
    IN  [s EXCEPT !.nbr_timer = Off, !.nbrs = Now([n \in DOMAIN s.nbrs \ gone |-> s.nbrs[n]])]

radv_prune_neighbors(s) ==
    LET s1 == [s EXCEPT !.nbr_timer = Off]
        gone == {n \in DOMAIN s.nbrs : s.nbrs[n] <= 0}
        left == DOMAIN s.nbrs \ gone
        s2 == FoldSet(LAMBDA n, x : radv_withdraw_nbr(x, n), s1, gone)
    IN  IF ~s.nbr_up THEN s1
        ELSE IF left = {} THEN s2
        ELSE [s2 EXCEPT !.nbr_timer = Max({1, Min({s.nbrs[n] : n \in left})})]

radv_receive_rs(s, i, wait) ==
    IF s.cf.ifs[i].solicited_ra_unicast THEN radv_send_ra(s, i, wait)
    ELSE radv_iface_notify(s, i, "RS")

radv_receive_ra(s, i, from, lifetime) ==
    IF ~s.cf.ifs[i].router_discovery THEN s
    ELSE IF lifetime > 0 THEN radv_announce_nbr(s, from, lifetime)
    ELSE radv_withdraw_nbr(s, from)

\* radv_tx_hook(): the socket has sent what it had.
radv_tx_hook(s, i) ==
    radv_iface_notify([s EXCEPT !.ifa[i].tx = 0, !.ifa[i].sent = None, !.heard[i] = Heard(@, s.ifa[i].sent)], i, "RS")

(***************************************************************************)
(* The system                                                              *)
(***************************************************************************)

Init ==
    /\ conf \in Configs
    /\ LET s == [cf |-> conf.cf, valid |-> FALSE, active |-> FALSE, fib_up |-> FALSE,
                 routes |-> <<>>, prune_time |-> Infinity, nbrs |-> <<>>, nbr_timer |-> Off,
                 nbr_up |-> TRUE, table |-> conf.table, addrs |-> conf.addrs,
                 up |-> [i \in Ifaces |-> TRUE], ifa |-> [i \in Ifaces |-> None],
                 heard |-> [i \in Ifaces |-> [router |-> FALSE, prefix |-> {}, route |-> {}]]]
       IN  p = Fed(FoldSet(LAMBDA i, x : radv_if_notify(x, i), radv_start(s, conf.cf), Ifaces))

Due == \/ \E i \in Active(p) : ~p.ifa[i].sk /\ ~p.ifa[i].failed
       \/ \E i \in Ready(p) : p.ifa[i].timer = 0 \/ p.ifa[i].tx = 1
       \/ p.nbr_timer = 0

Older(x, max) == IF x < max THEN x + 1 ELSE x
Sooner(t) == IF t > 0 /\ t # Infinity THEN t - 1 ELSE t
MaxAge == Max({Max({1, ic.prefix_linger_time, ic.route_linger_time}) :
                   ic \in {p.cf.ifs[i] : i \in {i \in Ifaces : p.cf.ifs[i] # None}} \cup
                          {[prefix_linger_time |-> 1, route_linger_time |-> 1]}})

Tick ==
    /\ ~Due
    /\ p' = [p EXCEPT
         !.prune_time = Sooner(@), !.nbr_timer = Sooner(@),
         !.nbrs = Now([n \in DOMAIN @ |-> Sooner(@[n])]),
         !.routes = Now([x \in DOMAIN @ |-> IF @[x].valid THEN @[x]
                                            ELSE [@[x] EXCEPT !.age = Older(@, MaxAge)]]),
         !.ifa = Now([i \in Ifaces |-> IF @[i] = None THEN None ELSE
             [@[i] EXCEPT !.timer = Sooner(@), !.prune_time = Sooner(@), !.valid_time = Sooner(@),
                          !.last = Older(@, conf.max_delay), !.tx = Sooner(@),
                          !.pfx = Now([px \in DOMAIN @ |-> IF @[px].valid THEN @[px]
                                         ELSE [@[px] EXCEPT !.age = Older(@, MaxAge)]])]])]
    /\ p.valid
    /\ UNCHANGED conf

\* A step of the protocol that uses up one of what may still happen.
Spend(what) == conf[what] > 0 /\ conf' = [conf EXCEPT ![what] = @ - 1]

Waits == IF conf.blocks > 0 THEN {0, 2} ELSE {0}
Blocked(wait) == IF wait > 0 THEN Spend("blocks") ELSE UNCHANGED conf

Timer(i) ==
    /\ i \in Ready(p) /\ p.ifa[i].timer = 0
    /\ \E t \in p.cf.ifs[i].min_ra_int .. p.cf.ifs[i].max_ra_int, wait \in Waits :
           /\ p' = radv_timer(p, i, t, wait)
           /\ Blocked(wait)

NbrTimer == p.nbr_timer = 0 /\ p' = radv_prune_neighbors(p) /\ UNCHANGED conf

TxHook(i) == i \in Ready(p) /\ p.ifa[i].tx = 1 /\ p' = radv_tx_hook(p, i) /\ UNCHANGED conf

Locked(i) ==
    /\ i \in Active(p) \ Ready(p)
    /\ ~p.ifa[i].failed
    /\ \/ p' = radv_iface_add(p, i) /\ UNCHANGED conf
       \/ p' = [p EXCEPT !.ifa[i].failed = TRUE] /\ Spend("failures")

\* Events from outside.
Address(i, px) ==
    /\ Spend("changes")
    /\ p.up[i]
    /\ p' = radv_ifa_notify([p EXCEPT !.addrs[i] = SymDiff(@, {px})], i)

UpDown(i) ==
    /\ Spend("updowns")
    /\ p' = radv_if_notify([p EXCEPT !.up[i] = ~@, !.heard[i] =
                              [router |-> FALSE, prefix |-> {}, route |-> {}]], i)

Link(i) == Spend("links") /\ p.up[i] /\ p' = LinkUp(p, i)

Route(x, life) ==
    /\ Spend("routes")
    /\ life >= 0 \/ x \in DOMAIN p.table
    /\ LET s == [p EXCEPT !.table = IF life >= 0 THEN (x :> life) @@ @
                                    ELSE Now([y \in DOMAIN @ \ {x} |-> @[y]])]
       IN  p' = IF life = -1 \/ radv_preexport(s, x) THEN radv_rt_notify(s, x, life) ELSE s

Reconfigure ==
    /\ conf.plans # <<>>
    /\ p' = radv_reconfigure(p, Head(conf.plans))
    /\ conf' = [conf EXCEPT !.plans = Tail(@),
                            !.triggers = @ \cup {p.cf.trigger, Head(conf.plans).trigger},
                            !.kept = @ \/ (p.fib_up /\ ~Head(conf.plans).propagate_routes)]

Shutdown == Spend("shutdowns") /\ p' = radv_shutdown(p)

Solicited(i) ==
    /\ Spend("packets")
    /\ i \in Ready(p)
    /\ p' = radv_receive_rs(p, i, 0)

Advertised(i, n, lifetime) ==
    /\ Spend("packets")
    /\ i \in Ready(p)
    /\ p' = radv_receive_ra(p, i, n, lifetime)

\* The neighbor channel goes down, which takes its routes away, or up.
NbrChannel ==
    /\ Spend("channels")
    /\ p' = [p EXCEPT !.nbr_up = ~@, !.nbrs = <<>>]

Next ==
    /\ p.valid
    /\ \/ Tick \/ NbrTimer \/ Reconfigure \/ Shutdown \/ NbrChannel
       \/ \E i \in Ifaces :
             \/ Timer(i) \/ TxHook(i) \/ Locked(i) \/ UpDown(i) \/ Link(i) \/ Solicited(i)
             \/ \E px \in LinkPrefixes : Address(i, px)
             \/ \E n \in Neighbors, lifetime \in {0, 1, 2} : Advertised(i, n, lifetime)
       \/ \E x \in Nets, life \in {-1, 0, 1} : Route(x, life)

\* Time passes and timers fire as long as there is an interface to serve.
Serving == p.valid /\ Ready(p) # {}
Spec == Init /\ [][Next]_vars /\ ([]<>~Serving \/ []<><<Next>>_vars)

(***************************************************************************)
(* Properties                                                              *)
(***************************************************************************)

TypeOK ==
    /\ p.nbr_timer \in -1..9
    /\ \A i \in Active(p) : LET f == p.ifa[i] IN
           /\ DOMAIN f.pfx \subseteq LinkPrefixes
           /\ f.timer \in -1..9 /\ f.tx \in 0..2
           /\ f.packet # None => Length(f.packet.opts) <= conf.tbsize

\* A prepared packet that would be sent without another look says what the
\* protocol would say if it prepared the packet now (radv_send_ra, valid_time).
PacketFresh ==
    \A i \in Ready(p) : LET f == p.ifa[i] IN
        (f.packet # None /\ f.valid_time > 0) => f.packet = RaPacket(p, i)

\* A protocol that has shut down is not the default router of any host
\* (radv_shutdown), unless the socket was blocked.
Goodbye == (~p.valid /\ conf.blockable = FALSE) => \A i \in Ifaces : ~p.heard[i].router

\* A router heard from is forgotten when its lifetime is over: the timer is
\* never set past the first one (radv_announce_nbr, radv_prune_neighbors).
NeighborsExpire == \A n \in DOMAIN p.nbrs : p.nbr_timer # Off /\ p.nbr_timer <= p.nbrs[n]

Complete(i) == RaPacket(p, i).opts = Options(p, i)

\* Hosts have all prefixes and routes of the router, and no others, and use it
\* as default router just when they should.  Routes that were trigger routes of
\* an earlier configuration, and those of a protocol that stopped to propagate
\* routes, are not looked at.
HostsRight ==
    \A i \in Ready(p) : (p.valid /\ Complete(i)) =>
        LET h == p.heard[i]
            all == Range(Options(p, i))
            Of(kind) == {o.of : o \in {o \in all : o.kind = kind /\ o.live}}
        IN  /\ h.router = RaPacket(p, i).router
            /\ h.prefix = Of("prefix")
            /\ h.prefix \subseteq p.addrs[i]
            /\ conf.kept \/ h.route = Of("route")
            /\ conf.kept \/ h.route \ conf.triggers \subseteq DOMAIN p.table
            /\ (p.cf.propagate_routes /\ p.active) =>
                   \A x \in DOMAIN p.table \ (conf.triggers \cup {p.cf.trigger}) : p.table[x] > 0 => x \in h.route

\* Whatever addresses, routes and configurations do, hosts learn of it in the end.
HostsLearn == <>[]HostsRight
=============================================================================
