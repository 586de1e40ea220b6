-------------------------------- MODULE Babel --------------------------------
(***************************************************************************)
(* The Babel protocol (proto/babel/babel.c): routers on point-to-point     *)
(* links that announce one network to each other.  Feasibility distances   *)
(* keep the routes free of loops, and requests for a new sequence number   *)
(* keep routers from starving.                                             *)
(*                                                                         *)
(* Every router is a record and a handler is an operator on it.  A packet  *)
(* is the sequence of the TLVs queued in one turn of the event loop.  The  *)
(* slow timers (hellos, regular updates, expirations) run in rounds while  *)
(* nothing else is pending, or before that, Early times.                   *)
(*                                                                         *)
(* The second part, after the properties of the first, is the encoding of  *)
(* a queue in packets (proto/babel/packets.c).                             *)
(***************************************************************************)
EXTENDS Integers, Sequences, FiniteSets, Functions, FiniteSetsExt, SequencesExt, TLC

CONSTANTS
  Routers,          \* router IDs, positive numbers
  BABEL_INFINITY,
  IP4_MAX, IP6_MAX, \* bytes of an address in a packet
  SeqnoModulus,     \* 2^16 in the code
  BABEL_SEQNO_REQUEST_RETRY,
  Configs           \* networks: links with costs, origins and what may happen

VARIABLES conf, link, r, ch, done

vars == <<conf, link, r, ch, done>>

None == 0
INF == BABEL_INFINITY

\* The links of a network are the sets of two routers in the domain of conf.cost.
Links == DOMAIN conf.cost
Ends == {p \in Routers \X Routers : {p[1], p[2]} \in Links /\ p[1] # p[2]}
Nbrs(a) == {b \in Routers : <<a, b>> \in Ends}

ge_mod64k(x, y) == (x - y) % SeqnoModulus < SeqnoModulus \div 2
gt_mod64k(x, y) == x # y /\ (y - x) % SeqnoModulus > SeqnoModulus \div 2
Succ(x) == (x + 1) % SeqnoModulus

babel_init_entry ==
    [has |-> FALSE, valid |-> "DUMMY", rid |-> 0, seqno |-> 0, metric |-> INF, age |-> 0,
     sel |-> None, unreachable |-> FALSE]

NoNbr == [known |-> FALSE, hello |-> FALSE, txcost |-> INF, cost |-> INF]
NoRte == [k |-> "none"]

\* babel_start(): a router that has no interface up.
Started(a, static) ==
    [id |-> a, seqno |-> 1, inc |-> FALSE, triggered |-> FALSE,
     up |-> [n \in Nbrs(a) |-> FALSE], want |-> [n \in Nbrs(a) |-> "no"],
     due |-> [n \in Nbrs(a) |-> FALSE], nbr |-> [n \in Nbrs(a) |-> NoNbr],
     e |-> babel_init_entry, rt |-> <<>>, src |-> <<>>, req |-> <<>>,
     static |-> static, own |-> NoRte, exp |-> NoRte,
     q |-> [n \in Nbrs(a) |-> <<>>], pk |-> [n \in Nbrs(a) |-> <<>>]]

babel_enqueue(s, n, msg) == [s EXCEPT !.q[n] = Append(@, msg)]
babel_send_unicast(s, n, msg) == [s EXCEPT !.pk[n] = Append(@, <<msg>>)]
EnqueueAll(s, msg) == [s EXCEPT !.q = [n \in DOMAIN @ |-> Append(@[n], msg)]]

(***************************************************************************)
(* Triggered updates.  due says that e->updated is not before the          *)
(* want_triggered of the interface.                                        *)
(***************************************************************************)

babel_trigger_iface_update(s, n) ==
    IF ~s.up[n] \/ s.want[n] # "no" THEN s
    ELSE [s EXCEPT !.want[n] = "since", !.due[n] = FALSE]

babel_trigger_update(s) ==
    IF s.triggered THEN s
    ELSE [FoldSet(LAMBDA n, x : babel_trigger_iface_update(x, n), s, DOMAIN s.up)
            EXCEPT !.triggered = TRUE]

Updated(s) ==
    [s EXCEPT !.e.age = 0, !.due = [n \in DOMAIN @ |-> s.want[n] # "no"]]

(***************************************************************************)
(* The route of the table of the core, and what the core tells of it.      *)
(***************************************************************************)

babel_rt_notify(s, new) ==
    LET rid == IF new.k = "static" THEN s.id ELSE new.rid
        changed == s.e.valid # "VALID" \/ s.e.rid # rid
        s1 == IF changed THEN Updated(babel_trigger_update(s)) ELSE s
    IN  IF new.k # "none"
        THEN [s1 EXCEPT !.e.has = TRUE, !.e.valid = "VALID", !.e.rid = rid,
                        !.e.seqno = IF new.k = "static" THEN s.seqno ELSE new.seqno,
                        !.e.metric = IF new.k = "static" THEN 0 ELSE new.metric]
        ELSE IF s.e.valid # "VALID" THEN s
        ELSE Updated(babel_trigger_update([s EXCEPT !.e.valid = "STALE", !.e.metric = INF]))

\* rte_update2() and babel_preexport(): the static route is preferred, and an
\* own unreachable route is not exported.
Announced(s) ==
    LET best == IF s.static THEN [k |-> "static"]
                ELSE IF s.own.k = "route" THEN s.own ELSE NoRte
    IN  IF best = s.exp THEN s ELSE babel_rt_notify([s EXCEPT !.exp = best], best)

babel_announce_rte(s) ==
    LET n == s.e.sel
        own == IF n # None
               THEN [k |-> "route", rid |-> s.rt[n].rid, seqno |-> s.rt[n].seqno,
                     metric |-> s.rt[n].metric, via |-> n]
               ELSE IF s.e.valid # "DUMMY" /\ s.e.rid # s.id THEN [k |-> "unreachable"]
               ELSE NoRte
    IN  Announced([s EXCEPT !.own = own, !.e.unreachable = own.k = "unreachable"])

babel_announce_retraction(s) == Announced([s EXCEPT !.own = NoRte, !.e.unreachable = FALSE])

(***************************************************************************)
(* Sequence number requests                                                *)
(***************************************************************************)

SeqnoRequest(rid, sr) ==
    [t |-> "seqno_request", rid |-> rid, seqno |-> sr.seqno, hop_count |-> sr.hop_count]

babel_send_seqno_request(s, rid, sr, target) ==
    IF target # None THEN babel_send_unicast(s, target, SeqnoRequest(rid, sr))
    ELSE EnqueueAll(s, SeqnoRequest(rid, sr))

InitialHops == Cardinality(Routers) + 1

\* A forwarded request suppresses duplicates until the next round.
babel_add_seqno_request(s, rid, seqno, hop_count, target) ==
    LET old == rid \in DOMAIN s.req
        sr == s.req[rid]
        new == [seqno |-> seqno, hop_count |-> IF hop_count = 0 THEN InitialHops ELSE hop_count,
                count |-> 0, forwarded |-> target # None /\ (old => sr.forwarded), dup |-> TRUE]
    IN  IF /\ old
           /\ ge_mod64k(sr.seqno, seqno)
           /\ ~sr.forwarded \/ (target # None /\ sr.dup)
        THEN s
        ELSE babel_send_seqno_request([s EXCEPT !.req = (rid :> new) @@ @], rid, new, target)

babel_generate_seqno_request(s, rid, seqno, target) ==
    babel_send_seqno_request(s, rid, [seqno |-> seqno, hop_count |-> InitialHops], target)

Satisfies(s, rid, seqno) == rid \in DOMAIN s.req /\ ge_mod64k(seqno, s.req[rid].seqno)

babel_expire_requests(s) ==
    LET Step(x, rid) ==
            LET sr == x.req[rid]
                sr1 == [sr EXCEPT !.count = @ + 1]
            IN  IF ~sr.forwarded /\ sr.count < BABEL_SEQNO_REQUEST_RETRY
                THEN babel_send_seqno_request([x EXCEPT !.req[rid] = sr1], rid, sr1, None)
                ELSE IF sr.forwarded /\ sr.dup THEN [x EXCEPT !.req[rid].dup = FALSE]
                ELSE [x EXCEPT !.req = Restrict(@, DOMAIN @ \ {rid})]
    IN  FoldSet(LAMBDA rid, x : Step(x, rid), s, DOMAIN s.req)

(***************************************************************************)
(* Feasibility and route selection                                         *)
(***************************************************************************)

babel_is_feasible(s, rid, seqno, metric) ==
    \/ rid \notin DOMAIN s.src
    \/ metric = INF
    \/ gt_mod64k(seqno, s.src[rid].seqno)
    \/ seqno = s.src[rid].seqno /\ metric < s.src[rid].metric

babel_compute_metric(s, n, metric) == Min({metric + s.nbr[n].cost, INF})

\* The route that replaces the selected one, None for none; mod is the route
\* that was modified, None for any.
Best(s, mod) ==
    LET old == s.e.sel
        kept == old # None /\ s.rt[old].metric < INF /\ s.rt[old].feasible
        limit == IF kept THEN s.rt[old].metric ELSE INF
        better == {n \in DOMAIN s.rt : s.rt[n].feasible /\ s.rt[n].metric < limit}
        least == {n \in better : \A m \in better : s.rt[n].metric <= s.rt[m].metric}
    IN  IF mod # None /\ mod # old
        THEN IF s.rt[mod].feasible
                /\ s.rt[mod].metric < (IF old = None THEN INF ELSE s.rt[old].metric)
             THEN mod ELSE old
        ELSE IF better = {} THEN (IF kept THEN old ELSE None)
        ELSE CHOOSE n \in least : \A m \in least : n <= m

babel_select_route(s, mod) ==
    LET best == Best(s, mod)
        old == s.e.sel
        lost == best = None /\ old # None
        s1 == IF lost /\ s.e.valid # "DUMMY" /\ s.rt[old].rid = s.e.rid
              THEN babel_add_seqno_request(s, s.rt[old].rid, Succ(s.rt[old].seqno), 0, None)
              ELSE s
    IN  IF (best = None /\ old = None) \/ (mod # None /\ mod # old /\ best = old) THEN s
        ELSE babel_announce_rte([s1 EXCEPT !.e.sel = best])

babel_retract_route(s, n) ==
    LET s1 == [s EXCEPT !.rt[n].metric = INF, !.rt[n].adv = INF]
    IN  IF s.e.sel = n THEN babel_select_route(s1, n) ELSE s1

babel_flush_route(s, n) ==
    [s EXCEPT !.rt = Restrict(@, DOMAIN @ \ {n}), !.e.sel = IF @ = n THEN None ELSE @]

(***************************************************************************)
(* Neighbors                                                               *)
(***************************************************************************)

babel_get_neighbor(s, n) ==
    IF s.nbr[n].known THEN s ELSE [s EXCEPT !.nbr[n] = [NoNbr EXCEPT !.known = TRUE]]

rxcost(s, n) == IF s.nbr[n].hello /\ s.up[n] THEN conf.cost[{s.id, n}] ELSE INF

babel_update_cost(s, n) ==
    LET cost == IF s.nbr[n].hello /\ s.up[n] THEN s.nbr[n].txcost ELSE INF
        s1 == [s EXCEPT !.nbr[n].cost = cost]
        s2 == [s1 EXCEPT !.rt[n].metric = babel_compute_metric(s1, n, s.rt[n].adv)]
    IN  IF cost = s.nbr[n].cost THEN s
        ELSE IF n \notin DOMAIN s.rt THEN s1
        ELSE babel_select_route(s2, n)

babel_flush_neighbor(s, n) ==
    LET s1 == IF n \in DOMAIN s.rt THEN babel_flush_route(babel_retract_route(s, n), n) ELSE s
    IN  [s1 EXCEPT !.nbr[n] = NoNbr]

babel_build_ihu(s, n) == [t |-> "ihu", rxcost |-> rxcost(s, n)]
babel_send_ihu(s, n) == babel_send_unicast(s, n, babel_build_ihu(s, n))

babel_send_hello(s, n) ==
    LET s1 == babel_enqueue(s, n, [t |-> "hello"])
    IN  IF s.nbr[n].hello THEN babel_enqueue(s1, n, babel_build_ihu(s, n)) ELSE s1

(***************************************************************************)
(* Sending updates                                                         *)
(***************************************************************************)

babel_get_source(s, rid, seqno) ==
    IF rid \in DOMAIN s.src THEN s
    ELSE [s EXCEPT !.src = (rid :> [seqno |-> seqno, metric |-> INF, age |-> 0]) @@ @]

\* A new sequence number does not replace the feasibility distance.
RedistributedOld(s) ==
    LET rid == s.e.rid
        s1 == babel_get_source(s, rid, s.e.seqno)
        d == s1.src[rid]
    IN  IF rid = s.id THEN s
        ELSE IF s.e.seqno = d.seqno /\ s.e.metric < d.metric
        THEN [s1 EXCEPT !.src[rid] = [seqno |-> s.e.seqno, metric |-> s.e.metric, age |-> 0]]
        ELSE [s1 EXCEPT !.src[rid].age = 0]

\* The feasibility distance of a network that is redistributed.
Redistributed(s) ==
    LET rid == s.e.rid
        s1 == babel_get_source(s, rid, s.e.seqno)
        d == s1.src[rid]
        better == \/ gt_mod64k(s.e.seqno, d.seqno)
                  \/ s.e.seqno = d.seqno /\ s.e.metric < d.metric
    IN  IF rid = s.id THEN s
        ELSE IF better
        THEN [s1 EXCEPT !.src[rid] = [seqno |-> s.e.seqno, metric |-> s.e.metric, age |-> 0]]
        ELSE [s1 EXCEPT !.src[rid].age = 0]

babel_send_update(s, n, full) ==
    LET s1 == IF s.inc THEN [s EXCEPT !.seqno = Succ(@), !.inc = FALSE] ELSE s
        new == s1.e.valid # "DUMMY" /\ s1.e.rid = s.id /\ gt_mod64k(s1.seqno, s1.e.seqno)
        s2 == IF new THEN Updated([s1 EXCEPT !.e.seqno = s1.seqno]) ELSE s1
    IN  IF s2.e.valid = "DUMMY" \/ ~(full \/ s2.due[n]) THEN s2
        ELSE Redistributed(babel_enqueue(s2, n, [t |-> "update", rid |-> s2.e.rid,
                                                 seqno |-> s2.e.seqno, metric |-> s2.e.metric]))

babel_send_retraction(s, n) ==
    babel_enqueue(s, n, [t |-> "update", rid |-> 0, seqno |-> s.seqno, metric |-> INF])

\* babel_iface_timer(): the regular update, and the triggered one.
Sent(s, n) == [s EXCEPT !.want[n] = "no", !.due[n] = FALSE, !.triggered = FALSE]
RegularUpdate(s, n) == Sent(babel_send_update(babel_send_hello(s, n), n, TRUE), n)
TriggeredUpdate(s, n) == Sent(babel_send_update(s, n, s.want[n] = "full"), n)

babel_iface_start(s, n) ==
    LET s1 == babel_send_hello([s EXCEPT !.up[n] = TRUE, !.want[n] = "no", !.due[n] = FALSE], n)
        s2 == babel_enqueue(babel_enqueue(s1, n, [t |-> "wildcard_retraction"]), n,
                            [t |-> "wildcard_request"])
    IN  babel_send_update(s2, n, TRUE)

babel_iface_stop(s, n) ==
    LET s1 == IF n \in DOMAIN s.rt THEN babel_retract_route(s, n) ELSE s
    IN  [s1 EXCEPT !.up[n] = FALSE]

(***************************************************************************)
(* Handlers of the TLVs from neighbor n                                    *)
(***************************************************************************)

babel_handle_hello(s, n) ==
    LET s1 == [babel_get_neighbor(s, n) EXCEPT !.nbr[n].hello = TRUE]
        s2 == babel_update_cost(s1, n)
    IN  IF s.nbr[n].hello THEN s2 ELSE babel_send_ihu(s2, n)

babel_handle_ihu(s, n, msg) ==
    babel_update_cost([babel_get_neighbor(s, n) EXCEPT !.nbr[n].txcost = msg.rxcost], n)

Retraction(s, n) == IF n \in DOMAIN s.rt THEN babel_retract_route(s, n) ELSE s

babel_handle_update(s, n, msg) ==
    LET feasible == babel_is_feasible(s, msg.rid, msg.seqno, msg.metric)
        metric == babel_compute_metric(s, n, msg.metric)
        best == s.e.sel
        s1 == IF /\ ~feasible /\ metric # INF
                 /\ best = None \/ best = n \/ metric < s.rt[best].metric
              THEN babel_generate_seqno_request(s, msg.rid, Succ(s.src[msg.rid].seqno), n)
              ELSE s
        route == [seqno |-> msg.seqno, metric |-> metric, adv |-> msg.metric, rid |-> msg.rid,
                  feasible |-> feasible, age |-> 0]
        old == IF n \in DOMAIN s.rt THEN s.rt[n] ELSE [route EXCEPT !.rid = 0]
        s2 == [s1 EXCEPT !.rt = (n :> route) @@ @, !.e.has = TRUE]
        s3 == IF ~Satisfies(s2, msg.rid, msg.seqno) THEN s2
              ELSE Updated(babel_trigger_update(
                       [s2 EXCEPT !.req = Restrict(@, DOMAIN @ \ {msg.rid})]))
    IN  IF ~s.nbr[n].known \/ msg.rid = s.id THEN s
        ELSE IF msg.metric = INF THEN Retraction(s, n)
        ELSE IF best = n /\ ~feasible /\ msg.rid = s.rt[n].rid THEN s1
        ELSE IF [old EXCEPT !.age = 0] = route THEN s2
        ELSE babel_select_route(s3, n)

WildcardRetraction(s, n) == IF s.nbr[n].known THEN Retraction(s, n) ELSE s

babel_handle_route_request(s, n) ==
    IF ~s.e.has THEN babel_send_retraction(s, n)
    ELSE Updated(babel_trigger_iface_update(s, n))

babel_find_seqno_request_target(s, skip) ==
    LET others == DOMAIN s.rt \ {skip}
        feasible == {n \in others : s.rt[n].feasible}
        from == IF feasible # {} THEN feasible ELSE others
    IN  IF from = {} THEN None
        ELSE CHOOSE n \in from : \A m \in from : s.rt[n].metric <= s.rt[m].metric

babel_handle_seqno_request(s, n, msg) ==
    LET target == babel_find_seqno_request_target(s, n)
    IN  IF s.e.valid = "DUMMY" \/ s.e.metric = INF THEN s
        ELSE IF s.e.rid # msg.rid \/ ge_mod64k(s.e.seqno, msg.seqno)
        THEN Updated(babel_trigger_iface_update(s, n))
        ELSE IF msg.rid = s.id THEN babel_trigger_update([s EXCEPT !.inc = TRUE])
        ELSE IF msg.hop_count > 1 /\ s.nbr[n].known /\ target # None
        THEN babel_add_seqno_request(s, msg.rid, msg.seqno, msg.hop_count - 1, target)
        ELSE s

handle_tlv(s, n, msg) ==
    CASE msg.t = "hello" -> babel_handle_hello(s, n)
      [] msg.t = "ihu" -> babel_handle_ihu(s, n, msg)
      [] msg.t = "update" -> babel_handle_update(s, n, msg)
      [] msg.t = "wildcard_retraction" -> WildcardRetraction(s, n)
      [] msg.t = "wildcard_request" -> [s EXCEPT !.want[n] = "full"]
      [] msg.t = "route_request" -> babel_handle_route_request(s, n)
      [] msg.t = "seqno_request" -> babel_handle_seqno_request(s, n, msg)

babel_process_packet(s, n, pkt) == FoldLeft(LAMBDA x, msg : handle_tlv(x, n, msg), s, pkt)

(***************************************************************************)
(* babel_timer(): one run of it in every round, after the updates.  A      *)
(* route is asked for after a round without an update and expires after    *)
(* another one; a source lasts longer than the routes of all routers.      *)
(***************************************************************************)

SourceRounds == 4

ExpireRoute(s, n) ==
    LET route == s.rt[n]
        s1 == IF s.e.sel = n
              THEN babel_send_unicast(s, n, [t |-> "route_request"]) ELSE s
    IN  IF route.age = 0 THEN [s EXCEPT !.rt[n].age = 1]
        ELSE IF route.age = 1 THEN [s1 EXCEPT !.rt[n].age = 2]
        ELSE IF route.metric < INF
        THEN [s EXCEPT !.rt[n].metric = INF, !.rt[n].adv = INF, !.rt[n].age = 2]
        ELSE babel_flush_route(s, n)

babel_expire_sources(s) ==
    LET keep == {rid \in DOMAIN s.src : s.src[rid].age < SourceRounds}
    IN  [s EXCEPT !.src = [rid \in keep |-> [@[rid] EXCEPT !.age = @ + 1]]]

\* The routes of the entry, its selected route, its own state, and the entry.
ExpireAll(s) == FoldSet(LAMBDA n, x : ExpireRoute(x, n), s, DOMAIN s.rt)

Reselect(s, sel) ==
    babel_select_route([s EXCEPT !.e.sel = IF sel \in DOMAIN s.rt THEN sel ELSE None], None)

ExpireEntry(s) ==
    IF s.e.valid # "STALE" THEN s
    ELSE IF s.e.age = 1 THEN [s EXCEPT !.e.valid = "DUMMY", !.e.age = 0]
    ELSE [s EXCEPT !.e.age = 1]

ExpireUnreachable(s) ==
    IF s.e.unreachable /\ (s.e.valid = "DUMMY" \/ s.e.rid = s.id)
    THEN babel_announce_retraction(s) ELSE s

RemoveEmpty(s) ==
    IF s.e.valid = "DUMMY" /\ s.rt = <<>> /\ s.src = <<>> /\ s.req = <<>>
    THEN [s EXCEPT !.e = babel_init_entry] ELSE s

babel_expire_routes(s) ==
    LET changed == s.e.sel # None /\ s.rt[s.e.sel].age = 2
        Select(x) == IF changed THEN Reselect(x, s.e.sel) ELSE x
    IN  RemoveEmpty(babel_expire_requests(babel_expire_sources(
            ExpireUnreachable(ExpireEntry(Select(ExpireAll(s)))))))

\* Nothing is heard of a neighbor over a link that is cut.
babel_expire_neighbors(s) ==
    LET gone == {n \in DOMAIN s.nbr : s.nbr[n].known
                                      /\ (~s.nbr[n].hello \/ link[{s.id, n}] = "cut")}
    IN  FoldSet(LAMBDA n, x : babel_flush_neighbor(x, n), s, gone)

babel_timer(s) == babel_expire_neighbors(babel_expire_routes(s))

(***************************************************************************)
(* The network                                                             *)
(***************************************************************************)

NoPackets == [p \in Ends |-> <<>>]

\* Routers that have not met yet; they have counted to conf.seqno for others.
Init ==
    /\ conf \in Configs
    /\ link = [l \in Links |-> "down"]
    /\ r = [a \in Routers |-> Announced([Started(a, a \in conf.origins) EXCEPT !.seqno = conf.seqno])]
    /\ ch = NoPackets
    /\ done = {}

\* The record after a handler is stored, and what it has queued is sent: the
\* unicast packets, then the queues of the interfaces.
Become(a, s, c) ==
    /\ r' = [r EXCEPT ![a] = [s EXCEPT !.q = [n \in DOMAIN @ |-> <<>>],
                                       !.pk = [n \in DOMAIN @ |-> <<>>]]]
    /\ ch' = [p \in Ends |->
                IF p[1] # a \/ link[{p[1], p[2]}] # "up" THEN c[p]
                ELSE c[p] \o s.pk[p[2]] \o (IF s.q[p[2]] = <<>> THEN <<>> ELSE <<s.q[p[2]]>>)]

Built == conf.order = <<>>

Receive(a, b) ==
    /\ ch[<<a, b>>] # <<>>
    /\ Become(b, babel_process_packet(r[b], a, Head(ch[<<a, b>>])),
              [ch EXCEPT ![<<a, b>>] = Tail(@)])
    /\ UNCHANGED <<conf, link, done>>

Lose(a, b) ==
    /\ Built
    /\ conf.losses > 0
    /\ ch[<<a, b>>] # <<>>
    /\ ch' = [ch EXCEPT ![<<a, b>>] = Tail(@)]
    /\ conf' = [conf EXCEPT !.losses = @ - 1]
    /\ UNCHANGED <<link, r, done>>

Trigger(a, n) ==
    /\ r[a].up[n]
    /\ r[a].want[n] # "no"
    /\ Become(a, TriggeredUpdate(r[a], n), ch)
    /\ UNCHANGED <<conf, link, done>>

\* babel_iface_update_state(): the interface follows its link.
IfaceState(a, n) ==
    LET up == link[{a, n}] # "down"
    IN  /\ r[a].up[n] # up
        /\ Become(a, IF up THEN babel_iface_start(r[a], n) ELSE babel_iface_stop(r[a], n), ch)
        /\ UNCHANGED <<conf, link, done>>

\* Nothing is under way that takes less than the slow timers.
Quiet ==
    /\ \A p \in Ends : /\ ch[p] = <<>>
                       /\ r[p[1]].up[p[2]] = (link[{p[1], p[2]}] # "down")
                       /\ r[p[1]].up[p[2]] => r[p[1]].want[p[2]] = "no"

\* The network is built link by link, then anything may happen to it.
Connect ==
    /\ Quiet
    /\ conf.order # <<>>
    /\ link' = [link EXCEPT ![Head(conf.order)] = "up"]
    /\ conf' = [conf EXCEPT !.order = Tail(@)]
    /\ UNCHANGED <<r, ch, done>>

Updates == {p \in Ends : r[p[1]].up[p[2]]}
Expirations == {<<a, None>> : a \in Routers}

Regular(a, n) ==
    /\ Built
    /\ r[a].up[n]
    /\ Become(a, RegularUpdate(r[a], n), ch)
    /\ UNCHANGED link
    /\ \/ /\ Quiet
          /\ <<a, n>> \notin done
          /\ done' = done \cup {<<a, n>>}
          /\ UNCHANGED conf
       \/ /\ ~Quiet
          /\ conf.early > 0
          /\ conf' = [conf EXCEPT !.early = @ - 1]
          /\ UNCHANGED done

Expire(a) ==
    /\ Built
    /\ Quiet
    /\ Updates \subseteq done
    /\ <<a, None>> \notin done
    /\ done' = IF Updates \cup Expirations \subseteq done \cup {<<a, None>>} THEN {}
               ELSE done \cup {<<a, None>>}
    /\ Become(a, babel_timer(r[a]), ch)
    /\ UNCHANGED <<conf, link>>

\* What happens to the network.
SetLink(l, state) ==
    /\ Built
    /\ conf.changes > 0
    /\ link[l] # state
    /\ state \in conf.states
    /\ link' = [link EXCEPT ![l] = state]
    /\ ch' = [p \in Ends |-> IF {p[1], p[2]} = l THEN <<>> ELSE ch[p]]
    /\ conf' = [conf EXCEPT !.changes = @ - 1]
    /\ UNCHANGED <<r, done>>

\* The cost of an interface is changed on both sides.
SetCost(l, cost) ==
    /\ Built
    /\ conf.costs > 0
    /\ conf.cost[l] # cost
    /\ conf' = [conf EXCEPT !.cost[l] = cost, !.costs = @ - 1]
    /\ UNCHANGED <<link, r, ch, done>>

SetStatic(a) ==
    /\ Built
    /\ conf.statics > 0
    /\ conf' = [conf EXCEPT !.statics = @ - 1]
    /\ Become(a, Announced([r[a] EXCEPT !.static = ~@]), ch)
    /\ UNCHANGED <<link, done>>

\* babel_shutdown() and babel_start(); a crash sends nothing.
Restart(a, graceful) ==
    LET s == r[a]
        bye == [n \in DOMAIN s.q |-> <<[t |-> "hello"], [t |-> "wildcard_retraction"]>>]
    IN  /\ Built
        /\ conf.restarts > 0
        /\ conf' = [conf EXCEPT !.restarts = @ - 1, !.again = TRUE]
        /\ Become(a, [Announced(Started(a, s.static)) EXCEPT !.q = IF graceful THEN bye ELSE @], ch)
        /\ UNCHANGED <<link, done>>

Next ==
    \/ \E a, b \in Routers : <<a, b>> \in Ends /\ (Receive(a, b) \/ Lose(a, b) \/ Trigger(a, b)
                                                   \/ IfaceState(a, b) \/ Regular(a, b))
    \/ Connect
    \/ \E a \in Routers : Expire(a) \/ SetStatic(a)
    \/ \E a \in Routers, graceful \in BOOLEAN : Restart(a, graceful)
    \/ \E l \in Links : \/ \E state \in {"up", "down", "cut"} : SetLink(l, state)
                        \/ \E cost \in 1..3 : SetCost(l, cost)

\* A step is always possible, so this is the weak fairness of Next.
Spec == Init /\ [][Next]_vars /\ []<><<Next>>_vars

(***************************************************************************)
(* Properties                                                              *)
(***************************************************************************)

TypeOK ==
    \A a \in Routers : LET s == r[a] IN
        /\ s.e.sel # None => s.e.sel \in DOMAIN s.rt
        /\ s.e.valid \in {"DUMMY", "VALID", "STALE"}
        /\ s.e.valid # "DUMMY" => s.e.has

\* The length of the shortest path to an origin over the links that work.
Hops(dist) ==
    [a \in Routers |->
       Min({dist[a]} \cup {Min({INF, dist[b] + conf.cost[{a, b}]}) :
                              b \in {b \in Nbrs(a) : link[{a, b}] = "up"}})]
RECURSIVE Shortest(_)
Shortest(dist) == IF Hops(dist) = dist THEN dist ELSE Shortest(Hops(dist))
Distance == Shortest([a \in Routers |-> IF r[a].static THEN 0 ELSE INF])

\* Every router that has a path has given the core a shortest one, and the others
\* have left it no route, not even an unreachable one.
Right ==
    \A a \in Routers :
        ~r[a].static =>
            IF Distance[a] = INF THEN r[a].own = NoRte
            ELSE r[a].own.k = "route" /\ r[a].own.metric = Distance[a]

\* Whatever is lost, fails, restarts or comes back, when the network has come to
\* rest every router has found its shortest path: no one starves for want of a
\* feasible route and no loop remains (babel_select_route, babel_handle_update,
\* babel_handle_seqno_request, babel_expire_routes).
Settles == <>[]Right

\* No router tells its neighbors of a route that is better than its own
\* feasibility distance, so that no neighbor can offer that route back to it as
\* a feasible one; a router that was restarted has forgotten its distances
\* (babel_send_update).
DistancesKept ==
    ~conf.again =>
        \A p \in Ends : \A i \in DOMAIN ch[p] : \A j \in DOMAIN ch[p][i] :
            LET msg == ch[p][i][j]
                src == r[p[1]].src
            IN  (msg.t = "update" /\ msg.metric < INF /\ msg.rid # p[1]) =>
                    /\ msg.rid \in DOMAIN src
                    /\ ~gt_mod64k(msg.seqno, src[msg.rid].seqno)
                    /\ msg.seqno = src[msg.rid].seqno => msg.metric >= src[msg.rid].metric

\* The next hops of the routers that forward: a router with a static route
\* delivers the packet itself.
NextHop(a) == IF r[a].exp.k = "route" THEN r[a].exp.via ELSE None
RECURSIVE Follow(_, _)
Follow(a, k) == IF k = 0 \/ a = None THEN a ELSE Follow(NextHop(a), k - 1)

\* "The Babel protocol is a loop-avoiding distance-vector routing protocol": the
\* selected routes of the routers never form a loop (babel_is_feasible,
\* babel_select_route).
NoLoop == \A a \in Routers : Follow(a, Cardinality(Routers)) = None

-----------------------------------------------------------------------------
(***************************************************************************)
(* Packets: how queued messages are written into packets, with the router  *)
(* ID, the next hop and the leading bytes of a prefix left out where the   *)
(* reader knows them, and how they are read.                               *)
(*                                                                         *)
(* An address is a record of family and number.  The prefix of a network   *)
(* is a sequence of bytes, of which a packet holds BYTES(plen).  Intervals *)
(* are left out.  Sizes are those of the structures of packets.c.          *)
(***************************************************************************)

NoAddr == [af |-> 0, ip |-> 0]
NoPrefix == [type |-> "none", addr |-> <<>>, plen |-> 0, src |-> <<>>, splen |-> 0]
BYTES(plen) == (plen + 7) \div 8
NET_SIZE(net) == BYTES(net.plen)

\* get_ip4(), get_ip6(): the bytes of a whole address.
Whole(bytes, max) == bytes \o [i \in 1..(max - Len(bytes)) |-> 0]

(***************************************************************************)
(* Writing.  The result has the TLVs, their length and the state; length 0 *)
(* says that the message does not fit.                                     *)
(***************************************************************************)

WriteState(ifaddr) ==
    [rid |-> 0, seen |-> FALSE, nh4 |-> NoAddr, nh6 |-> ifaddr, def |-> <<>>, pxlen |-> 0]

Written(tlvs, len, ws) == [tlvs |-> tlvs, len |-> len, ws |-> ws]
NoSpace(ws) == Written(<<>>, 0, ws)

min_length(type) ==
    CASE type \in {"ACK"} -> 4 [] type \in {"HELLO", "IHU", "ACK_REQ"} -> 8
      [] type \in {"ROUTER_ID", "UPDATE"} -> 12 [] type = "NEXT_HOP" -> 4
      [] type = "ROUTE_REQUEST" -> 4 [] type = "SEQNO_REQUEST" -> 16

\* The sub-TLV and its length, which is negative when there is no space.
babel_write_source_prefix(net, room) ==
    LET len == 3 + BYTES(net.splen)
    IN  IF net.splen = 0 THEN [sub |-> <<>>, len |-> 0]
        ELSE IF len > room THEN [sub |-> <<>>, len |-> -1]
        ELSE [sub |-> <<[type |-> "SOURCE_PREFIX", plen |-> net.splen, addr |-> net.src]>>,
              len |-> len]

babel_write_timestamp(type, stamp, room) ==
    LET len == IF type = "HELLO" THEN 6 ELSE 10
    IN  IF ~stamp THEN [sub |-> <<>>, len |-> 0]
        ELSE IF len > room THEN [sub |-> <<>>, len |-> -1]
        ELSE [sub |-> <<[type |-> "TIMESTAMP"]>>, len |-> len]

babel_write_ack(msg, ws, room) ==
    Written(<<[type |-> "ACK", nonce |-> msg.nonce, sub |-> <<>>]>>, 4, ws)

babel_write_hello(msg, ws, room) ==
    LET t == babel_write_timestamp("HELLO", msg.tstamp, room)
    IN  IF t.len < 0 THEN NoSpace(ws)
        ELSE Written(<<[type |-> "HELLO", seqno |-> msg.seqno, sub |-> t.sub]>>, 8 + t.len, ws)

\* Address 0 stands for one that is not link-local.
babel_write_ihu(msg, ws, room) ==
    LET ll == msg.addr # 0
        t == babel_write_timestamp("IHU", msg.tstamp, room)
    IN  IF (ll /\ room < 16) \/ t.len < 0 THEN NoSpace(ws)
        ELSE Written(<<[type |-> "IHU", ae |-> IF ll THEN "IP6_LL" ELSE "WILDCARD",
                        rxcost |-> msg.rxcost, addr |-> msg.addr, sub |-> t.sub]>>,
                     (IF ll THEN 16 ELSE 8) + t.len, ws)

babel_write_router_id(rid, ws) ==
    Written(<<[type |-> "ROUTER_ID", rid |-> rid, sub |-> <<>>]>>, 12,
            [ws EXCEPT !.rid = rid, !.seen = TRUE])

babel_write_next_hop(addr, ws, room) ==
    LET new == (addr.af = 4 /\ addr # ws.nh4) \/ (addr.af = 6 /\ addr # ws.nh6)
        len == 4 + (IF addr.af = 4 THEN IP4_MAX ELSE IP6_MAX)
        ws1 == IF addr.af = 4 THEN [ws EXCEPT !.nh4 = addr] ELSE [ws EXCEPT !.nh6 = addr]
    IN  IF ~new THEN Written(<<>>, 0, ws)
        ELSE IF len > room THEN Written(<<>>, -1, ws)
        ELSE Written(<<[type |-> "NEXT_HOP", addr |-> addr, sub |-> <<>>]>>, len, ws1)

bytes_equal(b1, b2, max) ==
    Max({0} \cup {n \in 1..max : SubSeq(b1, 1, n) = SubSeq(b2, 1, n)})

V6(net) == net.type \in {"ip6", "sadr"}

\* The source prefix of a network, if it has one.
SourcePrefix(net, room) ==
    IF net.type = "sadr" THEN babel_write_source_prefix(net, room) ELSE [sub |-> <<>>, len |-> 0]

\* The router ID and the next hop, where the reader does not know them.
WriteRouterId(msg, ws) ==
    IF msg.metric < BABEL_INFINITY /\ (~ws.seen \/ msg.rid # ws.rid)
    THEN babel_write_router_id(msg.rid, ws) ELSE Written(<<>>, 0, ws)

Followed(a, b) == Written(a.tlvs \o b.tlvs, IF b.len < 0 THEN -1 ELSE a.len + b.len, b.ws)

WriteNextHop(msg, a, room) ==
    IF msg.metric < BABEL_INFINITY
    THEN Followed(a, babel_write_next_hop(msg.next_hop, a.ws, room - a.len)) ELSE a

\* The bytes of the prefix that are those of the default prefix.
Omitted(net, ws) ==
    IF V6(net) THEN bytes_equal(Whole(net.addr, IP6_MAX), Whole(ws.def, IP6_MAX),
                                Min({net.plen, ws.pxlen}) \div 8)
    ELSE 0

UpdateTlv(msg, net, omit, sub) ==
    [type |-> "UPDATE",
     ae |-> IF msg.wildcard THEN "WILDCARD" ELSE IF V6(net) THEN "IP6"
            ELSE IF msg.next_hop.af = 4 THEN "IP4" ELSE "IP4_VIA_IP6",
     plen |-> net.plen, omitted |-> omit, defp |-> V6(net) /\ omit = 0, seqno |-> msg.seqno,
     metric |-> msg.metric, addr |-> SubSeq(net.addr, omit + 1, NET_SIZE(net)), sub |-> sub]

\* The update after what was written before it (h), with its source prefix (s).
WriteUpdate(msg, net, ws, room, h, omit, s) ==
    IF h.len < 0 \/ h.len + 12 + NET_SIZE(net) > room \/ s.len < 0 THEN NoSpace(ws)
    ELSE Written(Append(h.tlvs, UpdateTlv(msg, net, omit, s.sub)),
                 h.len + 12 + NET_SIZE(net) - omit + s.len,
                 IF V6(net) /\ omit = 0 THEN [h.ws EXCEPT !.def = net.addr, !.pxlen = net.plen]
                 ELSE h.ws)

WriteRest(msg, ws, room, h, omit) ==
    WriteUpdate(msg, msg.net, ws, room, h, omit,
                SourcePrefix(msg.net, room - (h.len + 12 + NET_SIZE(msg.net) - omit)))

WriteAfter(msg, ws, room, h) == WriteRest(msg, ws, room, h, Omitted(msg.net, h.ws))

babel_write_update(msg, ws, room) ==
    WriteAfter(msg, ws, room, WriteNextHop(msg, WriteRouterId(msg, ws), room))

\* A request for a network, or for all of them.
Request(msg, type, size, ws, room) ==
    LET net == msg.net
        len == size + NET_SIZE(net)
        s == SourcePrefix(net, room - len)
        ae == IF net.type = "none" THEN "WILDCARD" ELSE IF net.type = "ip4" THEN "IP4" ELSE "IP6"
    IN  IF len > room \/ s.len < 0 THEN NoSpace(ws)
        ELSE Written(<<[type |-> type, ae |-> ae, plen |-> net.plen, addr |-> net.addr,
                        rid |-> msg.rid, seqno |-> msg.seqno, hop_count |-> msg.hop_count,
                        sub |-> s.sub]>>, len + s.len, ws)

babel_write_route_request(msg, ws, room) ==
    Request([net |-> msg.net, rid |-> 0, seqno |-> 0, hop_count |-> 0],
            "ROUTE_REQUEST", 4, ws, room)

babel_write_seqno_request(msg, ws, room) == Request(msg, "SEQNO_REQUEST", 16, ws, room)

babel_write_tlv(msg, ws, room) ==
    IF min_length(msg.type) > room THEN NoSpace(ws)
    ELSE CASE msg.type = "ACK" -> babel_write_ack(msg, ws, room)
           [] msg.type = "HELLO" -> babel_write_hello(msg, ws, room)
           [] msg.type = "IHU" -> babel_write_ihu(msg, ws, room)
           [] msg.type = "UPDATE" -> babel_write_update(msg, ws, room)
           [] msg.type = "ROUTE_REQUEST" -> babel_write_route_request(msg, ws, room)
           [] msg.type = "SEQNO_REQUEST" -> babel_write_seqno_request(msg, ws, room)

\* One packet of as much as fits, and the rest of the queue.
Queued(acc, msg, w, tx_length) ==
    IF acc.full \/ acc.pos >= tx_length \/ w.len = 0
    THEN [acc EXCEPT !.full = TRUE, !.rest = Append(@, msg)]
    ELSE [acc EXCEPT !.tlvs = @ \o w.tlvs, !.pos = @ + w.len, !.ws = w.ws]

babel_write_queue(ifaddr, tx_length, queue) ==
    FoldLeft(LAMBDA acc, msg :
                 Queued(acc, msg, babel_write_tlv(msg, acc.ws, tx_length - acc.pos), tx_length),
             [tlvs |-> <<>>, pos |-> 4, ws |-> WriteState(ifaddr), full |-> FALSE, rest |-> <<>>],
             queue)

\* Packets are written until the queue is empty.
RECURSIVE babel_send_queue(_, _, _), SendRest(_, _, _, _)
babel_send_queue(ifaddr, tx_length, queue) ==
    SendRest(ifaddr, tx_length, queue, babel_write_queue(ifaddr, tx_length, queue))

SendRest(ifaddr, tx_length, queue, w) ==
    IF queue = <<>> \/ w.tlvs = <<>> THEN <<>>
    ELSE <<[tlvs |-> w.tlvs, len |-> w.pos]>> \o babel_send_queue(ifaddr, tx_length, w.rest)

(***************************************************************************)
(* Reading.  The result has the verdict, the message and the state.        *)
(***************************************************************************)

ParseState(saddr, sadr) ==
    [saddr |-> saddr, rid |-> 0, seen |-> FALSE, nh4 |-> NoAddr, nh6 |-> saddr,
     def |-> [ae \in {"IP4", "IP4_VIA_IP6", "IP6"} |-> <<>>], hello |-> FALSE, sadr |-> sadr]

NoMsg == [type |-> "NONE"]
Parsed(res, msg, ps) == [res |-> res, msg |-> msg, ps |-> ps]
PARSE_ERROR(ps) == Parsed("ERROR", NoMsg, ps)
PARSE_IGNORE(ps) == Parsed("IGNORE", NoMsg, ps)

babel_read_ack_req(tlv, ps) ==
    IF tlv.interval = 0 THEN PARSE_ERROR(ps)
    ELSE Parsed("SUCCESS", [type |-> "ACK_REQ", nonce |-> tlv.nonce], ps)

babel_read_hello(tlv, ps) ==
    Parsed("SUCCESS", [type |-> "HELLO", seqno |-> tlv.seqno, tstamp |-> FALSE], ps)

babel_read_ihu(tlv, ps) ==
    IF tlv.ae = "IP4_VIA_IP6" THEN PARSE_ERROR(ps)
    ELSE Parsed("SUCCESS", [type |-> "IHU", ae |-> tlv.ae, rxcost |-> tlv.rxcost,
                            addr |-> IF tlv.ae = "IP6_LL" THEN tlv.addr ELSE 0,
                            tstamp |-> FALSE], ps)

babel_read_router_id(tlv, ps) == PARSE_IGNORE([ps EXCEPT !.rid = tlv.rid, !.seen = TRUE])

babel_read_next_hop(tlv, ps) ==
    IF tlv.addr.af = 0 THEN PARSE_ERROR(ps)
    ELSE PARSE_IGNORE(IF tlv.addr.af = 4 THEN [ps EXCEPT !.nh4 = tlv.addr]
                      ELSE [ps EXCEPT !.nh6 = tlv.addr])

Net(type, max, bytes, plen) ==
    [NoPrefix EXCEPT !.type = type, !.addr = SubSeq(Whole(bytes, max), 1, BYTES(plen)), !.plen = plen]

\* babel_read_update() and babel_read_ip4_prefix().
babel_read_update(tlv, ps) ==
    LET v6 == tlv.ae = "IP6"
        max == IF v6 THEN IP6_MAX ELSE IP4_MAX
        nh == IF tlv.ae = "IP4" THEN ps.nh4 ELSE ps.nh6
        len == BYTES(tlv.plen) - tlv.omitted
        bytes == SubSeq(Whole(ps.def[tlv.ae], max), 1, tlv.omitted) \o SubSeq(tlv.addr, 1, len)
        type == IF ~v6 THEN "ip4" ELSE IF ps.sadr THEN "sadr" ELSE "ip6"
        ps1 == IF tlv.defp THEN [ps EXCEPT !.def[tlv.ae] = Whole(bytes, max)] ELSE ps
        msg == [type |-> "UPDATE", wildcard |-> tlv.ae = "WILDCARD", seqno |-> tlv.seqno,
                metric |-> tlv.metric, rid |-> ps.rid,
                net |-> IF tlv.ae = "WILDCARD" THEN NoPrefix ELSE Net(type, max, bytes, tlv.plen),
                next_hop |-> IF tlv.ae = "WILDCARD" THEN NoAddr ELSE nh]
        retraction == tlv.metric = BABEL_INFINITY
    IN  IF len < 0 \/ len > Len(tlv.addr) THEN PARSE_ERROR(ps)
        ELSE IF tlv.ae = "WILDCARD"
        THEN IF tlv.plen > 0 \/ ~retraction THEN PARSE_ERROR(ps)
             ELSE Parsed("SUCCESS", msg, ps)
        ELSE IF \/ tlv.plen > 8 * max
                \/ tlv.omitted > 0 /\ ps.def[tlv.ae] = <<>>
                \/ ~v6 /\ nh = NoAddr /\ ~retraction
        THEN PARSE_ERROR(ps)
        ELSE IF ~ps.seen /\ ~retraction THEN PARSE_ERROR(ps1)
        ELSE Parsed("SUCCESS", msg, ps1)

RequestedNet(tlv, ps) ==
    IF tlv.ae = "WILDCARD" THEN NoPrefix
    ELSE IF tlv.ae = "IP6"
    THEN Net(IF ps.sadr THEN "sadr" ELSE "ip6", IP6_MAX, tlv.addr, tlv.plen)
    ELSE Net("ip4", IP4_MAX, tlv.addr, tlv.plen)

BadPrefix(tlv) ==
    \/ tlv.plen > 8 * (IF tlv.ae = "IP6" THEN IP6_MAX ELSE IP4_MAX)
    \/ Len(tlv.addr) < BYTES(tlv.plen)

babel_read_route_request(tlv, ps) ==
    IF IF tlv.ae = "WILDCARD" THEN tlv.plen > 0 ELSE BadPrefix(tlv) THEN PARSE_ERROR(ps)
    ELSE Parsed("SUCCESS", [type |-> "ROUTE_REQUEST", full |-> tlv.ae = "WILDCARD",
                            net |-> RequestedNet(tlv, ps)], ps)

babel_read_seqno_request(tlv, ps) ==
    IF tlv.hop_count = 0 \/ tlv.ae = "WILDCARD" \/ BadPrefix(tlv) THEN PARSE_ERROR(ps)
    ELSE Parsed("SUCCESS", [type |-> "SEQNO_REQUEST", net |-> RequestedNet(tlv, ps),
                            rid |-> tlv.rid, seqno |-> tlv.seqno,
                            hop_count |-> tlv.hop_count], ps)

babel_read_source_prefix(sub, p) ==
    LET all == \/ p.msg.type = "UPDATE" /\ p.msg.wildcard
               \/ p.msg.type = "ROUTE_REQUEST" /\ p.msg.full
    IN  IF sub.plen = 0 \/ p.msg.type \notin {"UPDATE", "ROUTE_REQUEST", "SEQNO_REQUEST"}
        THEN PARSE_ERROR(p.ps)
        ELSE IF all \/ p.msg.net.type # "sadr" \/ p.msg.net.splen > 0 THEN PARSE_IGNORE(p.ps)
        ELSE Parsed("SUCCESS", [p.msg EXCEPT !.net.src = sub.addr, !.net.splen = sub.plen], p.ps)

babel_read_timestamp(p) ==
    IF p.msg.type = "HELLO"
    THEN Parsed("SUCCESS", [p.msg EXCEPT !.tstamp = TRUE], [p.ps EXCEPT !.hello = TRUE])
    ELSE IF p.msg.type = "IHU"
    THEN Parsed("SUCCESS", [p.msg EXCEPT !.tstamp = p.ps.hello], p.ps)
    ELSE PARSE_ERROR(p.ps)

babel_read_subtlvs(tlv, p) ==
    LET Step(acc, sub) ==
            IF acc.res # "SUCCESS" THEN acc
            ELSE IF sub.type = "TIMESTAMP" THEN babel_read_timestamp(acc)
            ELSE babel_read_source_prefix(sub, acc)
    IN  FoldLeft(Step, p, tlv.sub)

WithSubtlvs(tlv, p) == IF p.res = "SUCCESS" THEN babel_read_subtlvs(tlv, p) ELSE p

babel_read_tlv(tlv, ps) ==
    WithSubtlvs(tlv,
        CASE tlv.type = "ACK_REQ" -> babel_read_ack_req(tlv, ps)
          [] tlv.type = "HELLO" -> babel_read_hello(tlv, ps)
          [] tlv.type = "IHU" -> babel_read_ihu(tlv, ps)
          [] tlv.type = "ROUTER_ID" -> babel_read_router_id(tlv, ps)
          [] tlv.type = "NEXT_HOP" -> babel_read_next_hop(tlv, ps)
          [] tlv.type = "UPDATE" -> babel_read_update(tlv, ps)
          [] tlv.type = "ROUTE_REQUEST" -> babel_read_route_request(tlv, ps)
          [] tlv.type = "SEQNO_REQUEST" -> babel_read_seqno_request(tlv, ps)
          [] OTHER -> PARSE_IGNORE(ps))

\* The messages for the handlers; an error ends the packet.
Accepted(acc, p) ==
    IF acc.bad THEN acc
    ELSE [msgs |-> IF p.res = "SUCCESS" THEN Append(acc.msgs, p.msg) ELSE acc.msgs,
          ps |-> p.ps, bad |-> p.res = "ERROR"]

\* babel_process_packet(), first loop: the messages that are parsed.
ParsePacket(saddr, sadr, tlvs) ==
    FoldLeft(LAMBDA acc, tlv : Accepted(acc, babel_read_tlv(tlv, acc.ps)),
             [msgs |-> <<>>, ps |-> ParseState(saddr, sadr), bad |-> FALSE], tlvs).msgs

(***************************************************************************)
(* Properties                                                              *)
(***************************************************************************)

\* What the handlers use of a message: a retraction needs no router ID and no
\* next hop, and no acknowledgement is handled.
Meaning(msg) ==
    IF msg.type = "UPDATE" /\ msg.metric = BABEL_INFINITY
    THEN [type |-> "RETRACTION", wildcard |-> msg.wildcard, net |-> msg.net]
    ELSE IF msg.type = "IHU" THEN [type |-> "IHU", rxcost |-> msg.rxcost, addr |-> msg.addr]
    ELSE IF msg.type = "ROUTE_REQUEST" THEN [type |-> msg.type, net |-> msg.net]
    ELSE msg

\* babel_write_timestamp() is given the space before the TLV it follows, so that
\* the last TLV of a packet may be over the limit by the length of a timestamp.
Excess(tlvs) == IF Last(tlvs).sub # <<>> /\ Last(tlvs).sub[1].type = "TIMESTAMP" THEN 10 ELSE 0

Means(msgs) == [i \in DOMAIN msgs |-> Meaning(msgs[i])]

Arrives(sent, pkts, ifaddr, tx_length, sadr) ==
    /\ \A i \in DOMAIN pkts : pkts[i].len <= tx_length + Excess(pkts[i].tlvs)
    /\ Means(FlattenSeq([i \in DOMAIN pkts |-> ParsePacket(ifaddr, sadr, pkts[i].tlvs)]))
       = Means(sent)

\* Whatever is queued arrives: read packet by packet, the messages are those of
\* the queue, in order and with the same meaning, and no packet is longer than
\* the interface allows, but for the timestamp at its end (babel_write_queue,
\* babel_process_packet).
PacketsFaithful(queue, ifaddr, tx_length, sadr) ==
    Arrives(SelectSeq(queue, LAMBDA m : m.type # "ACK"), babel_send_queue(ifaddr, tx_length, queue),
            ifaddr, tx_length, sadr)

\* babel_handle_update(): an update with the own router ID is ignored.
HeardBy(rid, msg) == msg.type # "UPDATE" \/ msg.rid # rid

\* "Router-id, next-hop and seqno are ignored for retractions": a retraction is
\* heard by every router that knows the neighbor, whatever precedes it in the
\* packet (babel_write_update, babel_read_update, babel_handle_update).
RetractionsHeard(queue, ifaddr, rid) ==
    \A pkt \in Range(babel_send_queue(ifaddr, 512, queue)) :
        \A msg \in Range(ParsePacket(ifaddr, FALSE, pkt.tlvs)) :
            (msg.type = "UPDATE" /\ msg.metric = BABEL_INFINITY) => HeardBy(rid, msg)
=============================================================================
