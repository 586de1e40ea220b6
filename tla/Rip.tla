--------------------------------- MODULE Rip ---------------------------------
(***************************************************************************)
(* RIP (proto/rip/rip.c, packets.c) with its two modes: regular updates    *)
(* with timeouts, and triggered RIP for demand circuits, where updates are *)
(* acknowledged and sent again.  Routers are connected by point-to-point   *)
(* links.                                                                  *)
(*                                                                         *)
(* Every router is a record and a handler is an operator on it.  The slow  *)
(* timers (updates, timeouts, garbage collection) run in rounds while      *)
(* nothing else is pending.  Packets are valid and authenticated.          *)
(***************************************************************************)
EXTENDS Integers, Sequences, FiniteSets, FiniteSetsExt, SequencesExt, TLC

CONSTANTS
  Routers, Nets,    \* positive numbers
  infinity,
  SeqModulus,       \* 2^16 in the code
  Configs           \* networks and what may happen

VARIABLES conf, link, r, ch, done

vars == <<conf, link, r, ch, done>>

None == 0
Links == DOMAIN conf.metric
Ends == {p \in Routers \X Routers : p[1] # p[2] /\ {p[1], p[2]} \in Links}
Nbrs(a) == {b \in Routers : <<a, b>> \in Ends}
NetList == SetToSortSeq(Nets, <)

\* The function f, which TLC computes at once.
Now(f) == f @@ <<>>

NoRte == [k |-> "none"]
Closed == [active |-> FALSE, all |-> FALSE, since |-> {}, pos |-> <<>>, done |-> <<>>,
           pending |-> FALSE, seqnum |-> 0, flush |-> FALSE]

rip_start(a) ==
    [id |-> a, static |-> {}, triggered |-> FALSE, kick |-> FALSE,
     en |-> Now([x \in Nets |-> [valid |-> "DUMMY", metric |-> infinity, from |-> None, age |-> 0]]),
     rt |-> Now([x \in Nets |-> <<>>]), own |-> Now([x \in Nets |-> NoRte]), exp |-> Now([x \in Nets |-> NoRte]),
     up |-> Now([n \in Nbrs(a) |-> FALSE]), want |-> Now([n \in Nbrs(a) |-> FALSE]),
     due |-> Now([n \in Nbrs(a) |-> {}]), seen |-> Now([n \in Nbrs(a) |-> FALSE]),
     nbr |-> Now([n \in Nbrs(a) |-> FALSE]), tx |-> Now([n \in Nbrs(a) |-> Closed]),
     req |-> Now([n \in Nbrs(a) |-> FALSE]), q |-> Now([n \in Nbrs(a) |-> <<>>])]

(***************************************************************************)
(* Triggered updates and the routes of the core.  due and since are the    *)
(* networks changed since want_triggered and since tx_changed.             *)
(***************************************************************************)

rip_trigger_update(s) ==
    LET idle == {n \in DOMAIN s.up : s.up[n] /\ ~s.want[n]}
    IN  IF s.triggered \/ idle = {} THEN s
        ELSE [s EXCEPT !.want = Now([n \in DOMAIN @ |-> @[n] \/ n \in idle]),
                       !.due = Now([n \in DOMAIN @ |-> IF n \in idle THEN {} ELSE @[n]]),
                       !.triggered = TRUE]

Changed(s, x) ==
    LET s1 == rip_trigger_update([s EXCEPT !.en[x].age = 0])
    IN  [s1 EXCEPT !.due = Now([n \in DOMAIN @ |-> IF s1.want[n] THEN @[n] \cup {x} ELSE @[n]]),
                   !.tx = Now([n \in DOMAIN @ |-> [@[n] EXCEPT !.since = @ \cup {x}]])]

rip_rt_notify(s, x, new) ==
    LET en == s.en[x]
        metric == IF new.k = "none" THEN infinity ELSE IF new.k = "static" THEN 1 ELSE new.metric
        old == IF en.valid = "DUMMY" THEN -1 ELSE en.metric
        s1 == [s EXCEPT !.en[x] =
                 [@ EXCEPT !.valid = IF new.k = "none" THEN "STALE" ELSE "VALID",
                           !.metric = metric,
                           !.from = IF new.k = "route" THEN new.first ELSE None]]
    IN  IF new.k = "none" /\ en.valid # "VALID" THEN s
        ELSE IF metric # old THEN Changed(s1, x) ELSE s1

\* The static route is preferred by the core.
Announced(s, x) ==
    LET best == IF x \in s.static THEN [k |-> "static"] ELSE s.own[x]
    IN  IF best = s.exp[x] THEN s ELSE rip_rt_notify([s EXCEPT !.exp[x] = best], x, best)

rip_announce_rte(s, x) ==
    LET valid == SelectSeq(s.rt[x], LAMBDA e : e.live)
        own == IF valid = <<>> THEN NoRte
               ELSE [k |-> "route", metric |-> valid[1].metric, first |-> valid[1].from,
                     via |-> {valid[i].from : i \in IF conf.ecmp THEN DOMAIN valid ELSE {1}}]
    IN  Announced([s EXCEPT !.own[x] = own], x)

(***************************************************************************)
(* The list of the incoming routes of a network                            *)
(***************************************************************************)

Positions(s, x, from) == {i \in DOMAIN s.rt[x] : s.rt[x][i].from = from /\ s.rt[x][i].live}

rip_update_rte(s, x, new) ==
    LET better == s.rt[x] # <<>> /\ new.metric < s.rt[x][1].metric
        s0 == IF better THEN [s EXCEPT !.rt[x] = <<>>] ELSE s
        old == s0.rt[x]
        at == Positions(s0, x, new.from)
        i == IF at = {} THEN Len(old) + 1 ELSE CHOOSE i \in at : TRUE
        list == IF at = {} THEN old ELSE RemoveAt(old, i)
        add == list = <<>> \/ new.metric = list[1].metric
        s1 == [s0 EXCEPT !.rt[x] = IF add THEN InsertAt(list, i, new) ELSE list]
    IN  IF at # {} /\ old[i].metric = new.metric THEN [s0 EXCEPT !.rt[x][i] = new]
        ELSE IF (at # {} \/ add) /\ (i = 1 \/ conf.ecmp) THEN rip_announce_rte(s1, x)
        ELSE s1

rip_withdraw_rte(s, x, from) ==
    LET at == Positions(s, x, from)
        i == CHOOSE i \in at : TRUE
        s1 == [s EXCEPT !.rt[x] = RemoveAt(@, i)]
    IN  IF at = {} THEN s
        ELSE IF i = 1 \/ conf.ecmp THEN rip_announce_rte(s1, x) ELSE s1

\* rip_flush_table(): from now on the routes of the neighbor may time out.
rip_flush_table(s, from) ==
    [s EXCEPT !.rt = Now([x \in Nets |-> Now([i \in DOMAIN @[x] |->
        IF @[x][i].from = from /\ @[x][i].live THEN [@[x][i] EXCEPT !.expires = TRUE]
        ELSE @[x][i]])])]

rip_remove_neighbor(s, n) ==
    [s EXCEPT !.nbr[n] = FALSE, !.seen[n] = FALSE, !.kick = TRUE,
              !.rt = Now([x \in Nets |-> Now([i \in DOMAIN @[x] |->
                  IF @[x][i].from = n THEN [@[x][i] EXCEPT !.live = FALSE] ELSE @[x][i]])])]

(***************************************************************************)
(* Update sessions                                                         *)
(***************************************************************************)

Send(s, n, pkt) == [s EXCEPT !.q[n] = Append(@, pkt)]

\* The block of a network for an interface; -1 for none.
Block(s, n, x) ==
    LET en == s.en[x]
        tx == s.tx[n]
        back == en.from = n /\ conf.split_horizon
    IN  IF \/ en.valid = "DUMMY"
           \/ en.valid = "STALE" /\ en.age > 0
           \/ ~tx.all /\ x \notin tx.since
           \/ back /\ ~conf.poison_reverse
        THEN -1
        ELSE IF back THEN infinity ELSE en.metric

\* The networks of the next packet and the position after it.
Filled(s, n) ==
    LET pos == s.tx[n].pos
        sent == SelectSeq(pos, LAMBDA x : Block(s, n, x) # -1)
        fits == SubSeq(sent, 1, Min({Len(sent), conf.blocks}))
        more == Len(sent) > conf.blocks
        i == CHOOSE i \in DOMAIN pos : pos[i] = sent[conf.blocks + 1]
    IN  [nets |-> fits, rest |-> IF more THEN SubSeq(pos, i, Len(pos)) ELSE <<>>]

Response(s, n, nets) ==
    [t |-> "response", flush |-> s.tx[n].flush, seqnum |-> s.tx[n].seqnum,
     rtes |-> Now([i \in DOMAIN nets |-> [net |-> nets[i], metric |-> Block(s, n, nets[i])]])]

RECURSIVE rip_send_response(_, _)
rip_send_response(s, n) ==
    LET f == Filled(s, n)
        s1 == Send([s EXCEPT !.tx[n].pos = f.rest], n, Response(s, n, f.nets))
    IN  IF ~s.tx[n].active \/ s.tx[n].pending THEN s
        ELSE IF f.nets = <<>> THEN [s EXCEPT !.tx[n].active = FALSE]
        ELSE IF conf.demand THEN [s1 EXCEPT !.tx[n].pending = TRUE]
        ELSE rip_send_response(s1, n)

rip_send_table(s, n, all, since) ==
    rip_send_response(
        [s EXCEPT !.tx[n] = [@ EXCEPT !.active = TRUE, !.all = all, !.since = since,
                                      !.pos = NetList, !.done = NetList,
                                      !.flush = conf.demand /\ all]], n)

rip_send_request(s, n) ==
    LET s1 == Send(s, n, [t |-> "request"])
    IN  IF conf.demand THEN [s1 EXCEPT !.req[n] = TRUE] ELSE s1

rip_send_flush(s, n) ==
    Send([s EXCEPT !.tx[n].seqnum = (@ + 1) % SeqModulus], n,
         [t |-> "response", flush |-> TRUE, seqnum |-> s.tx[n].seqnum, rtes |-> <<>>])

rip_send_ack(s, n, seqnum) == Send(s, n, [t |-> "ack", seqnum |-> seqnum])

rip_rxmt_timeout(s, n) ==
    LET s1 == IF s.req[n] THEN rip_send_request(s, n) ELSE s
    IN  IF s.tx[n].pending
        THEN rip_send_response([s1 EXCEPT !.tx[n].pos = s.tx[n].done, !.tx[n].pending = FALSE,
                                          !.tx[n].seqnum = (@ + 1) % SeqModulus], n)
        ELSE s1

(***************************************************************************)
(* Packets from neighbor n                                                 *)
(***************************************************************************)

rip_receive_request(s, n) == IF s.tx[n].active THEN s ELSE rip_send_table(s, n, TRUE, {})

rip_receive_response(s, n, pkt) ==
    LET s1 == IF ~conf.demand THEN s
              ELSE IF pkt.flush
              THEN [rip_flush_table(rip_send_ack(s, n, pkt.seqnum), n) EXCEPT !.req[n] = FALSE]
              ELSE rip_send_ack(s, n, pkt.seqnum)
        Step(x, b) ==
            LET metric == b.metric + conf.metric[{s.id, n}]
            IN  IF metric < infinity
                THEN rip_update_rte(x, b.net, [from |-> n, metric |-> metric, live |-> TRUE,
                                               age |-> 0, expires |-> ~conf.demand])
                ELSE rip_withdraw_rte(x, b.net, n)
    IN  FoldLeft(Step, s1, pkt.rtes)

rip_receive_ack(s, n, pkt) ==
    IF ~s.tx[n].active \/ ~s.tx[n].pending \/ pkt.seqnum # s.tx[n].seqnum THEN s
    ELSE rip_send_response([s EXCEPT !.tx[n].done = s.tx[n].pos, !.tx[n].pending = FALSE,
                                     !.tx[n].seqnum = (@ + 1) % SeqModulus,
                                     !.tx[n].flush = FALSE], n)

\* rip_get_neighbor() gives no neighbor while the interface is down.
rip_rx_hook(s, n, pkt) ==
    LET s1 == [s EXCEPT !.nbr[n] = TRUE, !.seen[n] = TRUE]
    IN  IF ~s.up[n] THEN s
        ELSE IF pkt.t = "request" THEN rip_receive_request(s1, n)
        ELSE IF pkt.t = "response" THEN rip_receive_response(s1, n, pkt)
        ELSE rip_receive_ack(s1, n, pkt)

(***************************************************************************)
(* Interfaces and timers                                                   *)
(***************************************************************************)

rip_iface_start(s, n) ==
    rip_send_table(rip_send_request([s EXCEPT !.up[n] = TRUE], n), n, TRUE, {})

rip_iface_stop(s, n) ==
    LET s1 == [s EXCEPT !.tx[n] = [Closed EXCEPT !.seqnum = IF s.tx[n].pending
                                                            THEN (s.tx[n].seqnum + 1) % SeqModulus
                                                            ELSE s.tx[n].seqnum],
                        !.want[n] = FALSE, !.due[n] = {}, !.req[n] = FALSE, !.up[n] = FALSE]
        s2 == IF conf.demand THEN rip_send_flush(s1, n) ELSE s1
    IN  IF s.nbr[n] THEN rip_remove_neighbor(s2, n) ELSE s2

\* The two kinds of updates of rip_iface_timer().
Sent(s, n) == [s EXCEPT !.want[n] = FALSE, !.due[n] = {}, !.triggered = FALSE]
RegularUpdate(s, n) == Sent(rip_send_table(s, n, TRUE, {}), n)
TriggeredUpdate(s, n) == Sent(rip_send_table(s, n, FALSE, s.due[n]), n)

\* rip_timer(): routes of neighbors that are gone, and in a round the routes
\* and neighbors not heard of since the last one, and stale entries.
rip_timer(s, round) ==
    LET Stays(e) == e.live /\ ~(round /\ e.expires /\ e.age > 0)
        Older(e) == IF round /\ e.expires THEN [e EXCEPT !.age = 1] ELSE e
        Clean(x, net) ==
            LET list == SelectSeq(x.rt[net], Stays)
                x1 == [x EXCEPT !.rt[net] = Now([i \in DOMAIN list |-> Older(list[i])])]
            IN  IF Len(list) # Len(x.rt[net]) THEN rip_announce_rte(x1, net) ELSE x1
        s1 == FoldLeft(Clean, [s EXCEPT !.kick = FALSE], NetList)
        Garbage(en) == IF en.valid # "STALE" \/ ~round THEN en
                       ELSE IF en.age > 0 THEN [en EXCEPT !.valid = "DUMMY", !.age = 0]
                       ELSE [en EXCEPT !.age = 1]
        s2 == [s1 EXCEPT !.en = Now([x \in Nets |-> Garbage(@[x])])]
        silent == {n \in DOMAIN s.nbr : s.nbr[n] /\ ~s.seen[n] /\ ~conf.demand /\ round}
        s3 == FoldSet(LAMBDA n, x : rip_remove_neighbor(x, n), s2, silent)
    IN  IF round THEN [s3 EXCEPT !.seen = Now([n \in DOMAIN @ |-> FALSE])] ELSE s3

(***************************************************************************)
(* The network                                                             *)
(***************************************************************************)

Built == conf.order = <<>>

Init ==
    /\ conf \in Configs
    /\ link = [l \in Links |-> "down"]
    /\ r = Now([a \in Routers |->
              FoldLeft(Announced, [rip_start(a) EXCEPT !.static = conf.static[a]], NetList)])
    /\ ch = [p \in Ends |-> <<>>]
    /\ done = {}

Become(a, s, c) ==
    /\ r' = [r EXCEPT ![a] = [s EXCEPT !.q = Now([n \in DOMAIN @ |-> <<>>])]]
    /\ ch' = [p \in Ends |-> IF p[1] # a \/ link[{p[1], p[2]}] # "up" THEN c[p]
                             ELSE c[p] \o s.q[p[2]]]

Receive(a, b) ==
    /\ ch[<<a, b>>] # <<>>
    /\ Become(b, rip_rx_hook(r[b], a, Head(ch[<<a, b>>])), [ch EXCEPT ![<<a, b>>] = Tail(@)])
    /\ UNCHANGED <<conf, link, done>>

Lose(a, b) ==
    /\ Built
    /\ conf.losses > 0
    /\ ch[<<a, b>>] # <<>>
    /\ ch' = [ch EXCEPT ![<<a, b>>] = Tail(@)]
    /\ conf' = [conf EXCEPT !.losses = @ - 1]
    /\ UNCHANGED <<link, r, done>>

Trigger(a, n) ==
    /\ r[a].up[n] /\ r[a].want[n] /\ ~r[a].tx[n].active
    /\ Become(a, TriggeredUpdate(r[a], n), ch)
    /\ UNCHANGED <<conf, link, done>>

\* rip_iface_update_state(): the interface follows its link.
IfaceState(a, n) ==
    LET up == link[{a, n}] # "down"
    IN  /\ r[a].up[n] # up
        /\ Become(a, IF up THEN rip_iface_start(r[a], n) ELSE rip_iface_stop(r[a], n), ch)
        /\ UNCHANGED <<conf, link, done>>

Kicked(a) ==
    /\ r[a].kick
    /\ Become(a, rip_timer(r[a], FALSE), ch)
    /\ UNCHANGED <<conf, link, done>>

\* Nothing but acknowledgements is waited for, and they do not come any more.
Silent ==
    /\ \A a \in Routers : ~r[a].kick
    /\ \A p \in Ends : LET s == r[p[1]] IN
           /\ ch[p] = <<>>
           /\ s.up[p[2]] = (link[{p[1], p[2]}] # "down")
           /\ (s.up[p[2]] /\ s.want[p[2]]) => s.tx[p[2]].active

Rxmt(a, n) ==
    /\ Silent \/ conf.early > 0
    /\ conf' = IF Silent THEN conf ELSE [conf EXCEPT !.early = @ - 1]
    /\ r[a].up[n]
    /\ r[a].tx[n].pending \/ (r[a].req[n] /\ <<a, n>> \notin done)
    /\ Become(a, rip_rxmt_timeout(r[a], n), ch)
    /\ done' = done \cup {<<a, n>>}
    /\ UNCHANGED link

Waiting == \E p \in Ends : r[p[1]].up[p[2]] /\ r[p[1]].tx[p[2]].pending

\* The network is built link by link, then anything may happen to it.
Connect ==
    /\ Silent /\ ~Waiting
    /\ ~Built
    /\ link' = [link EXCEPT ![Head(conf.order)] = "up"]
    /\ conf' = [conf EXCEPT !.order = Tail(@)]
    /\ UNCHANGED <<r, ch, done>>

\* What is repeated in a round before routes time out: updates, and requests
\* that are not answered.
Updates == {p \in Ends : r[p[1]].up[p[2]] /\ (conf.demand => r[p[1]].req[p[2]])}
Timeouts == {<<a, None>> : a \in Routers}

Regular(a, n) ==
    /\ Built /\ Silent
    /\ ~conf.demand
    /\ <<a, n>> \in Updates \ done
    /\ Become(a, RegularUpdate(r[a], n), ch)
    /\ done' = done \cup {<<a, n>>}
    /\ UNCHANGED <<conf, link>>

Timer(a) ==
    /\ Built /\ Silent /\ ~Waiting
    /\ Updates \subseteq done
    /\ <<a, None>> \notin done
    /\ done' = IF Updates \cup Timeouts \subseteq done \cup {<<a, None>>} THEN {}
               ELSE done \cup {<<a, None>>}
    /\ Become(a, rip_timer(r[a], TRUE), ch)
    /\ UNCHANGED <<conf, link>>

\* What happens to the network.
SetLink(l, state) ==
    /\ Built
    /\ conf.changes > 0
    /\ state \in conf.states \ {link[l]}
    /\ link' = [link EXCEPT ![l] = state]
    /\ ch' = [p \in Ends |-> IF {p[1], p[2]} = l THEN <<>> ELSE ch[p]]
    /\ conf' = [conf EXCEPT !.changes = @ - 1]
    /\ UNCHANGED <<r, done>>

SetStatic(a, x) ==
    /\ Built
    /\ conf.statics > 0
    /\ conf' = [conf EXCEPT !.statics = @ - 1]
    /\ Become(a, Announced([r[a] EXCEPT !.static = IF x \in @ THEN @ \ {x} ELSE @ \cup {x}], x), ch)
    /\ UNCHANGED <<link, done>>

\* rip_bfd_notify(): the session with the neighbor goes down.
BfdDown(a, n) ==
    /\ Built
    /\ conf.bfds > 0
    /\ r[a].nbr[n]
    /\ conf' = [conf EXCEPT !.bfds = @ - 1]
    /\ Become(a, rip_remove_neighbor(r[a], n), ch)
    /\ UNCHANGED <<link, done>>

Next ==
    \/ Connect
    \/ \E a, b \in Routers : <<a, b>> \in Ends /\ (Receive(a, b) \/ Lose(a, b) \/ Trigger(a, b)
           \/ IfaceState(a, b) \/ Rxmt(a, b) \/ Regular(a, b) \/ BfdDown(a, b))
    \/ \E a \in Routers : Kicked(a) \/ Timer(a)
    \/ \E a \in Routers, x \in Nets : SetStatic(a, x)
    \/ \E l \in Links, state \in {"up", "down", "cut"} : SetLink(l, state)

\* A step is always possible, so this is the weak fairness of Next.
Spec == Init /\ [][Next]_vars /\ []<><<Next>>_vars

(***************************************************************************)
(* Properties                                                              *)
(***************************************************************************)

TypeOK ==
    \A a \in Routers : LET s == r[a] IN
        /\ \A x \in Nets : /\ s.en[x].metric \in 1..infinity
                           /\ \A i \in DOMAIN s.rt[x] : s.rt[x][i].metric < infinity
        /\ \A n \in DOMAIN s.tx : s.tx[n].pending => s.tx[n].active /\ conf.demand

\* The incoming routes of a network that a router keeps are equally good, so that
\* the route it announces is the best that it keeps (rip_update_rte).
EquallyGood ==
    \A a \in Routers, x \in Nets :
        \A i, j \in DOMAIN r[a].rt[x] : r[a].rt[x][i].metric = r[a].rt[x][j].metric

Hops(dist) ==
    [a \in Routers |->
       Min({dist[a]} \cup {Min({infinity, dist[b] + conf.metric[{a, b}]}) :
                              b \in {b \in Nbrs(a) : link[{a, b}] = "up"}})]
RECURSIVE Shortest(_)
Shortest(dist) == IF Hops(dist) = dist THEN dist ELSE Shortest(Hops(dist))
Distance(x) == Shortest([a \in Routers |-> IF x \in r[a].static THEN 1 ELSE infinity])

\* Every router has given the core its shortest paths, all of them with ECMP.
Right ==
    \A x \in Nets : LET dist == Distance(x) IN
        \A a \in Routers : x \notin r[a].static =>
            LET own == r[a].own[x]
                best == {b \in Nbrs(a) : /\ link[{a, b}] = "up"
                                         /\ dist[b] + conf.metric[{a, b}] = dist[a]}
            IN  IF dist[a] = infinity THEN own = NoRte
                ELSE /\ own.k = "route" /\ own.metric = dist[a]
                     /\ IF conf.ecmp THEN own.via = best ELSE own.via \subseteq best

\* Whatever is lost or fails, when the network has come to rest every router
\* has its shortest paths and no route that leads nowhere (rip_update_rte,
\* rip_withdraw_rte, rip_timer, rip_iface_timer, rip_rxmt_timeout).
Settles == <>[]Right

\* "When enabled, there is no RIP communication in steady-state network": no
\* demand circuit repeats its request forever (rip_send_request,
\* rip_send_response, rip_rxmt_timeout).
SteadyStateSilent == <>[](\A p \in Ends : ~r[p[1]].req[p[2]])
=============================================================================
