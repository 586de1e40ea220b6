-------------------------------- MODULE Bmp ---------------------------------
(***************************************************************************)
(* BGP monitoring (proto/bmp/bmp.c): the session with the station, its TX  *)
(* queue of pages, peers, streams and monitored tables.  BGP, the routing  *)
(* tables (route updates, feeding) and the station are external.           *)
(*                                                                         *)
(* A message takes two units of the queue and a page has PageSize of them, *)
(* so that a message may be split between two pages.                       *)
(***************************************************************************)
EXTENDS Integers, Sequences, FiniteSets, FiniteSetsExt, SequencesExt, Functions, TLC

CONSTANTS
  Peers, Nets,
  PageSize,       \* units in a page
  MaxCount,       \* pages sent in one run of bmp_fire_tx(), 1024 in the code
  Configs

VARIABLES
  conf,           \* configuration and what may still happen
  p,              \* the BMP instance
  bgp,            \* BGP sessions: established, flushing; received routes
  st              \* the station: units not yet parsed, peers, routes, End-of-RIB marks

vars == <<conf, p, bgp, st>>

Policies == {"pre", "post"}
\* The table of a stream: <<>> is the routing table, <<n>> the import table of n.
TableOf(n, policy) == IF policy = "post" THEN <<>> ELSE <<n>>
StreamsOf(n) == {<<n, policy>> : policy \in conf.monitored}

\* Routes of peer n with a policy: import filters accept the networks conf.accepted.
RouteOf(b, n, policy, net) ==
    IF policy = "pre" \/ net \in conf.accepted THEN b[n].routes[net] ELSE 0

(***************************************************************************)
(* Queue of messages                                                       *)
(***************************************************************************)

Schedule(s, ev) == [s EXCEPT !.evs = Append(SelectSeq(@, LAMBDA e : e # ev), ev)]
Scheduled(s, ev) == \E i \in DOMAIN s.evs : s.evs[i] = ev

RECURSIVE Queued(_, _)
\* The loop of bmp_schedule_tx_packet(): pages are taken while there is something to copy.
Queued(s, units) ==
    LET last == s.last /\ s.pending # <<>> /\ Len(Last(s.pending)) < PageSize
        s1 == IF last THEN s ELSE [s EXCEPT !.pending = Append(@, <<>>), !.last = TRUE]
        s2 == [s1 EXCEPT !.pending[Len(s1.pending)] = Append(@, Head(units))]
    IN  IF units = <<>> THEN s
        ELSE IF ~last /\ Len(s.pending) >= s.limit
        THEN [Schedule(s, "overflow") EXCEPT !.torn = TRUE]
        ELSE Queued(s2, Tail(units))

bmp_schedule_tx_packet(s, msg) ==
    LET s1 == Queued(s, <<<<msg, 1>>, <<msg, 2>>>>)
    IN  IF s1.evs # s.evs \/ s.tbuf # <<>> \/ Scheduled(s, "tx") THEN s1 ELSE Schedule(s1, "tx")

\* bmp_fire_tx(): pages go to the socket until it does not take one (the k-th), or until
\* enough of them have been sent.  The result is the instance and what the station gets.
bmp_fire_tx(s, k) ==
    LET n == Len(s.pending)
        out == Min({n, MaxCount + 2, k})
        blocked == k <= Min({n, MaxCount + 2})
        sent == IF blocked THEN out - 1 ELSE out
        s1 == [s EXCEPT !.tbuf = IF blocked THEN s.pending[k] ELSE <<>>,
                        !.pending = SubSeq(@, out + 1, n), !.last = @ /\ out < n]
    IN  IF ~s.started \/ n = 0 THEN [s |-> s, units |-> <<>>]
        ELSE [s |-> IF ~blocked /\ out = MaxCount + 2 /\ ~Scheduled(s, "tx") THEN Schedule(s1, "tx") ELSE s1,
              units |-> FlattenSeq(SubSeq(s.pending, 1, sent))]

\* bmp_tx(): the socket has taken the page it did not take before.
bmp_tx(s, k) ==
    LET f == bmp_fire_tx([s EXCEPT !.tbuf = <<>>], k)
    IN  [f EXCEPT !.units = s.tbuf \o @]

bmp_close_socket(s) == [s EXCEPT !.tbuf = <<>>, !.pending = <<>>, !.last = FALSE, !.sk = "none"]

(***************************************************************************)
(* Tables, streams and peers.  A monitored table has the number of streams *)
(* that use it, the networks to be fed to its channel, whether it is being *)
(* fed, and the routes the channel has exported.                           *)
(***************************************************************************)

NewTable == [uc |-> 0, feeding |-> TRUE, todo |-> Nets, exported |-> {}]

bmp_get_table(s, tab) ==
    IF tab \in DOMAIN s.tables THEN s ELSE [s EXCEPT !.tables = (tab :> NewTable) @@ @]

bmp_unlock_table(s, tab) ==
    IF s.tables[tab].uc > 1 THEN [s EXCEPT !.tables[tab].uc = @ - 1]
    ELSE [s EXCEPT !.tables = Restrict(@, DOMAIN @ \ {tab})]

bmp_add_stream(s, bs) ==
    LET tab == TableOf(bs[1], bs[2])
        s1 == bmp_get_table([s EXCEPT !.streams = (bs :> FALSE) @@ @], tab)
    IN  [s1 EXCEPT !.tables[tab].uc = @ + 1]

bmp_remove_stream(s, bs) ==
    bmp_unlock_table([s EXCEPT !.streams = Restrict(@, DOMAIN @ \ {bs})], TableOf(bs[1], bs[2]))

bmp_add_peer(s, n) ==
    FoldSet(LAMBDA bs, t : bmp_add_stream(t, bs), [s EXCEPT !.peers = @ \cup {n}], StreamsOf(n))
bmp_remove_peer(s, n) ==
    LET mine == {bs \in DOMAIN s.streams : bs[1] = n}
    IN  FoldSet(LAMBDA bs, t : bmp_remove_stream(t, bs), [s EXCEPT !.peers = @ \ {n}], mine)

bmp_route_monitor_end_of_rib(s, bs) ==
    [bmp_schedule_tx_packet(s, [t |-> "EOR", bs |-> bs]) EXCEPT !.streams[bs] = TRUE]

bmp_peer_up_(s, n, sync) ==
    LET s1 == bmp_schedule_tx_packet(bmp_add_peer(s, n), [t |-> "PEER_UP", peer |-> n])
    IN  IF ~s.started \/ n \in s.peers THEN s
        ELSE IF sync THEN FoldSet(LAMBDA bs, t : bmp_route_monitor_end_of_rib(t, bs), s1, StreamsOf(n))
        ELSE s1

bmp_peer_down_(s, n) ==
    IF ~s.started \/ n \notin s.peers THEN s
    ELSE bmp_remove_peer(bmp_schedule_tx_packet(s, [t |-> "PEER_DOWN", peer |-> n]), n)

bmp_down(s) ==
    FoldSet(LAMBDA n, t : bmp_remove_peer(t, n), [s EXCEPT !.started = FALSE, !.torn = FALSE], s.peers)

(***************************************************************************)
(* Notifications of routes                                                 *)
(***************************************************************************)

bmp_route_monitor_notify(s, bs, net, v) ==
    bmp_schedule_tx_packet(s, [t |-> "ROUTE", bs |-> bs, net |-> net, v |-> v])

bmp_rt_notify(s, n, policy, net, v) ==
    IF <<n, policy>> \in DOMAIN s.streams
    THEN bmp_route_monitor_notify(s, <<n, policy>>, net, v) ELSE s

\* rt_notify_basic() and do_rt_notify() for the channel of a monitored table:
\* the route of peer n for net is now v (0 for none).
rt_notify(s, n, policy, net, v) ==
    LET tab == TableOf(n, policy)
        known == <<n, net>> \in s.tables[tab].exported
        s1 == [s EXCEPT !.tables[tab].exported =
                  IF v = 0 THEN @ \ {<<n, net>>} ELSE @ \cup {<<n, net>>}]
    IN  IF tab \notin DOMAIN s.tables \/ (v = 0 /\ ~known) THEN s
        ELSE bmp_rt_notify(s1, n, policy, net, v)

bmp_feed_end(s, tab) ==
    LET unsynced == {bs \in DOMAIN s.streams : TableOf(bs[1], bs[2]) = tab /\ ~s.streams[bs]}
    IN  FoldSet(LAMBDA bs, t : bmp_route_monitor_end_of_rib(t, bs), s, unsynced)

(***************************************************************************)
(* The session                                                             *)
(***************************************************************************)

bmp_connect(s) == [s EXCEPT !.sk = "connecting", !.retry = TRUE]

bmp_peer_init(s, n) == IF bgp[n].state = "up" THEN bmp_peer_up_(s, n, FALSE) ELSE s

bmp_startup(s) ==
    LET s1 == [s EXCEPT !.started = TRUE, !.torn = FALSE, !.sock_err = FALSE]
        s2 == bmp_schedule_tx_packet(s1, [t |-> "INIT"])
    IN  FoldSet(LAMBDA n, t : bmp_peer_init(t, n), s2, Peers)

bmp_connected(s) == bmp_startup([s EXCEPT !.sk = "up", !.retry = FALSE])

Closed(s) == [bmp_close_socket(IF s.started THEN bmp_down(s) ELSE s) EXCEPT !.retry = TRUE]
bmp_sock_err(s) == [Closed(s) EXCEPT !.sock_err = TRUE]
bmp_tx_overflow(s) == IF Len(s.pending) < s.limit THEN s ELSE [Closed(s) EXCEPT !.sock_err = FALSE]
bmp_connection_retry(s) == IF s.started THEN s ELSE bmp_connect(bmp_close_socket(s))

bmp_start(s) ==
    [started |-> FALSE, sock_err |-> FALSE, sk |-> "none", retry |-> TRUE, running |-> TRUE,
     evs |-> <<>>, tbuf |-> <<>>, pending |-> <<>>, last |-> FALSE, limit |-> conf.limit,
     torn |-> FALSE, peers |-> {}, streams |-> <<>>, tables |-> <<>>]

bmp_shutdown(s) ==
    LET s1 == IF s.started THEN bmp_close_socket(bmp_down(s)) ELSE s
    IN  [s1 EXCEPT !.running = FALSE, !.retry = FALSE, !.sk = "none", !.evs = <<>>]

bmp_reconfigure(s, new) == IF new.restart THEN bmp_shutdown(s) ELSE [s EXCEPT !.limit = new.limit]

(***************************************************************************)
(* The station parses whole messages from the stream                       *)
(***************************************************************************)

NoStation == [units |-> <<>>, bad |-> FALSE, peers |-> {}, routes |-> <<>>, eor |-> {}]

StationHas(x, bs, net) == IF <<bs, net>> \in DOMAIN x.routes THEN x.routes[<<bs, net>>] ELSE 0

Told(x, msg) ==
    CASE msg.t = "INIT" -> x
      [] msg.t = "PEER_UP" -> [x EXCEPT !.peers = @ \cup {msg.peer}, !.bad = @ \/ msg.peer \in x.peers]
      [] msg.t = "PEER_DOWN" ->
             [x EXCEPT !.peers = @ \ {msg.peer}, !.bad = @ \/ msg.peer \notin x.peers,
                       !.eor = {bs \in @ : bs[1] # msg.peer},
                       !.routes = Restrict(@, {k \in DOMAIN @ : k[1][1] # msg.peer})]
      [] msg.t = "ROUTE" ->
             [x EXCEPT !.bad = @ \/ msg.bs[1] \notin x.peers,
                       !.routes = IF msg.v = 0 THEN Restrict(@, DOMAIN @ \ {<<msg.bs, msg.net>>})
                                  ELSE (<<msg.bs, msg.net>> :> msg.v) @@ @]
      [] msg.t = "EOR" -> [x EXCEPT !.bad = @ \/ msg.bs[1] \notin x.peers \/ msg.bs \in x.eor,
                                    !.eor = @ \cup {msg.bs}]

RECURSIVE Parsed(_)
Parsed(x) ==
    IF Len(x.units) < 2 THEN x
    ELSE IF x.units[1][1] # x.units[2][1] \/ x.units[1][2] # 1 \/ x.units[2][2] # 2
    THEN [x EXCEPT !.units = <<>>, !.bad = TRUE]
    ELSE Parsed([Told(x, x.units[1][1]) EXCEPT !.units = SubSeq(@, 3, Len(@))])

Become(s) == /\ p' = s
             /\ IF s.started THEN UNCHANGED st ELSE st' = NoStation

Sent(f) == p' = f.s /\ st' = IF f.s.started THEN Parsed([st EXCEPT !.units = @ \o f.units]) ELSE NoStation

(***************************************************************************)
(* Actions                                                                 *)
(***************************************************************************)

Init == /\ conf \in Configs
        /\ bgp = [n \in Peers |-> [state |-> IF n \in conf.up THEN "up" ELSE "down",
                                   routes |-> [net \in Nets |-> IF n \in conf.up THEN 1 ELSE 0]]]
        /\ p = bmp_start(<<>>)
        /\ st = NoStation

Spend(what) == conf[what] > 0 /\ conf' = [conf EXCEPT ![what] = @ - 1]

Start == ~p.running /\ p' = bmp_start(p) /\ UNCHANGED <<conf, bgp, st>>

Retry == /\ p.retry
         /\ p.sk = "none"
         /\ Become(bmp_connection_retry(p)) /\ UNCHANGED <<conf, bgp>>

\* The connection is not established in time.
RetryAgain == /\ p.retry /\ p.sk = "connecting" /\ Spend("breaks")
              /\ Become(bmp_connection_retry(p)) /\ UNCHANGED bgp

Connected == p.sk = "connecting" /\ Become(bmp_connected(p)) /\ UNCHANGED <<conf, bgp>>

SockErr == p.sk # "none" /\ Spend("breaks") /\ Become(bmp_sock_err(p)) /\ UNCHANGED bgp

\* Which of the next pages the socket does not take (none of them for 10).
Blocks(k) == IF k = 10 THEN UNCHANGED conf ELSE Spend("blocks")
Ks == {1, 2, 10}

Event == /\ p.evs # <<>>
         /\ LET s == [p EXCEPT !.evs = Tail(@)]
            IN  IF Head(p.evs) = "tx"
                THEN \E k \in Ks : Blocks(k) /\ Sent(bmp_fire_tx(s, k))
                ELSE Become(bmp_tx_overflow(s)) /\ UNCHANGED conf
         /\ UNCHANGED bgp

Writable == /\ p.tbuf # <<>>
            /\ \E k \in Ks : Blocks(k) /\ Sent(bmp_tx(p, k))
            /\ UNCHANGED bgp

\* A part of the feed of a monitored table, for one network, and its end.
Feed(tab) ==
    /\ tab \in DOMAIN p.tables /\ p.tables[tab].feeding
    /\ LET todo == p.tables[tab].todo
           net == Min(todo)
           policy == IF tab = <<>> THEN "post" ELSE "pre"
           senders == {n \in Peers : TableOf(n, policy) = tab /\ bgp[n].state # "down"
                                     /\ RouteOf(bgp, n, policy, net) # 0}
           s == FoldSet(LAMBDA n, t : rt_notify(t, n, policy, net, RouteOf(bgp, n, policy, net)),
                        p, senders)
       IN  IF todo = {}
           THEN Become(bmp_feed_end([p EXCEPT !.tables[tab].feeding = FALSE], tab))
           ELSE Become([s EXCEPT !.tables[tab].todo = @ \ {net}])
    /\ UNCHANGED <<conf, bgp>>

\* BGP: a session comes up, a route is received or withdrawn, the session goes
\* down, and then the routes of the channel are flushed.
PeerUp(n) ==
    /\ bgp[n].state = "down" /\ Spend("ups")
    /\ bgp' = [bgp EXCEPT ![n].state = "up"]
    /\ Become(bmp_peer_up_(p, n, TRUE))

RouteUpdate(n, net, v) ==
    /\ bgp[n].state = "up" /\ bgp[n].routes[net] # v /\ Spend("changes")
    /\ bgp' = [bgp EXCEPT ![n].routes[net] = v]
    /\ LET s == rt_notify(p, n, "pre", net, RouteOf(bgp', n, "pre", net))
           post == RouteOf(bgp', n, "post", net)
       IN  Become(IF post = RouteOf(bgp, n, "post", net) THEN s ELSE rt_notify(s, n, "post", net, post))

PeerDown(n) ==
    /\ bgp[n].state = "up" /\ Spend("downs")
    /\ bgp' = [bgp EXCEPT ![n].state = "flushing"]
    /\ Become(bmp_peer_down_(p, n))

Flush(n) ==
    /\ bgp[n].state = "flushing"
    /\ bgp' = [bgp EXCEPT ![n] = [state |-> "down", routes |-> [net \in Nets |-> 0]]]
    /\ Become(FoldSet(LAMBDA net, t : rt_notify(t, n, "post", net, 0), p,
                      {net \in Nets : RouteOf(bgp, n, "post", net) # 0}))
    /\ UNCHANGED conf

Reconfigure ==
    /\ conf.plans # <<>> /\ p.running
    /\ Become(bmp_reconfigure(p, Head(conf.plans)))
    /\ conf' = [conf EXCEPT !.plans = Tail(@), !.limit = Head(conf.plans).limit,
                            !.monitored = Head(conf.plans).monitored]
    /\ UNCHANGED bgp

Next == Start \/ Retry \/ RetryAgain \/ Connected \/ SockErr \/ Event \/ Writable \/ Reconfigure
        \/ \E tab \in {<<>>} \cup {<<n>> : n \in Peers} : Feed(tab)
        \/ \E n \in Peers : \/ PeerUp(n) \/ PeerDown(n) \/ Flush(n)
                            \/ \E net \in Nets, v \in 0..2 : RouteUpdate(n, net, v)

Busy == \/ ~p.started \/ p.evs # <<>> \/ p.tbuf # <<>>
        \/ \E tab \in DOMAIN p.tables : p.tables[tab].feeding
        \/ \E n \in Peers : bgp[n].state = "flushing"

\* Events, writable sockets, timers and feeds get their turn.
Fairness == []<>~Busy \/ []<><<Next>>_vars
Spec == Init /\ [][Next]_vars /\ Fairness

(***************************************************************************)
(* Properties                                                              *)
(***************************************************************************)

\* With "Removing peers should also remove all streams and tables": a monitored
\* table is there exactly while streams use it, and counts them.
TypeOK ==
    /\ p.sk \in {"none", "connecting", "up"}
    /\ p.started => p.sk = "up"
    /\ {bs[1] : bs \in DOMAIN p.streams} \subseteq p.peers
    /\ \A tab \in DOMAIN p.tables :
          /\ p.tables[tab].uc > 0
          /\ p.tables[tab].uc = Cardinality({bs \in DOMAIN p.streams : TableOf(bs[1], bs[2]) = tab})
    /\ DOMAIN p.streams \subseteq Peers \X Policies

Drained == p.started /\ p.pending = <<>> /\ p.tbuf = <<>> /\ ~p.torn

\* The station only hears of peers it knows, gets one End-of-RIB for a stream,
\* and when nothing is queued, it has exactly the routes of every stream that is synced,
\* unless a message was cut off at the limit of the queue (torn, see Restarted).
StationExact ==
    /\ p.torn \/ ~st.bad
    /\ Drained => /\ st.peers = p.peers
                  /\ st.eor = {bs \in DOMAIN p.streams : p.streams[bs]}
                  /\ \A bs \in st.eor : \A net \in Nets :
                        StationHas(st, bs, net) = RouteOf(bgp, bs[1], bs[2], net)

\* "How much data we are going to queue before we call the session stuck and
\* restart it": when the queue does not take a whole message, the session is
\* closed before anything more is queued or sent.
Restarted == (p.started /\ p.torn) => Scheduled(p, "overflow")

Monitored ==
    /\ p.started \/ conf.tight
    /\ p.torn \/ conf.tight \/ (/\ st.peers = {n \in Peers : bgp[n].state = "up"}
                                /\ st.eor = UNION {StreamsOf(n) : n \in st.peers})

\* The station comes to know all peers that are up, with complete streams, unless
\* the limit is too tight for what one session has to queue.
Monitors == <>[]Monitored
=============================================================================
