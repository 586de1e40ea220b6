----------------------------- MODULE BgpSession -----------------------------
(***************************************************************************)
(* The BGP session between two routers that both run proto/bgp: the        *)
(* protocol states, the outgoing and the incoming connection of each       *)
(* router, collisions of connections, errors, shutdown and the graceful    *)
(* restart of a lost session (bgp.c), with the packets OPEN, KEEPALIVE and *)
(* NOTIFICATION (packets.c).                                               *)
(*                                                                         *)
(* A struct bgp_proto with its two struct bgp_conn is one record; the      *)
(* functions of bgp.c are operators from a record to a record.  TCP        *)
(* (external) is a set of links with a queue for each direction; a link    *)
(* end that no connection uses is closed.                                  *)
(***************************************************************************)
EXTENDS Integers, Sequences, FiniteSets

CONSTANTS
  Routers,     \* the two routers
  As,          \* As[r]: AS number
  Configs,     \* the configurations of the pair of routers, see Conf
  Links        \* the links that may exist at the same time

VARIABLES
  conf,    \* the configuration, chosen at the start
  bgp,     \* bgp[r]: struct bgp_proto of router r
  link,    \* link[l]: [from, st, end, q]
  faults   \* broken links, timeouts, rejected messages and shutdowns so far

vars == <<conf, bgp, link, faults>>

\* id: router IDs; passive: the routers that wait for connections; gr_ready: the
\* routers that keep the routes when the session breaks, llgr_ready: the ones of
\* them that keep them also when the hold or the restart timer expires;
\* faults: bound on the faults.
Conf == [id : [Routers -> Nat], passive : SUBSET Routers, gr_ready : SUBSET Routers,
         llgr_ready : SUBSET Routers, faults : Nat]

Peer(r) == CHOOSE x \in Routers : x # r
Dirs == {"out", "in"}
Other(c) == IF c = "out" THEN "in" ELSE "out"
NoLink == "none"
ConnStates == {"IDLE", "CONNECT", "ACTIVE", "OPENSENT", "OPENCONFIRM",
               "ESTABLISHED", "CLOSE"}
Packets == {"OPEN", "KEEPALIVE", "CEASE", "ERROR", "CLOSE"}

bgp_conn == [state : ConnStates, sk : Links \cup {NoLink},
             pkts : SUBSET Packets, connect_timer : BOOLEAN]
bgp_proto == [ps : {"DOWN", "START", "UP", "STOP"},
              start_state : {"PREPARE", "DELAY", "CONNECT"},
              startup_delay : BOOLEAN, startup_timer : BOOLEAN,
              gr_timer : BOOLEAN, event : BOOLEAN,
              conn : {"none"} \cup Dirs, out : bgp_conn, in : bgp_conn]

IdleConn == [state |-> "IDLE", sk |-> NoLink, pkts |-> {}, connect_timer |-> FALSE]
-----------------------------------------------------------------------------
(* Connections. *)
bgp_update_startup_delay(p) == [p EXCEPT !.startup_delay = TRUE]

bgp_schedule_packet(p, c, pkt) == [p EXCEPT ![c].pkts = @ \cup {pkt}]

\* bgp_conn_enter_close_state() of a protocol that is not up, or of a
\* connection that is not the established one.
CloseState(p, c) ==
  [p EXCEPT ![c].state = "CLOSE",
            !.conn = IF p[c].state = "ESTABLISHED" THEN "none" ELSE @]

IdleState(p, c) ==
  [p EXCEPT ![c] = IdleConn, !.event = TRUE,
            !.conn = IF p[c].state = "ESTABLISHED" THEN "none" ELSE @]

bgp_graceful_close_conn(p, c, pkt) ==
  CASE p[c].state \in {"IDLE", "CLOSE"} -> p
    [] p[c].state \in {"CONNECT", "ACTIVE"} -> IdleState(p, c)
    [] OTHER -> bgp_schedule_packet(CloseState(p, c), c, pkt)

bgp_stop(p, pkt) ==
  [bgp_graceful_close_conn(
     bgp_graceful_close_conn([p EXCEPT !.ps = "STOP"], "out", pkt), "in", pkt)
   EXCEPT !.event = TRUE]

bgp_conn_leave_established_state(p) ==
  IF p.ps = "UP" THEN bgp_stop(p, "CEASE") ELSE p

bgp_conn_enter_close_state(p, c) ==
  IF p[c].state = "ESTABLISHED"
  THEN bgp_conn_leave_established_state(CloseState(p, c))
  ELSE CloseState(p, c)

bgp_conn_enter_idle_state(p, c) ==
  IF p[c].state = "ESTABLISHED"
  THEN bgp_conn_leave_established_state(IdleState(p, c))
  ELSE IdleState(p, c)

\* bgp_error(), with a Cease or with a code that stops the protocol.
bgp_error(p, c, pkt) ==
  IF p[c].state = "CLOSE" THEN p
  ELSE LET q == bgp_schedule_packet(bgp_conn_enter_close_state(p, c), c, pkt)
       IN  IF pkt = "CEASE" THEN q
           ELSE bgp_stop(bgp_update_startup_delay(q), "CEASE")

bgp_handle_graceful_restart(p) == [p EXCEPT !.ps = "START", !.gr_timer = TRUE]

Restartable(r, p) ==
  p.conn # "none" /\ p[p.conn].state = "ESTABLISHED" /\ r \in conf.gr_ready

bgp_active(p) ==
  [p EXCEPT !.out = [IdleConn EXCEPT !.state = "ACTIVE", !.connect_timer = TRUE]]

bgp_startup(r, p) ==
  LET q == [p EXCEPT !.start_state = "CONNECT", !.startup_timer = FALSE]
  IN  IF r \in conf.passive THEN q ELSE bgp_active(q)

bgp_send_open(p, c, l) ==
  [p EXCEPT ![c] = [state |-> "OPENSENT", sk |-> l, pkts |-> {"OPEN"},
                    connect_timer |-> FALSE]]

bgp_decision(r, p) ==
  LET q == [p EXCEPT !.event = FALSE]
  IN  IF p.ps = "START" /\ p.out.state = "IDLE"
         /\ p.in.state # "OPENCONFIRM" /\ r \notin conf.passive
      THEN bgp_active(q)
      ELSE IF p.ps = "STOP" /\ p.out.state = "IDLE" /\ p.in.state = "IDLE"
           THEN [q EXCEPT !.ps = "DOWN", !.startup_timer = FALSE, !.gr_timer = FALSE]
           ELSE q
-----------------------------------------------------------------------------
(* Received packets. *)
\* The choice between a connection in OpenConfirm and a new one: the one that
\* the router with the higher ID, or with the higher AS number, opened is kept.
KeepNew(r, c) ==
  LET id == conf.id
      dominated == \/ id[r] < id[Peer(r)]
                   \/ id[r] = id[Peer(r)] /\ As[r] < As[Peer(r)]
  IN  dominated = (c = "in")

OpenConfirm(p, c) ==
  [bgp_schedule_packet(p, c, "KEEPALIVE") EXCEPT ![c].state = "OPENCONFIRM"]

\* Variant: the other connection is not looked at.
RxOpenAlone(r, p, c) ==
  IF p[c].state # "OPENSENT" THEN bgp_error(p, c, "ERROR") ELSE OpenConfirm(p, c)

bgp_rx_open(r, p, c) ==
  LET other == p[Other(c)].state
  IN  CASE p[c].state # "OPENSENT" -> bgp_error(p, c, "ERROR")
        [] p[c].state = "OPENSENT" /\ other \in {"CONNECT", "ACTIVE"} ->
             OpenConfirm(bgp_conn_enter_idle_state(p, Other(c)), c)
        [] p[c].state = "OPENSENT" /\ other \in {"IDLE", "OPENSENT", "CLOSE"} ->
             OpenConfirm(p, c)
        [] p[c].state = "OPENSENT" /\ other = "OPENCONFIRM" /\ KeepNew(r, c) ->
             OpenConfirm(bgp_error(p, Other(c), "CEASE"), c)
        [] OTHER -> bgp_error(p, c, "CEASE")

\* A restart timer that goes on after the routes are gone, which the code does
\* not stop, is one of a long-lived restart: its end changes no connection.
bgp_conn_enter_established_state(p, c) ==
  [p EXCEPT ![c].state = "ESTABLISHED", !.conn = c, !.gr_timer = FALSE, !.ps = "UP"]

bgp_rx_keepalive(p, c) ==
  CASE p[c].state = "OPENCONFIRM" -> bgp_conn_enter_established_state(p, c)
    [] p[c].state = "ESTABLISHED" -> p
    [] OTHER -> bgp_error(p, c, "ERROR")

bgp_rx_notification(p, c, pkt) ==
  LET q == bgp_schedule_packet(bgp_conn_enter_close_state(p, c), c, "CLOSE")
  IN  IF pkt = "ERROR" THEN bgp_stop(bgp_update_startup_delay(q), "CEASE") ELSE q

bgp_rx_packet(r, p, c, pkt) ==
  CASE pkt = "OPEN" -> bgp_rx_open(r, p, c)
    [] pkt = "KEEPALIVE" -> bgp_rx_keepalive(p, c)
    [] OTHER -> bgp_rx_notification(p, c, pkt)
-----------------------------------------------------------------------------
(* TCP.  end[r] of a link: "backlog" until the router accepts it, "open"   *)
(* and "closed".  The kernels shake hands when the connection is opened.   *)
FreeLink == [from |-> CHOOSE r \in Routers : TRUE, st |-> "free",
             end |-> [r \in Routers |-> "closed"], q |-> [r \in Routers |-> << >>]]

Listens(p) == p.ps # "DOWN" /\ p.start_state # "PREPARE"

\* The ends router r does not use any more are closed; a link with two closed
\* ends is gone.
Sync(r, p, lk) ==
  [l \in Links |->
    LET used == \/ p.out.sk = l \/ p.in.sk = l
                \/ lk[l].end[r] = "backlog" /\ Listens(p)
        t == IF used THEN lk[l]
             ELSE [lk[l] EXCEPT !.end[r] = "closed", !.q[r] = << >>]
    IN  IF \A x \in Routers : t.end[x] = "closed" THEN FreeLink ELSE t]

\* Router r gets into state p, over the links lk.
Become(r, state, lk) ==
  \E p \in {state} : bgp' = [bgp EXCEPT ![r] = p] /\ link' = Sync(r, p, lk)

Update(r, p) == Become(r, p, link)

Fault == faults < conf.faults /\ faults' = faults + 1 /\ UNCHANGED conf

\* The connection breaks: what is on the way is lost and both ends see it.
Break(l) ==
  /\ link[l].st = "open"
  /\ \A r \in Routers : link[l].end[r] = "open"
  /\ Fault
  /\ link' = [link EXCEPT ![l].st = "broken", ![l].q = [r \in Routers |-> << >>]]
  /\ UNCHANGED bgp
-----------------------------------------------------------------------------
(* The handlers. *)
bgp_initiate(r, p) ==
  IF p.startup_delay THEN [p EXCEPT !.start_state = "DELAY", !.startup_timer = TRUE]
  ELSE bgp_startup(r, p)

\* bgp_start() with bgp_start_locked(): the lock is free.
bgp_start(r) ==
  /\ bgp[r].ps = "DOWN"
  /\ Update(r, bgp_initiate(r,
       [bgp[r] EXCEPT !.ps = "START", !.event = FALSE, !.gr_timer = FALSE,
                      !.conn = "none", !.out = IdleConn, !.in = IdleConn]))
  /\ UNCHANGED <<conf, faults>>

bgp_startup_timeout(r) ==
  /\ bgp[r].startup_timer
  /\ Update(r, bgp_startup(r, bgp[r]))
  /\ UNCHANGED <<conf, faults>>

\* A new connection attempt, over lk.  The peer refuses it when it does not
\* listen.
bgp_connect(r, lk) ==
  LET l == CHOOSE x \in Links : lk[x].st = "free"
      ok == Listens(bgp[Peer(r)])
  IN  /\ \E x \in Links : lk[x].st = "free"
      /\ bgp' = [bgp EXCEPT ![r].out =
                   [IdleConn EXCEPT !.state = "CONNECT", !.sk = l, !.connect_timer = TRUE]]
      /\ link' = [lk EXCEPT ![l].from = r, ![l].st = IF ok THEN "open" ELSE "broken",
                   ![l].end = [x \in Routers |-> IF x = r THEN "open"
                                                 ELSE IF ok THEN "backlog" ELSE "closed"]]

\* The connect timer: the delay before a connection, or the time to retry.
bgp_connect_timeout(r) ==
  /\ bgp[r].out.connect_timer
  /\ IF bgp[r].out.state = "CONNECT" THEN Fault ELSE UNCHANGED <<conf, faults>>
  /\ IF bgp[r].ps # "START"
     THEN Update(r, bgp_conn_enter_idle_state(bgp[r], "out"))
     ELSE bgp_connect(r, Sync(r, [bgp[r] EXCEPT !.out.sk = NoLink], link))

bgp_connected(r) ==
  LET l == bgp[r].out.sk
  IN  /\ bgp[r].out.state = "CONNECT" /\ link[l].st = "open"
      /\ Update(r, bgp_send_open(bgp[r], "out", l))
      /\ UNCHANGED <<conf, faults>>

\* The condition of bgp_incoming_connection().
Accepted(p) ==
  p.ps \in {"START", "UP"} /\ p.start_state = "CONNECT" /\ p.in.sk = NoLink

bgp_incoming_connection(r, l) ==
  /\ link[l].end[r] = "backlog"
  /\ LET p == bgp[r]
         restart == Restartable(r, p)
         q == IF restart
              THEN bgp_conn_enter_idle_state(bgp_handle_graceful_restart(p), p.conn)
              ELSE p
         opened == [link EXCEPT ![l].end[r] = "open"]
         new == IF restart \/ Accepted(p) THEN bgp_send_open(q, "in", l) ELSE q
     IN  Become(r, new, opened)
  /\ UNCHANGED <<conf, faults>>

\* bgp_rx(): one packet.
bgp_rx(r, c) ==
  /\ bgp[r][c].state \in {"OPENSENT", "OPENCONFIRM", "ESTABLISHED"}
  /\ LET l == bgp[r][c].sk
         p == bgp_rx_packet(r, bgp[r], c, Head(link[l].q[r]))
         rest == [link EXCEPT ![l].q[r] = Tail(@)]
     IN  /\ link[l].q[r] # << >>
         /\ Become(r, p, rest)
  /\ UNCHANGED <<conf, faults>>

\* What bgp_fire_tx() sends, in its order: nothing before a close, and
\* nothing after a notification.
ToSend(pkts) ==
  IF "CLOSE" \in pkts THEN << >>
  ELSE IF "ERROR" \in pkts THEN <<"ERROR">>
  ELSE IF "CEASE" \in pkts THEN <<"CEASE">>
  ELSE SelectSeq(<<"OPEN", "KEEPALIVE">>, LAMBDA x : x \in pkts)

Closing(pkts) == pkts \ {"OPEN", "KEEPALIVE"} # {}

\* The event tx_ev: sends everything that waits and closes the connection
\* after a notification.
bgp_kick_tx(r, c) ==
  /\ bgp[r][c].pkts # {}
  /\ LET p == bgp[r]
         l == p[c].sk
         sent == IF link[l].st = "open" /\ link[l].end[Peer(r)] # "closed"
                 THEN [link EXCEPT ![l].q[Peer(r)] = @ \o ToSend(p[c].pkts)] ELSE link
         q == IF Closing(p[c].pkts) THEN bgp_conn_enter_idle_state(p, c)
              ELSE [p EXCEPT ![c].pkts = {}]
     IN  Become(r, q, sent)
  /\ UNCHANGED <<conf, faults>>

\* The peer closed the connection or refused it, or the link broke.
LinkLost(r, l) ==
  \/ link[l].st = "broken"
  \/ link[l].end[Peer(r)] = "closed" /\ link[l].q[r] = << >>

bgp_sock_err(r, c) ==
  /\ \/ bgp[r][c].state = "CONNECT" /\ link[bgp[r][c].sk].st = "broken"
     \/ /\ bgp[r][c].state \in {"OPENSENT", "OPENCONFIRM", "ESTABLISHED"}
        /\ LinkLost(r, bgp[r][c].sk)
  /\ LET p == bgp[r]
     IN  Update(r, bgp_conn_enter_idle_state(
                     IF p[c].state = "ESTABLISHED" /\ Restartable(r, p)
                     THEN bgp_handle_graceful_restart(p) ELSE p, c))
  /\ UNCHANGED <<conf, faults>>

\* The hold timer.  In Close, when the notification cannot be sent, it hangs
\* up; with long-lived routes the session breaks as if the socket had.
bgp_hold_timeout(r, c) ==
  LET p == bgp[r]
  IN  \/ /\ p[c].state = "CLOSE"
         /\ Fault
         /\ Update(r, bgp_conn_enter_idle_state(p, c))
      \/ /\ p[c].state \in {"OPENSENT", "OPENCONFIRM", "ESTABLISHED"}
         /\ link[p[c].sk].q[r] = << >>
         /\ Fault
         /\ Update(r, IF p[c].state = "ESTABLISHED" /\ r \in conf.llgr_ready
                      THEN bgp_conn_enter_idle_state(bgp_handle_graceful_restart(p), c)
                      ELSE bgp_error(p, c, "ERROR"))

bgp_graceful_restart_timeout(r) ==
  LET p == [bgp[r] EXCEPT !.gr_timer = FALSE]
  IN  /\ bgp[r].gr_timer
      /\ Fault
      /\ Update(r, IF r \in conf.llgr_ready THEN p ELSE bgp_stop(p, "CEASE"))

\* bgp_shutdown() by a command, with a notification or, before a graceful
\* restart of this router, without one.
bgp_shutdown(r) ==
  /\ bgp[r].ps \in {"START", "UP"}
  /\ Fault
  /\ \E pkt \in {"CEASE", "CLOSE"} :
       Update(r, bgp_stop([bgp[r] EXCEPT !.startup_delay = FALSE], pkt))

RunDecision(r) ==
  /\ bgp[r].event
  /\ Update(r, bgp_decision(r, bgp[r]))
  /\ UNCHANGED <<conf, faults>>

Init ==
  /\ conf \in Configs
  /\ bgp = [r \in Routers |->
             [ps |-> "DOWN", start_state |-> "PREPARE", startup_delay |-> FALSE,
              startup_timer |-> FALSE, gr_timer |-> FALSE, event |-> FALSE,
              conn |-> "none", out |-> IdleConn, in |-> IdleConn]]
  /\ link = [l \in Links |-> FreeLink]
  /\ faults = 0

ConnStep(r, c) ==
  bgp_rx(r, c) \/ bgp_kick_tx(r, c) \/ bgp_sock_err(r, c) \/ bgp_hold_timeout(r, c)

Next ==
  \/ \E r \in Routers :
       \/ bgp_start(r) \/ bgp_startup_timeout(r) \/ bgp_connect_timeout(r)
       \/ bgp_connected(r) \/ RunDecision(r)
       \/ bgp_graceful_restart_timeout(r) \/ bgp_shutdown(r)
       \/ \E c \in Dirs : ConnStep(r, c)
       \/ \E l \in Links : bgp_incoming_connection(r, l)
  \/ \E l \in Links : Break(l)

Spec == Init /\ [][Next]_vars

\* The main loop runs events, socket hooks and timers; none of them is put
\* off for ever.
Events(r) == RunDecision(r) \/ bgp_start(r)
ConnHooks(r, c) == bgp_rx(r, c) \/ bgp_kick_tx(r, c) \/ bgp_sock_err(r, c)
SocketHooks(r) == bgp_connected(r) \/ \E l \in Links : bgp_incoming_connection(r, l)
Timers(r) == bgp_startup_timeout(r) \/ bgp_connect_timeout(r)

Fairness ==
  \A r \in Routers :
    /\ WF_vars(Events(r)) /\ WF_vars(SocketHooks(r)) /\ WF_vars(Timers(r))
    /\ \A c \in Dirs : WF_vars(ConnHooks(r, c))

FairSpec == Spec /\ Fairness
-----------------------------------------------------------------------------
TypeOK ==
  /\ conf \in Conf
  /\ bgp \in [Routers -> bgp_proto]
  /\ \A l \in Links : \A r \in Routers : Len(link[l].q[r]) <= 3

\* The protocol is up exactly while one of its connections is established,
\* and p->conn is that one: never both, never one that is closing.
OneConnection ==
  \A r \in Routers :
    LET p == bgp[r]
    IN  /\ p.ps = "UP" <=> p.conn # "none"
        /\ \A c \in Dirs : p[c].state = "ESTABLISHED" <=> p.conn = c

\* Every connection past the attempt has a socket of its own (the ASSERT of
\* bgp_schedule_packet()), no other one has, and a connection with nothing
\* going on has nothing to send.
SocketsOwned ==
  \A r \in Routers :
    LET p == bgp[r]
    IN  /\ \A c \in Dirs :
             /\ (p[c].sk # NoLink) <=> (p[c].state \notin {"IDLE", "ACTIVE"})
             /\ p[c].pkts # {} => p[c].sk # NoLink
        /\ p.out.sk # NoLink => p.out.sk # p.in.sk

\* A protocol that stops goes down, whatever the other router does.
Stopping(r) == bgp[r].ps = "STOP"
StopEnds == \A r \in Routers : []<>~Stopping(r)

\* With one passive router the session comes up, and stays up, when the faults
\* are over.  (Two active routers may go on closing each other's connection.)
Up == conf.passive # {} => \A r \in Routers : bgp[r].ps = "UP"
ComesUp == <>[]Up
=============================================================================
