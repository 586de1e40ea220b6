----------------------------- MODULE BfdSession -----------------------------
(***************************************************************************)
(* A BFD session between two routers that both run proto/bfd: the session  *)
(* state machine, the poll sequences that change the timing parameters,    *)
(* the detection timer and the control packets, over a network that loses  *)
(* packets.  bfd.c and packets.c run this code in the BFD thread.          *)
(*                                                                         *)
(* One session is one record; the functions of bfd.c that work on it are   *)
(* operators from a record to a record.  Times are not modelled: a timer   *)
(* is active or not, and the intervals only meet in DetectionCoversTx.     *)
(***************************************************************************)
EXTENDS Integers, Sequences

CONSTANTS
  Ends,          \* the two routers
  Configs,       \* bfd_session_config: [min_tx, idle_tx, min_rx, passive]
  FirstConfig,   \* FirstConfig[e]: what router e starts with
  MaxInFlight,   \* packets in flight to one router
  MaxFaults      \* bound on lost packets, reconfigurations and sessions
                 \* removed and added again, taken together

VARIABLES
  sess,     \* sess[e]: the struct bfd_session of router e
  chan,     \* chan[e]: control packets on the way to router e
  missed,   \* missed[e]: a packet for e got lost or was refused since e
            \* accepted one, or e never accepted one
  heard,    \* history: the discriminators some router accepted packets from
  faults    \* how many of those happened

vars == <<sess, chan, missed, heard, faults>>

Peer(e) == CHOOSE x \in Ends : x # e

NoId == << >>   \* the discriminator 0
DOWN == 1
INIT == 2
UP == 3
Polls == SUBSET {"TX", "RX"}
Intervals == UNION {{c.min_tx, c.idle_tx, c.min_rx} : c \in Configs}

MaxOf(a, b) == IF a > b THEN a ELSE b

\* struct bfd_session.  ADMIN_DOWN is a state no router running bfd.c enters,
\* and demand mode is one it never asks for.
Session ==
  [cf : Configs, passive : BOOLEAN,
   loc_state : {DOWN, INIT, UP}, rem_state : {DOWN, INIT, UP},
   loc_id : Ends \X Nat, rem_id : {NoId} \cup (Ends \X Nat),
   des_min_tx_int : Intervals, des_min_tx_new : Intervals,
   req_min_rx_int : Intervals, req_min_rx_new : Intervals,
   rem_min_tx_int : Intervals \cup {0}, rem_min_rx_int : Intervals \cup {1},
   poll_active : Polls, poll_scheduled : Polls,
   tx_timer : BOOLEAN, hold_timer : BOOLEAN]
-----------------------------------------------------------------------------
(* The interval between two periodic packets, and the detection time for   *)
(* one packet (the code multiplies it by rem_detect_mult).                 *)
bfd_session_update_tx_interval(s) == MaxOf(s.des_min_tx_int, s.rem_min_rx_int)
bfd_session_update_detection_time(s) == MaxOf(s.req_min_rx_int, s.rem_min_tx_int)

bfd_session_control_tx_timer(s, reset) ==
  [s EXCEPT !.tx_timer = ~ (s.passive /\ s.rem_id = NoId) /\ s.rem_min_rx_int # 0]

bfd_session_request_poll(s, request) ==
  IF s.rem_id = NoId THEN s
  ELSE IF s.poll_active # {}
       THEN [s EXCEPT !.poll_scheduled = @ \cup {request}]
       ELSE bfd_session_control_tx_timer(
              [s EXCEPT !.poll_active = s.poll_scheduled \cup {request},
                        !.poll_scheduled = {}], TRUE)

bfd_session_terminate_poll(s) ==
  LET done == s.poll_active \ s.poll_scheduled
  IN  [s EXCEPT
        !.des_min_tx_int = IF "TX" \in done THEN s.des_min_tx_new ELSE @,
        !.req_min_rx_int = IF "RX" \in done THEN s.req_min_rx_new ELSE @,
        !.poll_active = s.poll_scheduled,
        !.poll_scheduled = {}]

\* The new interval is announced at once.  It is used at once unless it slows
\* down the packets of a session that is up: then it waits for the poll.
bfd_session_set_min_tx(s, val) ==
  IF val = s.des_min_tx_new THEN s
  ELSE bfd_session_request_poll(
         [s EXCEPT !.des_min_tx_new = val,
                   !.des_min_tx_int = IF s.loc_state # UP \/ val < @
                                      THEN val ELSE @], "TX")

bfd_session_set_min_rx(s, val) ==
  IF val = s.req_min_rx_new THEN s
  ELSE bfd_session_request_poll(
         [s EXCEPT !.req_min_rx_new = val,
                   !.req_min_rx_int = IF s.loc_state # UP \/ val > @
                                      THEN val ELSE @], "RX")

bfd_session_update_state(s, state) ==
  IF state = s.loc_state THEN s
  ELSE LET t == [s EXCEPT !.loc_state = state]
       IN  IF state = UP THEN bfd_session_set_min_tx(t, s.cf.min_tx)
           ELSE IF s.loc_state = UP THEN bfd_session_set_min_tx(t, s.cf.idle_tx)
                ELSE t

\* Variant: any state of the peer brings the session up.
NextStateEager(s) ==
  CASE s.loc_state = DOWN /\ s.rem_state = DOWN -> INIT
    [] s.loc_state = DOWN /\ s.rem_state = INIT -> UP
    [] s.loc_state = INIT -> UP
    [] s.loc_state = UP /\ s.rem_state <= DOWN -> DOWN
    [] OTHER -> s.loc_state

\* The state machine of RFC 5880 for a received state.
NextState(s) ==
  CASE s.loc_state = DOWN /\ s.rem_state = DOWN -> INIT
    [] s.loc_state = DOWN /\ s.rem_state = INIT -> UP
    [] s.loc_state = INIT /\ s.rem_state >= INIT -> UP
    [] s.loc_state = UP /\ s.rem_state <= DOWN -> DOWN
    [] OTHER -> s.loc_state

bfd_session_process_ctl(s, pkt) ==
  LET t == IF s.poll_active # {} /\ pkt.final
           THEN bfd_session_terminate_poll(s) ELSE s
      u == [t EXCEPT !.hold_timer = TRUE]
  IN  bfd_session_control_tx_timer(bfd_session_update_state(u, NextState(u)), FALSE)

bfd_session_timeout(s) ==
  bfd_session_control_tx_timer(
    bfd_session_update_state(
      [s EXCEPT !.rem_state = DOWN, !.rem_id = NoId,
                !.rem_min_tx_int = 0, !.rem_min_rx_int = 1,
                !.poll_active = {}, !.poll_scheduled = {},
                !.hold_timer = FALSE], DOWN), TRUE)

bfd_add_session(e, n, cf) ==
  bfd_session_control_tx_timer(
    [cf |-> cf, passive |-> cf.passive,
     loc_state |-> DOWN, rem_state |-> DOWN,
     loc_id |-> <<e, n>>, rem_id |-> NoId,
     des_min_tx_int |-> cf.idle_tx, des_min_tx_new |-> cf.idle_tx,
     req_min_rx_int |-> cf.min_rx, req_min_rx_new |-> cf.min_rx,
     rem_min_tx_int |-> 0, rem_min_rx_int |-> 1,
     poll_active |-> {}, poll_scheduled |-> {},
     tx_timer |-> FALSE, hold_timer |-> FALSE], TRUE)

bfd_reconfigure_session(s, cf) ==
  LET t == [s EXCEPT !.cf = cf]
      u == bfd_session_set_min_tx(t, IF s.loc_state = UP
                                     THEN cf.min_tx ELSE cf.idle_tx)
      v == bfd_session_set_min_rx(u, cf.min_rx)
  IN  bfd_session_control_tx_timer([v EXCEPT !.passive = cf.passive], FALSE)
-----------------------------------------------------------------------------
(* Control packets. *)
bfd_send_ctl(s, final) ==
  [state |-> s.loc_state, snd_id |-> s.loc_id, rcv_id |-> s.rem_id,
   tx |-> s.des_min_tx_new, rx |-> s.req_min_rx_new,
   final |-> final, poll |-> ~ final /\ s.poll_active # {}]

\* A packet that finds the channel full is lost.
Deliver(ch, e, pkt) ==
  IF Len(ch[e]) < MaxInFlight THEN [ch EXCEPT ![e] = Append(@, pkt)] ELSE ch

\* Does bfd_rx_hook() find a session for the packet?
PacketMatches(s, pkt) ==
  IF pkt.rcv_id # NoId
  THEN pkt.rcv_id = s.loc_id
  ELSE /\ pkt.state <= DOWN
       /\ s.loc_state = UP => pkt.snd_id = s.rem_id

Received(s, pkt) ==
  bfd_session_process_ctl(
    [s EXCEPT !.rem_id = pkt.snd_id, !.rem_state = pkt.state,
              !.rem_min_tx_int = pkt.tx, !.rem_min_rx_int = pkt.rx], pkt)

bfd_rx_hook(e) ==
  /\ chan[e] # << >>
  /\ \E pkt \in {Head(chan[e])} : \E s \in {Received(sess[e], pkt)} :
       LET rest == [chan EXCEPT ![e] = Tail(@)]
       IN  IF PacketMatches(sess[e], pkt)
           THEN /\ sess' = [sess EXCEPT ![e] = s]
                /\ chan' = IF pkt.poll
                           THEN Deliver(rest, Peer(e), bfd_send_ctl(s, TRUE))
                           ELSE rest
                /\ missed' = [missed EXCEPT ![e] = FALSE]
                /\ heard' = heard \cup {pkt.snd_id}
           ELSE /\ chan' = rest
                /\ missed' = [missed EXCEPT ![e] = TRUE]
                /\ UNCHANGED <<sess, heard>>
  /\ UNCHANGED faults

\* A packet and the answer to its poll travel faster than the interval
\* between two packets.
bfd_tx_timer_hook(e) ==
  /\ sess[e].tx_timer
  /\ chan[Peer(e)] = << >>
  /\ \A i \in DOMAIN chan[e] : ~ chan[e][i].final
  /\ chan' = Deliver(chan, Peer(e), bfd_send_ctl(sess[e], FALSE))
  /\ UNCHANGED <<sess, missed, heard, faults>>

\* The detection time passes without an accepted packet: packets got lost or
\* were refused, or the peer does not send.  It is longer than what a packet
\* takes.
bfd_hold_timer_hook(e) ==
  /\ sess[e].hold_timer
  /\ \A x \in Ends : \A i \in DOMAIN chan[x] : ~ PacketMatches(sess[x], chan[x][i])
  /\ missed[e] \/ ~ sess[Peer(e)].tx_timer
  /\ sess' = [sess EXCEPT ![e] = bfd_session_timeout(@)]
  /\ UNCHANGED <<chan, missed, heard, faults>>

\* The network loses a packet.
Lose(e) ==
  /\ chan[e] # << >>
  /\ faults < MaxFaults
  /\ chan' = [chan EXCEPT ![e] = Tail(@)]
  /\ missed' = [missed EXCEPT ![e] = TRUE]
  /\ faults' = faults + 1
  /\ UNCHANGED <<sess, heard>>

Reconfigure(e) ==
  /\ faults < MaxFaults
  /\ \E cf \in Configs \ {sess[e].cf} :
       sess' = [sess EXCEPT ![e] = bfd_reconfigure_session(@, cf)]
  /\ faults' = faults + 1
  /\ UNCHANGED <<chan, missed, heard>>

\* The last request goes away and a new one comes: bfd_remove_session() and
\* bfd_add_session() with a fresh discriminator.
Restart(e) ==
  /\ faults < MaxFaults
  /\ sess' = [sess EXCEPT ![e] = bfd_add_session(e, @.loc_id[2] + 1, @.cf)]
  /\ missed' = [missed EXCEPT ![e] = TRUE]
  /\ faults' = faults + 1
  /\ UNCHANGED <<chan, heard>>

Init ==
  /\ sess = [e \in Ends |-> bfd_add_session(e, 1, FirstConfig[e])]
  /\ chan = [e \in Ends |-> << >>]
  /\ missed = [e \in Ends |-> TRUE]
  /\ heard = {}
  /\ faults = 0

Next ==
  \E e \in Ends :
    \/ bfd_rx_hook(e)
    \/ bfd_tx_timer_hook(e)
    \/ bfd_hold_timer_hook(e)
    \/ Lose(e)
    \/ Reconfigure(e)
    \/ Restart(e)

Spec == Init /\ [][Next]_vars

\* The BFD thread serves its sockets and timers.
Fairness ==
  \A e \in Ends :
    /\ WF_vars(bfd_rx_hook(e))
    /\ SF_vars(bfd_tx_timer_hook(e))
    /\ SF_vars(bfd_hold_timer_hook(e))

FairSpec == Spec /\ Fairness
-----------------------------------------------------------------------------
TypeOK ==
  /\ sess \in [Ends -> Session]
  /\ missed \in [Ends -> BOOLEAN]
  /\ \A e \in Ends : Len(chan[e]) <= MaxInFlight

\* The order the comments of bfd_session_set_min_tx() and
\* bfd_session_set_min_rx() note: the interval in use is never slower than
\* the announced one, and never expects more than the announced one.
IntervalOrder ==
  \A e \in Ends :
    /\ sess[e].des_min_tx_int <= sess[e].des_min_tx_new
    /\ sess[e].req_min_rx_int >= sess[e].req_min_rx_new

\* The purpose of the poll sequences: while both sessions are up and know
\* each other, the time a router waits for a packet is never shorter than
\* the interval at which the other one sends, whatever parameters changed
\* and whatever packets got lost on the way.  Except while this router still
\* polls for a receive interval that it uses already: one that was set before
\* the session came up is used at once, also if it is shorter than the one
\* the other router knows (bfd_session_set_min_rx()).
DetectionCoversTx ==
  \A e \in Ends :
    LET s == sess[e]
        t == sess[Peer(e)]
    IN  s.loc_state = UP /\ t.loc_state = UP
        /\ s.rem_id = t.loc_id /\ t.rem_id = s.loc_id
        /\ ("RX" \in s.poll_active => s.req_min_rx_int # s.req_min_rx_new)
        => bfd_session_update_detection_time(s) >= bfd_session_update_tx_interval(t)

\* A session comes up only after the other router has received a packet of
\* this very session (the connectivity is two-way).
UpNeedsEcho ==
  \A e \in Ends : sess[e].loc_state = UP => sess[e].loc_id \in heard

\* Once the faults are over both sessions come up and stay up, unless both
\* routers wait passively for the other one.
Connected == (\E e \in Ends : ~sess[e].passive) => \A e \in Ends : sess[e].loc_state = UP
ComesUp == <>[]Connected

\* A reconfigured receive interval is used sooner or later.
ConfigApplies == <>[](\A e \in Ends : sess[e].req_min_rx_int = sess[e].cf.min_rx)
=============================================================================
