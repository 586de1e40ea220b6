----------------------------- MODULE BgpUpdates -----------------------------
(***************************************************************************)
(* The routes of one BGP channel on their way from a router to its         *)
(* neighbor: feeds and route changes, the buckets and prefixes that wait   *)
(* to be sent, updates, route refresh with and without marks of its begin  *)
(* and end, End-of-RIB, and the graceful restart of the neighbor with its  *)
(* long-lived variant (attrs.c, packets.c, bgp.c).                         *)
(*                                                                         *)
(* The session is up or not, for both; BgpSession has its details.  Stale  *)
(* routes go at once when a refresh ends; TablePrune has the details.      *)
(***************************************************************************)
EXTENDS Integers, Sequences, FiniteSets

CONSTANTS
  Nets, Attrs,
  TooLong,       \* the attributes that do not fit in a message
  None,
  Configs,       \* configurations, see Conf
  MaxNlri,       \* prefixes that fit in a message
  MaxInFlight    \* bound on the messages in flight

VARIABLES
  conf,
  snd,      \* the sending router: struct bgp_channel and the feed of the channel
  rcv,      \* the receiving router
  wire,     \* messages on the way
  back,     \* a ROUTE-REFRESH on the way back
  log,      \* log[n]: the values exported for n, and
  pos,      \* pos[n]: how far the receiver has got
  changes, requests, breaks

vars == <<conf, snd, rcv, wire, back, log, pos, changes, requests, breaks>>

\* What both routers support, and bounds on what happens.  llgr is of the session,
\* stale_time (is there one) of this channel.
Conf == [gr : BOOLEAN, llgr : BOOLEAN, stale_time : BOOLEAN, enhanced_refresh : BOOLEAN,
         changes : Nat, requests : Nat, breaks : Nat]

ASSUME NetsAssumption == Nets # {} /\ IsFiniteSet(Nets)
ASSUME ConfigsAssumption == Configs \subseteq Conf
ASSUME BoundsAssumption == MaxNlri \in Nat \ {0} /\ MaxInFlight \in Nat \ {0}

Current(n) == log[n][Len(log[n])]
Exported(v) == IF v \in TooLong THEN None ELSE v
FeedStates == {"NONE", "LOADING", "LOADED", "REFRESHING", "REFRESHED"}

Bucket == [eattrs : Attrs, prefixes : SUBSET Nets]

\* best: the routes of the table; buckets: their queue;
\* begun: where log was when the last feed with an end mark began.
Snd == [best : [Nets -> Attrs \cup {None}], withdraw_bucket : SUBSET Nets,
        buckets : Seq(Bucket),
        packets_to_send : SUBSET {"BoRR", "UPDATE"}, feed_state : FeedStates,
        feed : {"NONE", "SCHEDULED", "ACTIVE"}, refeeding : BOOLEAN,
        feed_todo : SUBSET Nets, begun : [Nets -> Nat \ {0}]]
Route == [v : Attrs \cup {None}, stale : BOOLEAN]
Rcv == [up : BOOLEAN, rib : [Nets -> Route], load_state : FeedStates,
        gr_active : {"NONE", "ACTIVE", "LLGR"}, gr_timer : BOOLEAN,
        stale_timer : BOOLEAN, refresh : BOOLEAN]

NoRoute == [v |-> None, stale |-> FALSE]
-----------------------------------------------------------------------------
(* The prefixes that wait to be sent. *)
\* Variant: a prefix that waits already is not taken out of its bucket.
GetPrefixTwice(s, n) == s

\* A prefix is in one bucket at most.
bgp_get_prefix(s, n) ==
  [s EXCEPT !.withdraw_bucket = @ \ {n},
            !.buckets = [i \in DOMAIN s.buckets |->
                          [s.buckets[i] EXCEPT !.prefixes = @ \ {n}]]]

bgp_get_bucket(s, v) ==
  IF \E i \in DOMAIN s.buckets : s.buckets[i].eattrs = v THEN s
  ELSE [s EXCEPT !.buckets = Append(@, [eattrs |-> v, prefixes |-> {}])]

AddTail(s, n, v) ==
  [s EXCEPT !.buckets = [i \in DOMAIN s.buckets |->
     IF s.buckets[i].eattrs = v THEN [s.buckets[i] EXCEPT !.prefixes = @ \cup {n}]
     ELSE s.buckets[i]]]

bgp_rt_notify(s, n) ==
  LET v == s.best[n]
      q == bgp_get_prefix(s, n)
      r == IF v = None THEN [q EXCEPT !.withdraw_bucket = @ \cup {n}]
           ELSE AddTail(bgp_get_bucket(q, v), n, v)
  IN  [r EXCEPT !.packets_to_send = @ \cup {"UPDATE"}]

bgp_withdraw_bucket(s) ==
  [s EXCEPT !.withdraw_bucket = @ \cup Head(s.buckets).prefixes, !.buckets = Tail(@)]

\* Buckets without prefixes are freed when they are met at the head: f is the
\* place of the first one with prefixes.
bgp_free_bucket(s, f) == [s EXCEPT !.buckets = SubSeq(@, f, Len(@))]
Found(s, f) ==
  /\ \A i \in 1 .. f - 1 : s.buckets[i].prefixes = {}
  /\ f <= Len(s.buckets) => s.buckets[f].prefixes # {}

\* What bgp_create_update() finds to send, a set with one element: withdrawals;
\* else a bucket, whose prefixes are withdrawn if its attributes do not fit.
Met(s) ==
  LET free == {bgp_free_bucket(s, f) : f \in {i \in 1 .. Len(s.buckets) + 1 : Found(s, i)}}
  IN  IF s.withdraw_bucket # {} THEN {s}
      ELSE {IF c.buckets # << >> /\ Head(c.buckets).eattrs \in TooLong
            THEN bgp_withdraw_bucket(c) ELSE c : c \in free}

\* At most MaxNlri of the prefixes go into a message.
Chunk(px) ==
  LET some == {x \in SUBSET px : Cardinality(x) = MaxNlri}
  IN  IF some = {} THEN px ELSE CHOOSE x \in some : TRUE

update(px, v) == [t |-> "UPDATE", px |-> px, v |-> v, at |-> [n \in px |-> Len(log[n])]]
mark(t, s) == [t |-> t, begun |-> s.begun]

\* bgp_create_update() with the state it leaves: a set with at most one pair
\* of them.  Withdrawals go first; a bucket that is not empty yet goes to the
\* end of the queue.
bgp_create_update(s) ==
  LET b == Head(s.buckets)
      rest == b.prefixes \ Chunk(b.prefixes)
  IN  IF s.withdraw_bucket # {}
      THEN {<<[s EXCEPT !.withdraw_bucket = @ \ Chunk(@)],
              update(Chunk(s.withdraw_bucket), None)>>}
      ELSE IF s.buckets = << >> THEN {}
      ELSE {<<[s EXCEPT !.buckets =
                 IF rest = {} THEN Tail(@)
                 ELSE Append(Tail(@), [b EXCEPT !.prefixes = rest])],
              update(Chunk(b.prefixes), b.eattrs)>>}

bgp_feed_begin(s) ==
  LET begun == [n \in Nets |-> Len(log[n])]
  IN  IF ~s.refeeding
      THEN IF conf.gr THEN [s EXCEPT !.feed_state = "LOADING", !.begun = begun] ELSE s
      ELSE IF conf.enhanced_refresh /\ s.feed_state \notin {"LOADING", "LOADED"}
           THEN [s EXCEPT !.feed_state = "REFRESHING", !.begun = begun,
                          !.packets_to_send = @ \cup {"BoRR"}]
           ELSE s

bgp_feed_end(s) ==
  IF s.feed_state = "NONE" THEN s
  ELSE [s EXCEPT !.packets_to_send = @ \cup {"UPDATE"},
                 !.feed_state = IF @ = "LOADING" THEN "LOADED"
                                ELSE IF @ = "REFRESHING" THEN "REFRESHED" ELSE @]

\* A feed that goes on is aborted and begun again.
channel_request_feeding(s) ==
  IF s.feed = "SCHEDULED" THEN s
  ELSE [s EXCEPT !.feed = "SCHEDULED", !.refeeding = TRUE, !.feed_todo = {}]
-----------------------------------------------------------------------------
(* The refresh cycle of the receiving channel. *)
rt_refresh_begin(r) ==
  [r EXCEPT !.rib = [n \in Nets |-> [v |-> @[n].v, stale |-> @[n].v # None]]]

\* The networks that lose their route when a refresh ends.
Stale(r) == {n \in Nets : r.rib[n].stale}

rt_refresh_end(r) ==
  [r EXCEPT !.rib = [n \in Nets |-> IF @[n].stale THEN NoRoute ELSE @[n]]]

bgp_graceful_restart_done(r) ==
  rt_refresh_end([r EXCEPT !.gr_active = "NONE", !.stale_timer = FALSE])

bgp_handle_graceful_restart(r) ==
  LET q == [r EXCEPT !.up = FALSE, !.gr_timer = TRUE, !.refresh = FALSE]
  IN  IF r.gr_active = "NONE" THEN rt_refresh_begin([q EXCEPT !.gr_active = "ACTIVE"])
      ELSE IF r.gr_active = "ACTIVE" THEN rt_refresh_begin(rt_refresh_end(q))
      ELSE rt_refresh_begin(q)

Flushed == [up |-> FALSE, rib |-> [n \in Nets |-> NoRoute], load_state |-> "NONE",
            gr_active |-> "NONE", gr_timer |-> FALSE, stale_timer |-> FALSE,
            refresh |-> FALSE]

bgp_refresh_begin(r) ==
  IF r.load_state = "LOADING" THEN r
  ELSE rt_refresh_begin([r EXCEPT !.load_state = "REFRESHING"])

bgp_refresh_end(r) ==
  IF r.load_state # "REFRESHING" THEN r
  ELSE rt_refresh_end([r EXCEPT !.load_state = "NONE"])

\* Variant: the end of the initial routes leaves the restart to its timers.
EndMarkQuiet(r) == [r EXCEPT !.load_state = IF @ = "LOADING" THEN "NONE" ELSE @]

bgp_rx_end_mark(r) ==
  LET q == [r EXCEPT !.load_state = IF @ = "LOADING" THEN "NONE" ELSE @]
  IN  IF r.gr_active # "NONE" THEN bgp_graceful_restart_done(q) ELSE q

\* The withdrawals that the receiver has not got to, and no update in flight
\* is older.
Unseen(n) ==
  {j \in pos[n] .. Len(log[n]) :
    /\ log[n][j] = None
    /\ \A k \in DOMAIN wire : wire[k].t = "UPDATE" /\ n \in wire[k].px => j <= wire[k].at[n]}

\* How far the receiver gets when it drops the stale routes of gone: to such a
\* withdrawal, if there is one.
Dropped(gone) ==
  [n \in Nets |-> IF n \in gone /\ Unseen(n) # {} THEN CHOOSE j \in Unseen(n) : TRUE
                  ELSE pos[n]]
-----------------------------------------------------------------------------
(* The sending router. *)
RouteChange(n, v) ==
  /\ changes < conf.changes /\ v # snd.best[n]
  /\ changes' = changes + 1
  /\ log' = [log EXCEPT ![n] = Append(@, Exported(v))]
  /\ LET s == [snd EXCEPT !.best[n] = v]
     IN  snd' = IF rcv.up THEN bgp_rt_notify(s, n) ELSE s
  /\ UNCHANGED <<conf, rcv, wire, back, pos, requests, breaks>>

channel_feed_loop ==
  /\ rcv.up
  /\ \/ /\ snd.feed = "SCHEDULED"
        /\ snd' = [bgp_feed_begin(snd) EXCEPT !.feed = "ACTIVE", !.feed_todo = Nets]
     \/ /\ snd.feed = "ACTIVE"
        /\ LET n == CHOOSE x \in snd.feed_todo : TRUE
               s == [IF snd.best[n] # None THEN bgp_rt_notify(snd, n) ELSE snd
                     EXCEPT !.feed_todo = @ \ {n}]
           IN  snd' = IF s.feed_todo = {} THEN bgp_feed_end([s EXCEPT !.feed = "NONE"])
                      ELSE s
  /\ UNCHANGED <<conf, rcv, wire, back, log, pos, changes, requests, breaks>>

\* Variant: the end mark does not wait for the updates.
FireEager ==
  LET send(q, m) == snd' = q /\ wire' = Append(wire, m)
  IN  /\ rcv.up /\ snd.packets_to_send # {} /\ Len(wire) < MaxInFlight
      /\ IF "BoRR" \in snd.packets_to_send
         THEN send([snd EXCEPT !.packets_to_send = @ \ {"BoRR"}], mark("BoRR", snd))
         ELSE \E s \in Met(snd) :
           IF s.feed_state = "LOADED"
           THEN send([s EXCEPT !.feed_state = "NONE"], mark("EoR", s))
           ELSE IF bgp_create_update(s) # {}
           THEN \E u \in bgp_create_update(s) : send(u[1], u[2])
           ELSE LET q == [s EXCEPT !.packets_to_send = {}, !.feed_state =
                            IF @ \in {"LOADED", "REFRESHED"} THEN "NONE" ELSE @]
                IN  IF s.feed_state = "REFRESHED" THEN send(q, mark("EoRR", s))
                    ELSE snd' = q /\ UNCHANGED wire
      /\ UNCHANGED <<conf, rcv, back, log, pos, changes, requests, breaks>>

\* One message of bgp_fire_tx(), of the ones of the channel.
bgp_fire_tx ==
  LET send(q, m) == snd' = q /\ wire' = Append(wire, m)
  IN  /\ rcv.up /\ snd.packets_to_send # {} /\ Len(wire) < MaxInFlight
      /\ IF "BoRR" \in snd.packets_to_send
         THEN send([snd EXCEPT !.packets_to_send = @ \ {"BoRR"}], mark("BoRR", snd))
         ELSE \E s \in Met(snd) :
           IF bgp_create_update(s) # {}
           THEN \E u \in bgp_create_update(s) : send(u[1], u[2])
           ELSE LET q == [s EXCEPT !.packets_to_send = {}, !.feed_state =
                            IF @ \in {"LOADED", "REFRESHED"} THEN "NONE" ELSE @]
                IN  IF s.feed_state = "LOADED" THEN send(q, mark("EoR", s))
                    ELSE IF s.feed_state = "REFRESHED" THEN send(q, mark("EoRR", s))
                    ELSE snd' = q /\ UNCHANGED wire
      /\ UNCHANGED <<conf, rcv, back, log, pos, changes, requests, breaks>>

bgp_rx_route_refresh ==
  /\ back
  /\ back' = FALSE
  /\ snd' = channel_request_feeding(snd)
  /\ UNCHANGED <<conf, rcv, wire, log, pos, changes, requests, breaks>>
-----------------------------------------------------------------------------
(* The receiving router. *)
bgp_rx_update(m) ==
  /\ rcv' = [rcv EXCEPT !.rib = [n \in Nets |->
               IF n \in m.px THEN [v |-> m.v, stale |-> FALSE] ELSE @[n]]]
  /\ pos' = [n \in Nets |-> IF n \in m.px THEN m.at[n] ELSE pos[n]]

bgp_rx ==
  /\ wire # << >>
  /\ LET m == Head(wire)
     IN  \/ m.t = "UPDATE" /\ bgp_rx_update(m)
         \/ m.t = "BoRR" /\ rcv' = bgp_refresh_begin(rcv) /\ UNCHANGED pos
         \/ /\ m.t = "EoRR"
            /\ rcv' = bgp_refresh_end(rcv)
            /\ pos' = IF rcv.load_state = "REFRESHING" THEN Dropped(Stale(rcv)) ELSE pos
         \/ /\ m.t = "EoR"
            /\ rcv' = bgp_rx_end_mark(rcv)
            /\ pos' = IF rcv.gr_active # "NONE" THEN Dropped(Stale(rcv)) ELSE pos
  /\ wire' = Tail(wire)
  /\ UNCHANGED <<conf, snd, back, log, changes, requests, breaks>>

bgp_reload_routes ==
  /\ rcv.up /\ requests < conf.requests
  /\ requests' = requests + 1
  /\ rcv' = [rcv EXCEPT !.refresh = TRUE]
  /\ UNCHANGED <<conf, snd, wire, back, log, pos, changes, breaks>>

SendRouteRefresh ==
  /\ rcv.up /\ rcv.refresh /\ ~back
  /\ rcv' = [rcv EXCEPT !.refresh = FALSE]
  /\ back' = TRUE
  /\ UNCHANGED <<conf, snd, wire, log, pos, changes, requests, breaks>>

bgp_graceful_restart_timeout ==
  /\ rcv.gr_timer
  /\ LET r == [rcv EXCEPT !.gr_timer = FALSE]
     IN  rcv' = IF ~conf.llgr THEN Flushed
                ELSE IF r.gr_active # "ACTIVE" THEN r
                ELSE IF ~conf.stale_time THEN bgp_graceful_restart_done(r)
                ELSE [r EXCEPT !.gr_active = "LLGR", !.stale_timer = TRUE]
  /\ UNCHANGED <<conf, snd, wire, back, log, pos, changes, requests, breaks>>

bgp_long_lived_stale_timeout ==
  /\ rcv.stale_timer
  /\ rcv' = bgp_graceful_restart_done(rcv)
  /\ UNCHANGED <<conf, snd, wire, back, log, pos, changes, requests, breaks>>
-----------------------------------------------------------------------------

\* bgp_conn_enter_established_state() of both; forwarding: the neighbor kept
\* its forwarding state, or does a graceful restart at all.  The restart timer
\* goes on if the stale routes are gone already.
bgp_conn_enter_established_state(forwarding) ==
  /\ ~rcv.up
  /\ snd' = [snd EXCEPT !.feed = "SCHEDULED", !.refeeding = FALSE, !.feed_state = "NONE"]
  /\ LET r == [rcv EXCEPT !.up = TRUE, !.gr_timer = @ /\ rcv.gr_active = "NONE",
                          !.load_state = IF conf.gr THEN "LOADING" ELSE "NONE"]
     IN  rcv' = IF r.gr_active # "NONE" /\ ~forwarding
                THEN bgp_graceful_restart_done(r) ELSE r
  /\ UNCHANGED <<conf, wire, back, log, pos, changes, requests, breaks>>

\* The connection breaks; both routers notice and forget what waits.
SessionLost ==
  /\ rcv.up /\ breaks < conf.breaks
  /\ breaks' = breaks + 1
  /\ snd' = [snd EXCEPT !.withdraw_bucket = {}, !.buckets = << >>,
                        !.packets_to_send = {}, !.feed = "NONE", !.feed_todo = {}]
  /\ rcv' = IF conf.gr THEN bgp_handle_graceful_restart(rcv) ELSE Flushed
  /\ wire' = << >> /\ back' = FALSE
  /\ UNCHANGED <<conf, log, pos, changes, requests>>

Init ==
  /\ conf \in Configs
  /\ snd = [best |-> [n \in Nets |-> None], withdraw_bucket |-> {}, buckets |-> << >>,
            packets_to_send |-> {}, feed_state |-> "NONE", feed |-> "NONE",
            refeeding |-> FALSE, feed_todo |-> {}, begun |-> [n \in Nets |-> 1]]
  /\ rcv = Flushed
  /\ wire = << >> /\ back = FALSE
  /\ log = [n \in Nets |-> <<None>>] /\ pos = [n \in Nets |-> 1]
  /\ changes = 0 /\ requests = 0 /\ breaks = 0

Next ==
  \/ \E n \in Nets, v \in Attrs \cup {None} : RouteChange(n, v)
  \/ channel_feed_loop \/ bgp_fire_tx \/ bgp_rx_route_refresh
  \/ bgp_rx \/ bgp_reload_routes \/ SendRouteRefresh
  \/ bgp_graceful_restart_timeout \/ bgp_long_lived_stale_timeout
  \/ \E f \in BOOLEAN : bgp_conn_enter_established_state(f)
  \/ SessionLost

Spec == Init /\ [][Next]_vars

\* Feeds, transmission and reception go on, and the session is established
\* again.
Fairness ==
  /\ WF_vars(channel_feed_loop) /\ WF_vars(bgp_fire_tx) /\ WF_vars(bgp_rx)
  /\ WF_vars(bgp_rx_route_refresh) /\ WF_vars(SendRouteRefresh)
  /\ WF_vars(\E f \in BOOLEAN : bgp_conn_enter_established_state(f))

FairSpec == Spec /\ Fairness
-----------------------------------------------------------------------------
TypeOK == conf \in Conf /\ snd \in Snd /\ rcv \in Rcv /\ Len(wire) <= MaxInFlight

\* The channel keeps the promise of RouteReplica: routes arrive in order,
\* and neither a refresh nor the end of a restart drops one that is exported.
Replica == INSTANCE RouteReplica WITH
  Values <- Attrs,
  view <- [n \in Nets |-> rcv.rib[n].v],
  session <- IF ~rcv.up THEN "down"
             ELSE IF rcv.load_state = "LOADING" THEN "loading" ELSE "synced"
ReplicaSpec == Replica!Spec

\* When an end mark counts, the receiver has for every network a value that
\* was exported after the marked feed began: End-of-RIB and EoRR are true.
EndMarksTrue ==
  [][/\ wire # << >> /\ wire' = Tail(wire) /\ rcv'.up
     /\ \/ Head(wire).t = "EoR"
        \/ Head(wire).t = "EoRR" /\ rcv.load_state = "REFRESHING"
     => \A n \in Nets : \E j \in Head(wire).begun[n] .. Len(log[n]) :
          rcv'.rib[n].v = log[n][j]]_vars

\* When changes and breaks are over the receiver gets what is exported.
Received == \A n \in Nets : rcv.rib[n].v = Current(n) /\ ~rcv.rib[n].stale
Converges == <>[]Received
=============================================================================
