--------------------------- MODULE ChannelExport ---------------------------
(***************************************************************************)
(* The export side of one channel: how the routes of a table reach the     *)
(* protocol (nest/proto.c: channel_set_state, feeding, ROA subscriptions,  *)
(* reconfiguration; nest/rt-table.c: rt_feed_channel, rt_notify_basic).    *)
(*                                                                         *)
(* A network has at most one (best) route.  What the filter decides is the *)
(* set `accepted' of networks; a change of a ROA table or of the filter    *)
(* replaces that set.  One pass of the feed offers one route, where the    *)
(* code offers up to 256: this only adds interleavings.  The limit action  *)
(* is `block' (the other actions are in module Protocols).                 *)
(***************************************************************************)
EXTENDS Naturals, FiniteSets

CONSTANTS
    Nets,           \* networks of the table
    Setups,         \* channels considered: their out_limit.limit, rpki_reload,
                    \* and whether the protocol may fall back to PS_START
    MaxChanges      \* bound on route and ROA changes, reconfigurations, requests

ASSUME ExportAssumption ==
    /\ IsFiniteSet(Nets)
    /\ Setups \subseteq [out_limit : Nat, rpki_reload : BOOLEAN, may_pause : BOOLEAN]
    /\ MaxChanges \in Nat

VARIABLES
    setup,          \* the channel of this behaviour
    channel_state,  \* CS_*
    gr_wait,        \* export waits for the end of graceful restart
    subscribed,     \* channel_roa_out_changed() is subscribed to the ROA table
    export_state,   \* ES_*
    feed_event,     \* feed_event is scheduled
    feed_active,    \* the iterator feed_fit is linked
    todo,           \* networks feed_fit has not passed yet
    refeeding, refeed_pending, refeed_count,
    out_limit,      \* out_limit.state
    export_map,     \* networks whose route the protocol has
    routes,         \* networks with a route in the table
    accepted,       \* networks whose route the export filter accepts now
    settling,       \* the settle timer of the ROA table runs
    changes,        \* number of bounded environment steps so far
    dropped,        \* history: routes the limit rejected when last offered
    unfed,          \* history: a change for which no feed is promised
    seen,           \* history: networks whose route was acceptable or exported
                    \* at some moment since the feed started
    bugs            \* history: some ASSERT has failed

chanVars  == <<channel_state, gr_wait, subscribed>>
feedVars  == <<export_state, feed_event, feed_active, todo, refeeding, refeed_pending>>
offerVars == <<refeed_count, out_limit, export_map, dropped>>
tableVars == <<routes, accepted, settling, changes>>
vars == <<setup, chanVars, feedVars, offerVars, tableVars, unfed, seen, bugs>>

OutLimit   == setup.out_limit
RpkiReload == setup.rpki_reload
MayPause   == setup.may_pause

TypeOK ==
    /\ setup \in Setups
    /\ channel_state \in {"DOWN", "START", "UP", "FLUSHING"}
    /\ export_state \in {"DOWN", "FEEDING", "READY"}
    /\ {gr_wait, feed_event, feed_active, refeeding, refeed_pending,
        subscribed, settling, unfed, bugs} \subseteq BOOLEAN
    /\ {todo, export_map, routes, accepted, dropped, seen} \subseteq SUBSET Nets
    /\ refeed_count \in Nat
    /\ out_limit \in {"INITIAL", "BLOCKED"}
    /\ changes \in 0..MaxChanges

Init ==
    /\ setup \in Setups
    /\ channel_state = "DOWN" /\ gr_wait = FALSE /\ subscribed = FALSE
    /\ export_state = "DOWN" /\ feed_event = FALSE /\ feed_active = FALSE /\ todo = {}
    /\ refeeding = FALSE /\ refeed_pending = FALSE /\ refeed_count = 0
    /\ out_limit = "INITIAL" /\ export_map = {} /\ dropped = {}
    /\ routes \in SUBSET Nets /\ accepted \in SUBSET Nets
    /\ settling = FALSE /\ changes = 0
    /\ unfed = FALSE /\ seen = {} /\ bugs = FALSE

Change == changes < MaxChanges /\ changes' = changes + 1

(* A release build logs a failed ASSERT and goes on.                       *)
ASSERT(cond) == bugs' = (bugs \/ ~cond)

----------------------------------------------------------------------------
(* Offering one route.                                                     *)

(* rt_notify_basic() and do_rt_notify(): the new route of n, acceptable or *)
(* not, is offered to the protocol, which has a route of n already iff n   *)
(* is in export_map.                                                       *)
rt_notify_basic(n, new, refeed) ==
    LET old     == n \in export_map
        hit     == new /\ ~old /\ Cardinality(export_map) >= OutLimit
        blocked == new /\ ~old /\ (hit \/ out_limit = "BLOCKED")
    IN  /\ refeed_count' = refeed_count + (IF refeed /\ new THEN 1 ELSE 0)
        /\ out_limit' = IF hit THEN "BLOCKED" ELSE out_limit
        /\ export_map' = IF blocked THEN export_map
                         ELSE IF new THEN export_map \union {n} ELSE export_map \ {n}
        /\ dropped' = IF blocked THEN dropped \union {n} ELSE dropped \ {n}

(* rte_announce() after the best route of n was added, changed or removed  *)
rte_announce(n, present) ==
    /\ n \in routes \/ present
    /\ Change
    /\ routes' = IF present THEN routes \union {n} ELSE routes \ {n}
    /\ IF export_state = "DOWN"
       THEN UNCHANGED offerVars
       ELSE rt_notify_basic(n, present /\ n \in accepted, FALSE)
    /\ UNCHANGED <<chanVars, feedVars, accepted, settling, unfed, bugs>>

----------------------------------------------------------------------------
(* Feeding.                                                                *)

channel_schedule_feed(initial) ==
    /\ export_state' = "FEEDING"
    /\ refeeding' = ~initial
    /\ feed_event' = TRUE

channel_start_export ==
    /\ ASSERT(export_state = "DOWN")
    /\ channel_schedule_feed(TRUE)
    /\ UNCHANGED <<feed_active, todo, refeed_pending>>

channel_stop_export ==
    /\ export_state' = "DOWN"
    /\ feed_active' = FALSE             \* rt_feed_channel_abort()
    /\ todo' = {}
    /\ export_map' = {}
    /\ dropped' = {}
    /\ UNCHANGED <<feed_event, refeeding, refeed_pending, refeed_count, out_limit>>

(* channel_request_feeding() as seen when the export state is `es'         *)
channel_request_feeding(es) ==
    /\ ASSERT(channel_state = "UP")
    /\ UNCHANGED refeed_pending
    /\ IF es = "DOWN" \/ (es = "FEEDING" /\ ~feed_active)
       THEN UNCHANGED <<export_state, feed_event, feed_active, todo, refeeding, refeed_count>>
       ELSE /\ channel_schedule_feed(FALSE)
            /\ feed_active' = FALSE
            /\ todo' = {}
            /\ refeed_count' = 0

(* The networks the pass that runs now has still to visit                  *)
Remaining == IF feed_active THEN todo ELSE Nets

FeedPassOnce(n) ==
    /\ feed_event /\ export_state = "FEEDING"
    /\ n \in Remaining \intersect routes
    /\ todo' = Remaining \ {n}
    /\ feed_active' = TRUE
    /\ feed_event' = FALSE
    /\ refeed_pending' = (refeed_pending /\ feed_active)
    /\ unfed' = (unfed /\ feed_active)
    /\ rt_notify_basic(n, n \in accepted, refeeding)
    /\ UNCHANGED <<chanVars, export_state, refeeding, tableVars, bugs>>

(* channel_feed_loop(), a pass that offers the route of n and does not     *)
(* finish; networks without a route may be skipped on the way.             *)
FeedPass(n) ==
    /\ feed_event /\ export_state = "FEEDING"
    /\ n \in Remaining \intersect routes
    /\ \E skipped \in SUBSET (Remaining \ routes) :
           todo' = Remaining \ ({n} \union skipped)
    /\ feed_active' = TRUE
    /\ refeed_pending' = (refeed_pending /\ feed_active)
    /\ unfed' = (unfed /\ feed_active)
    /\ rt_notify_basic(n, n \in accepted, refeeding)
    /\ UNCHANGED <<chanVars, export_state, feed_event, refeeding, tableVars, bugs>>

(* The export limit may be lifted at the end of a refeed.                  *)
LimitCanBeReset ==
    /\ refeeding
    /\ out_limit = "BLOCKED"
    /\ refeed_count <= OutLimit
    /\ Cardinality(export_map) <= OutLimit

FeedEndWithoutReset ==
    /\ feed_event /\ export_state = "FEEDING"
    /\ Remaining \intersect routes = {}
    /\ unfed' = (unfed /\ feed_active)
    /\ IF refeed_pending /\ feed_active
       THEN channel_request_feeding("READY")
       ELSE /\ export_state' = "READY"
            /\ feed_event' = FALSE
            /\ feed_active' = FALSE /\ todo' = {}
            /\ refeed_pending' = FALSE
            /\ UNCHANGED <<refeeding, refeed_count, bugs>>
    /\ UNCHANGED <<chanVars, out_limit, export_map, dropped, tableVars>>

(* channel_feed_loop(), the pass that finds nothing more to offer          *)
FeedEnd ==
    /\ feed_event /\ export_state = "FEEDING"
    /\ Remaining \intersect routes = {}
    /\ unfed' = (unfed /\ feed_active)
    /\ IF LimitCanBeReset
       THEN /\ out_limit' = "INITIAL"
            /\ refeed_count' = 0
            /\ feed_active' = FALSE /\ todo' = {}
            /\ refeed_pending' = (refeed_pending /\ feed_active)
            /\ UNCHANGED <<export_state, feed_event, refeeding, bugs>>
       ELSE IF refeed_pending /\ feed_active
       THEN /\ channel_request_feeding("READY")
            /\ UNCHANGED out_limit
       ELSE /\ export_state' = "READY"
            /\ feed_event' = FALSE
            /\ feed_active' = FALSE /\ todo' = {}
            /\ refeed_pending' = FALSE
            /\ UNCHANGED <<refeeding, refeed_count, out_limit, bugs>>
    /\ UNCHANGED <<chanVars, export_map, dropped, tableVars>>

(* channel_feed_loop() after the export was stopped                        *)
FeedIdle ==
    /\ feed_event /\ export_state # "FEEDING"
    /\ feed_event' = FALSE
    /\ UNCHANGED <<chanVars, export_state, feed_active, todo, refeeding,
                   refeed_pending, offerVars, tableVars, unfed, bugs>>

channel_feed_loop == FeedEnd \/ FeedIdle \/ \E n \in Nets : FeedPass(n)

----------------------------------------------------------------------------
(* channel_set_state(), as the protocol and the table prune call it.       *)

(* channel_do_start()                                                      *)
channel_do_start ==
    /\ out_limit' = "INITIAL"
    /\ export_map' = {}
    /\ UNCHANGED <<refeed_count, dropped>>

(* CS_DOWN -> CS_START                                                     *)
channel_init ==
    /\ channel_state = "DOWN"
    /\ channel_state' = "START"
    /\ channel_do_start
    /\ feed_event' = FALSE              \* a new event
    /\ UNCHANGED <<gr_wait, subscribed, export_state, feed_active, todo,
                   refeeding, refeed_pending, tableVars, unfed, bugs>>

(* CS_DOWN or CS_START -> CS_UP; a protocol that takes part in a graceful  *)
(* restart may have set gr_wait just before.                               *)
channel_open(wait) ==
    /\ channel_state \in {"DOWN", "START"}
    /\ channel_state' = "UP"
    /\ gr_wait' = (gr_wait \/ wait)
    /\ IF channel_state = "DOWN" THEN channel_do_start ELSE UNCHANGED offerVars
    /\ IF gr_wait'
       THEN /\ feed_event' = (feed_event /\ channel_state # "DOWN")
            /\ UNCHANGED <<export_state, feed_active, todo, refeeding, refeed_pending, bugs>>
       ELSE channel_start_export
    /\ subscribed' = (subscribed \/ RpkiReload)         \* channel_do_up()
    /\ UNCHANGED <<tableVars, unfed>>

(* CS_UP -> CS_START, for example when a BGP neighbor restarts gracefully  *)
Pause ==
    /\ MayPause
    /\ channel_state = "UP"
    /\ channel_state' = "START"
    /\ channel_stop_export
    /\ UNCHANGED <<gr_wait, subscribed, tableVars, unfed, bugs>>

CloseKeepingSubscription ==
    /\ channel_state \in {"START", "UP"}
    /\ channel_state' = "FLUSHING"
    /\ channel_stop_export
    /\ gr_wait' = FALSE
    /\ UNCHANGED <<subscribed, tableVars, unfed, bugs>>

(* CS_START or CS_UP -> CS_FLUSHING: channel_do_flush()                    *)
channel_close ==
    /\ channel_state \in {"START", "UP"}
    /\ channel_state' = "FLUSHING"
    /\ channel_stop_export
    /\ gr_wait' = FALSE
    /\ subscribed' = FALSE
    /\ UNCHANGED <<tableVars, unfed, bugs>>

(* CS_FLUSHING -> CS_DOWN, when the table has removed the channel's routes *)
channel_do_down ==
    /\ channel_state = "FLUSHING"
    /\ channel_state' = "DOWN"
    /\ ASSERT(~feed_active)
    /\ UNCHANGED <<gr_wait, subscribed, feedVars, offerVars, tableVars, unfed>>

(* graceful_restart_done() for this channel                                *)
graceful_restart_done ==
    /\ gr_wait
    /\ gr_wait' = FALSE
    /\ IF channel_state = "UP" THEN channel_start_export ELSE UNCHANGED <<feedVars, bugs>>
    /\ UNCHANGED <<channel_state, subscribed, offerVars, tableVars, unfed>>

----------------------------------------------------------------------------
(* Changes of what the filter accepts.                                     *)

(* A ROA or ASPA table the filter reads changes: rt_schedule_notify()      *)
(* starts the settle timer if anybody is subscribed, this channel or not.  *)
RoaChange(result, others) ==
    /\ Change
    /\ accepted' = result
    /\ settling' = (settling \/ subscribed \/ others)
    /\ unfed' = (unfed \/ (channel_state = "UP" /\ ~subscribed))
    /\ UNCHANGED <<chanVars, feedVars, offerVars, routes, bugs>>

RoaChangedIgnoredInFeed ==
    IF export_state = "FEEDING"
    THEN UNCHANGED <<feedVars, refeed_count, bugs>>
    ELSE channel_request_feeding(export_state)

channel_roa_out_changed ==
    IF export_state = "FEEDING"
    THEN /\ refeed_pending' = TRUE
         /\ UNCHANGED <<export_state, feed_event, feed_active, todo, refeeding,
                        refeed_count, bugs>>
    ELSE channel_request_feeding(export_state)

(* rt_settle_timer() of that table, once it has settled                    *)
rt_settle_timer ==
    /\ settling
    /\ settling' = FALSE
    /\ IF subscribed THEN channel_roa_out_changed
                     ELSE UNCHANGED <<feedVars, refeed_count, bugs>>
    /\ UNCHANGED <<chanVars, out_limit, export_map, dropped, routes, accepted,
                   changes, unfed>>

(* channel_reconfigure() with a filter that accepts `result'.  The limit   *)
(* is copied from the configuration, its state included.                   *)
channel_reconfigure(result, export_changed, soft) ==
    /\ Change
    /\ export_changed \/ result = accepted
    /\ accepted' = result
    /\ out_limit' = "INITIAL"
    /\ subscribed' = IF export_changed /\ channel_state = "UP" THEN RpkiReload ELSE subscribed
    /\ unfed' = (unfed \/ (IF export_changed THEN soft ELSE dropped # {}))
    /\ IF channel_state = "UP" /\ export_changed /\ ~soft
       THEN channel_request_feeding(export_state)
       ELSE UNCHANGED <<feedVars, refeed_count, bugs>>
    /\ UNCHANGED <<channel_state, gr_wait, export_map, dropped, routes, settling>>

(* `reload out' of the CLI, or a route refresh request of a BGP neighbor   *)
FeedRequest ==
    /\ Change
    /\ channel_state = "UP"
    /\ channel_request_feeding(export_state)
    /\ UNCHANGED <<chanVars, out_limit, export_map, dropped, routes, accepted,
                   settling, unfed>>

----------------------------------------------------------------------------
Acceptable == routes \intersect accepted

Step ==
    \/ channel_feed_loop
    \/ channel_init \/ Pause \/ channel_close \/ channel_do_down
    \/ \E wait \in BOOLEAN : channel_open(wait)
    \/ graceful_restart_done
    \/ rt_settle_timer
    \/ FeedRequest
    \/ \E n \in Nets, present \in BOOLEAN : rte_announce(n, present)
    \/ \E result \in SUBSET Nets, others \in BOOLEAN : RoaChange(result, others)
    \/ \E result \in SUBSET Nets, changed, soft \in BOOLEAN :
           channel_reconfigure(result, changed, soft)

(* History: the initial feed counts from the start of the export, a refeed *)
(* from the moment its iterator starts at the beginning of the table.      *)
Observe ==
    LET initial == export_state = "DOWN" /\ export_state' = "FEEDING"
        again   == refeeding /\ ~feed_active
                   /\ (feed_active' \/ (export_state = "FEEDING" /\ export_state' = "READY"))
    IN  /\ seen' = Acceptable' \union export_map'
                   \union (IF initial \/ again THEN {} ELSE seen)
        /\ UNCHANGED setup

Next == Step /\ Observe

Spec == Init /\ [][Next]_vars

(* The main loop runs scheduled events and expired timers; the recovery    *)
(* from a graceful restart ends at the latest when its wait timer expires. *)
FairSpec ==
    /\ Spec
    /\ WF_vars(channel_feed_loop /\ Observe)
    /\ WF_vars(rt_settle_timer /\ Observe)
    /\ WF_vars(graceful_restart_done /\ Observe)

----------------------------------------------------------------------------
(* The feed has finished and nobody knows a reason for another one.        *)
Quiet == export_state = "READY" /\ ~settling /\ ~unfed

(* Once a feed has finished and no ROA change waits for its settle timer,  *)
(* the protocol has exactly the routes the current filter accepts, but for *)
(* those the export limit rejected, and these only while the limit is      *)
(* blocked.  In particular no change that arrives during a feed is lost.   *)
ExportComplete ==
    Quiet =>
        /\ export_map = Acceptable \ dropped
        /\ dropped # {} => out_limit = "BLOCKED"

(* The protocol never has more routes than the export limit allows, though *)
(* routes arrive from the feed and from announcements alike.               *)
WithinLimit == Cardinality(export_map) <= OutLimit

(* A finished feed leaves a route out because of the limit only if, since  *)
(* that feed started, more networks than the limit really had acceptable   *)
(* or exported routes: a limit hit long ago does not outlive such a feed.  *)
FeedFits == Quiet /\ dropped # {} => Cardinality(seen) > OutLimit

(* The limit is kept and not applied to those who fit: see WithinLimit and *)
(* FeedFits.                                                               *)
LimitExact == WithinLimit /\ FeedFits

(* No ASSERT of the modelled functions fails: feeds are requested only for *)
(* channels that are up, an export is started only once, and a channel     *)
(* that goes down has no feed iterator left in the table.                  *)
NoAssertFails == ~bugs

(* Export happens only in CS_UP and never while the channel waits for the  *)
(* end of graceful restart; a running feed has its event scheduled, so     *)
(* that somebody continues it.                                             *)
ExportStates ==
    /\ export_state # "DOWN" => channel_state = "UP" /\ ~gr_wait
    /\ export_state = "FEEDING" => feed_event
    /\ feed_active => export_state = "FEEDING"

(* The states of the channel, of its export and of its feed go together:   *)
(* see NoAssertFails and ExportStates.                                     *)
ExportSound == NoAssertFails /\ ExportStates

(* Every feed ends, and every channel that is up and stays up is fed at    *)
(* last, whatever interrupts it.                                           *)
FeedsFinish ==
    channel_state = "UP" ~> (export_state = "READY" \/ channel_state # "UP")

============================================================================
