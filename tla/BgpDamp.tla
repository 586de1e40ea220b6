------------------------------ MODULE BgpDamp ------------------------------
(***************************************************************************)
(* Route flap dampening of a BGP channel (proto/bgp/bgp_damp.c): the       *)
(* penalty of a flapping route, its decay, the suppression of the route    *)
(* and its reuse by a ring of lists that a timer walks, with the refresh   *)
(* cycles and restarts of the neighbor around it.                          *)
(*                                                                         *)
(* A tick is BGP_DAMP_DELTA_T.  Times and penalties are scaled down, with  *)
(* the ratios of the defaults; the floating-point tables are computed by   *)
(* integer roots and logarithms.  The import filter accepts every route,   *)
(* and the prune of the table (module TablePrune) is done at once.         *)
(***************************************************************************)
EXTENDS Integers, Sequences, FiniteSets, FiniteSetsExt

CONSTANTS
    Nets,     \* the networks the neighbor has routes for
    Attrs,    \* the attributes of these routes, numbers from 1
    Configs   \* the scenarios

VARIABLES
    conf,     \* parameters of the dampening, budgets of the neighbor
    s,        \* info, reuse_offset, table and stale routes, load_state
    rib,      \* what the neighbor has announced in this session
    resent,   \* networks it has announced again in this refresh
    phase,    \* ticks until the reuse timer runs
    done      \* how much of each budget is spent

vars == <<conf, s, rib, resent, phase, done>>

NoRoute == 0
BGP_DAMP_NO_REUSE_LIST_INDEX == -1
BGP_DAMP_NO_LIST_INDEX == -2
BGP_DAMP_DEFAULT_PENALTY == 8
BGP_DAMP_DELTA_REUSE == 2

NoInfo == [on |-> FALSE]

----------------------------------------------------------------------------
(* bgp_damp_parameter_set() *)

ceiling == conf.reuse_limit * 2^(conf.max_suppress_time \div conf.half_life)

reuse_list_size == (conf.max_suppress_time + BGP_DAMP_DELTA_REUSE - 1)
                       \div BGP_DAMP_DELTA_REUSE + 1

(* (int) (penalty * 0.5^(age / half_life))                                 *)
bgp_damp_decay(age, penalty) ==
    IF age = 0 THEN penalty
    ELSE IF age >= conf.max_suppress_time THEN 0
    ELSE Max({ q \in 0..penalty : q^conf.half_life <= penalty^conf.half_life \div 2^age })

(* (int) (half_life / DELTA_REUSE * log2(x))                               *)
Periods(x) ==
    Max({ k \in 0..40 : k <= 30 /\ 2^k <= x^(conf.half_life \div BGP_DAMP_DELTA_REUSE) })

(* The list of the ring whose turn comes when the penalty has decayed to   *)
(* the limit; conf.top is where the table of 1024 indices ends.            *)
bgp_damp_reuse_index(t, penalty) ==
    LET i == IF penalty <= conf.reuse_limit THEN conf.reuse_limit ELSE Min({penalty, conf.top})
    IN  (t.reuse_offset + Periods(i) - Periods(conf.reuse_limit)) % reuse_list_size

----------------------------------------------------------------------------
(* Routes of the channel in the table *)

(* rte_update2(): a route that comes is not stale any more.                *)
rte_update2(t, n, a) == [t EXCEPT !.table[n] = a, !.stale = @ \ {n}]

bgp_damp_has_visible_route(t, n) == t.table[n] # NoRoute

bgp_damp_release_route(t, n) ==
    IF t.info[n].stored = NoRoute \/ ~t.up THEN t ELSE rte_update2(t, n, t.info[n].stored)

----------------------------------------------------------------------------
(* The history of a route *)

bgp_damp_get == [on |-> TRUE, penalty |-> 0, age |-> conf.max_suppress_time,
                 suppressed |-> FALSE, stale |-> FALSE, last |-> NoRoute, stored |-> NoRoute,
                 lastrecord |-> "NONE", index |-> BGP_DAMP_NO_LIST_INDEX]

bgp_damp_clear_history(i) ==
    [i EXCEPT !.index = BGP_DAMP_NO_LIST_INDEX, !.penalty = 0, !.suppressed = FALSE]

Put(t, n, i, status) == [t |-> [t EXCEPT !.info[n] = i], status |-> status]

(* A withdrawal, or with attr_change the first half of an update with new  *)
(* attributes.  Without a history only a route that is there can flap.     *)
bgp_damp_withdraw(t, n, attr_change) ==
    LET old == t.info[n]
        add == IF attr_change THEN BGP_DAMP_DEFAULT_PENALTY \div 2 ELSE BGP_DAMP_DEFAULT_PENALTY
        penalty == IF old.on THEN Min({bgp_damp_decay(old.age, old.penalty) + add, ceiling})
                   ELSE add
        base == IF old.on THEN old
                ELSE [bgp_damp_get EXCEPT !.index = BGP_DAMP_NO_REUSE_LIST_INDEX]
        i == [base EXCEPT !.penalty = penalty, !.lastrecord = "WITHDRAW", !.age = 0,
                          !.stale = FALSE, !.stored = NoRoute,
                          !.last = IF attr_change THEN @ ELSE NoRoute]
        Listed(j) == [j EXCEPT !.index = bgp_damp_reuse_index(t, penalty)]
    IN  IF ~old.on /\ ~bgp_damp_has_visible_route(t, n) THEN [t |-> t, status |-> "USED"]
        ELSE IF i.suppressed
        THEN Put(t, n, IF penalty # old.penalty THEN Listed(i) ELSE i, "SUPPRESSED")
        ELSE IF penalty >= conf.suppress_value
        THEN Put(t, n, Listed([i EXCEPT !.suppressed = TRUE]), "USED")
        ELSE Put(t, n, [i EXCEPT !.index = IF @ = BGP_DAMP_NO_LIST_INDEX
                                           THEN BGP_DAMP_NO_REUSE_LIST_INDEX ELSE @], "USED")

(* The route is used again, or for the first time, or it is stored.        *)
UseOrStore(t, n, a, i) ==
    LET reused == i.suppressed /\ i.penalty < conf.reuse_limit
        used == reused \/ (~i.suppressed /\ i.penalty < conf.suppress_value)
        above == i.penalty > conf.reuse_limit \div 2
        j == [i EXCEPT !.stored = NoRoute, !.age = 0, !.suppressed = FALSE,
                       !.index = IF reused \/ @ = BGP_DAMP_NO_LIST_INDEX
                                 THEN BGP_DAMP_NO_REUSE_LIST_INDEX ELSE @]
    IN  IF ~used
        THEN Put(t, n, [i EXCEPT !.stored = a, !.age = IF above THEN 0 ELSE @], "SUPPRESSED")
        ELSE Put(t, n, IF above THEN j ELSE bgp_damp_clear_history(j), "USED")

Recorded(t, n, a, old) ==
    UseOrStore(t, n, a, [old EXCEPT !.lastrecord = "UPDATE", !.stale = FALSE, !.last = a,
                                    !.penalty = bgp_damp_decay(old.age, old.penalty)])

UpdateInfo(t, n, a) == Recorded(t, n, a, IF t.info[n].on THEN t.info[n] ELSE bgp_damp_get)

bgp_damp_update(t, n, a) ==
    UpdateInfo(IF t.info[n].on /\ t.info[n].last \notin {NoRoute, a}
               THEN bgp_damp_withdraw(t, n, TRUE).t ELSE t, n, a)

(* An update from the neighbor, a withdrawal if a is NoRoute.              *)
AfterWithdraw(w, n) == IF w.status = "SUPPRESSED" THEN w.t ELSE rte_update2(w.t, n, NoRoute)
AfterUpdate(u, n, a) ==
    IF u.status # "SUPPRESSED" THEN rte_update2(u.t, n, a)
    ELSE IF bgp_damp_has_visible_route(u.t, n) THEN rte_update2(u.t, n, NoRoute) ELSE u.t
bgp_rte_update(t, n, a) ==
    IF a = NoRoute THEN AfterWithdraw(bgp_damp_withdraw(t, n, FALSE), n)
    ELSE AfterUpdate(bgp_damp_update(t, n, a), n, a)

(* One route of the list whose turn it is.                                 *)
ReuseOne(t, n) ==
    LET pen == bgp_damp_decay(t.info[n].age, t.info[n].penalty)
        j == [t.info[n] EXCEPT !.index = BGP_DAMP_NO_LIST_INDEX, !.age = 0, !.penalty = pen]
        free == [j EXCEPT !.suppressed = FALSE, !.stored = NoRoute]
        u == IF j.lastrecord = "UPDATE" THEN bgp_damp_release_route(t, n) ELSE t
    IN  IF pen >= conf.reuse_limit
        THEN [t EXCEPT !.info[n] = [j EXCEPT !.index = bgp_damp_reuse_index(t, pen)]]
        ELSE IF pen > conf.reuse_limit \div 2
        THEN [u EXCEPT !.info[n] = [free EXCEPT !.index = BGP_DAMP_NO_REUSE_LIST_INDEX]]
        ELSE [u EXCEPT !.info[n] = IF j.lastrecord = "UPDATE"
                                   THEN bgp_damp_clear_history(free) ELSE NoInfo]

----------------------------------------------------------------------------
Spend(what) ==
    /\ done[what] < conf[what]
    /\ done' = [done EXCEPT ![what] = @ + 1]

(* The neighbor announces, changes or withdraws a route.                   *)
Update(n) ==
    /\ s.up
    /\ \E a \in Attrs \cup {NoRoute} :
         /\ a # rib[n]
         /\ Spend("updates")
         /\ s' = bgp_rte_update(s, n, a)
         /\ rib' = [rib EXCEPT ![n] = a]
         /\ resent' = resent \cup {n}
    /\ UNCHANGED <<conf, phase>>

(* It sends a route again as a refresh demands.                            *)
Resend(n) ==
    /\ s.up /\ s.load = "REFRESHING" /\ rib[n] # NoRoute /\ n \notin resent
    /\ s' = bgp_rte_update(s, n, rib[n])
    /\ resent' = resent \cup {n}
    /\ UNCHANGED <<conf, rib, phase, done>>

bgp_damp_refresh_begin(t) ==
    [t EXCEPT !.info = [n \in Nets |-> IF @[n].on THEN [@[n] EXCEPT !.stale = TRUE] ELSE @[n]]]

bgp_damp_refresh_end(t) ==
    [t EXCEPT !.info = [n \in Nets |-> IF @[n].on /\ @[n].stale THEN NoInfo ELSE @[n]]]

rt_refresh_begin(t) == [t EXCEPT !.stale = { n \in Nets : t.table[n] # NoRoute }]

rt_refresh_end(t) ==
    [t EXCEPT !.table = [n \in Nets |-> IF n \in t.stale THEN NoRoute ELSE @[n]], !.stale = {}]

bgp_refresh_begin ==
    /\ s.up /\ s.load # "LOADING"
    /\ Spend("refreshes")
    /\ s' = rt_refresh_begin(bgp_damp_refresh_begin([s EXCEPT !.load = "REFRESHING"]))
    /\ resent' = {}
    /\ UNCHANGED <<conf, rib, phase>>

bgp_refresh_end ==
    /\ s.up /\ s.load = "REFRESHING"
    /\ \A n \in Nets : rib[n] # NoRoute => n \in resent
    /\ s' = rt_refresh_end(bgp_damp_refresh_end([s EXCEPT !.load = "NONE"]))
    /\ UNCHANGED <<conf, rib, resent, phase, done>>

(* The neighbor restarts gracefully: the channel falls back to CS_START    *)
(* with its routes stale and its dampening as it is.  If the last restart  *)
(* is not over, what is still stale from that one goes.                    *)
bgp_handle_graceful_restart ==
    /\ s.up
    /\ Spend("restarts")
    /\ LET t == IF s.load = "LOADING" THEN rt_refresh_end(s) ELSE s
       IN  s' = rt_refresh_begin([t EXCEPT !.up = FALSE, !.load = "NONE"])
    /\ rib' = [n \in Nets |-> NoRoute]
    /\ UNCHANGED <<conf, resent, phase>>

Established ==
    /\ ~s.up
    /\ s' = [s EXCEPT !.up = TRUE, !.load = "LOADING"]
    /\ UNCHANGED <<conf, rib, resent, phase, done>>

(* End-of-RIB: bgp_graceful_restart_done()                                 *)
EndOfRib ==
    /\ s.up /\ s.load = "LOADING"
    /\ s' = rt_refresh_end([s EXCEPT !.load = "NONE"])
    /\ UNCHANGED <<conf, rib, resent, phase, done>>

(* The channel is flushed and started again: bgp_damp_shutdown(),          *)
(* bgp_damp_start()                                                        *)
Restart ==
    /\ Spend("restarts")
    /\ s' = [info |-> [n \in Nets |-> NoInfo], reuse_offset |-> 0,
             table |-> [n \in Nets |-> NoRoute], stale |-> {}, up |-> TRUE, load |-> "NONE"]
    /\ rib' = [n \in Nets |-> NoRoute]
    /\ phase' = BGP_DAMP_DELTA_REUSE
    /\ UNCHANGED <<conf, resent>>

(* Time passes; what is older than max_suppress_time decays to nothing.    *)
Tick ==
    /\ phase > 0
    /\ \E n \in Nets : s.info[n].on
    /\ phase' = phase - 1
    /\ s' = [s EXCEPT !.info = [n \in Nets |->
                IF @[n].on THEN [@[n] EXCEPT !.age = Min({@ + 1, conf.max_suppress_time})]
                ELSE @[n]]]
    /\ UNCHANGED <<conf, rib, resent, done>>

bgp_damp_reuse_timer ==
    LET due == { n \in Nets : s.info[n].on /\ s.info[n].index = s.reuse_offset }
        next == [s EXCEPT !.reuse_offset = (@ + 1) % reuse_list_size]
    IN  /\ phase = 0
        /\ phase' = BGP_DAMP_DELTA_REUSE
        /\ s' = FoldSet(LAMBDA n, t : ReuseOne(t, n), next, due)
        /\ UNCHANGED <<conf, rib, resent, done>>

----------------------------------------------------------------------------
Init ==
    /\ conf \in Configs
    /\ s = [info |-> [n \in Nets |-> NoInfo], reuse_offset |-> 0,
            table |-> [n \in Nets |-> NoRoute], stale |-> {}, up |-> TRUE, load |-> "NONE"]
    /\ rib = [n \in Nets |-> NoRoute]
    /\ resent = {}
    /\ phase = BGP_DAMP_DELTA_REUSE
    /\ done = [updates |-> 0, refreshes |-> 0, restarts |-> 0]

Next ==
    \/ \E n \in Nets : Update(n) \/ Resend(n)
    \/ bgp_refresh_begin \/ bgp_refresh_end
    \/ (conf.graceful /\ (bgp_handle_graceful_restart \/ Established \/ EndOfRib))
    \/ (~conf.graceful /\ Restart)
    \/ Tick \/ bgp_damp_reuse_timer

Spec == Init /\ [][Next]_vars

----------------------------------------------------------------------------
OnRing(i) == i.index \in 0..(reuse_list_size - 1)

(* The routes in the table are those the neighbor has announced, but for   *)
(* the suppressed ones (bgp_damp_update, bgp_rte_update); of these the     *)
(* last announcement is kept, and each is on a list of the ring, as no     *)
(* other list is ever walked (bgp_damp_reuse_timer).  A suppressed route   *)
(* waits at most two turns of the timer after its penalty has decayed      *)
(* below the limit.                                                        *)
DampRight ==
    \A n \in Nets :
        LET i == s.info[n]
        IN  /\ (s.up /\ s.table[n] # NoRoute /\ n \notin s.stale) => s.table[n] = rib[n]
            /\ (s.up /\ rib[n] # NoRoute /\ s.table[n] = NoRoute) =>
                  i.on /\ i.suppressed /\ i.stored = rib[n] /\ i.lastrecord = "UPDATE"
            /\ i.on => (/\ i.suppressed <=> OnRing(i)
                        /\ i.penalty <= ceiling
                        /\ i.suppressed => s.table[n] = NoRoute \/ n \in s.stale
                        /\ (i.suppressed /\ i.age > 2 * BGP_DAMP_DELTA_REUSE) =>
                              bgp_damp_decay(i.age - 2 * BGP_DAMP_DELTA_REUSE, i.penalty)
                                  >= conf.reuse_limit)

(* After a restart of the neighbor and its End-of-RIB the table holds only *)
(* what the neighbor has announced since.  bgp_graceful_restart_done()     *)
(* ends the refresh cycle that bgp_handle_graceful_restart() started, of   *)
(* which rt_refresh_begin() says that "all protocol routes [...] not sent  *)
(* during the refresh cycle but still in the table from the past are       *)
(* pruned".                                                                *)
NoGhosts ==
    \A n \in Nets : (s.up /\ s.load = "NONE" /\ s.table[n] # NoRoute) => s.table[n] = rib[n]

=============================================================================
