---------------------------- MODULE Aggregator -----------------------------
(***************************************************************************)
(* The aggregator protocol (proto/aggregator/aggregator.c): the routes of  *)
(* a network are sorted into buckets by the values of the aggregation      *)
(* list, and each bucket is merged into one route of the peer table.       *)
(*                                                                         *)
(* The aggregation list must hold the network, so networks do not          *)
(* interact: one is modelled.  A route is the pair of values that the two  *)
(* possible aggregation lists evaluate to.  Both tables announce changes   *)
(* at once, as rt_notify() does; the source table is fed route by route.   *)
(***************************************************************************)
EXTENDS Integers, Sequences, FiniteSets, SequencesExt

CONSTANTS
    Srcs,     \* sources of routes (struct rte_src), numbers from 1
    Routes,   \* the routes: pairs of values
    Configs   \* scenarios: the configurations to switch among, and budgets

VARIABLES
    conf,     \* the scenario
    table,    \* the source table: source -> route
    s,        \* state of the protocol
    dst,      \* routes of the protocol in the peer table: source -> merged
    cf,       \* the configuration in force
    done      \* how much of each budget is spent

vars == <<conf, table, s, dst, cf, done>>

Nil == 0
NoRoute == <<>>

(* The value of the aggregation list, the first or the second component    *)
(* (eval_static_attr(), eval_dynamic_attr(), f_eval_rte()).                *)
Evaluate(aggr_on, r) == r[aggr_on]

(* The export filter of the source channel.                                *)
Exported(filter, r) == filter = "all" \/ r[1] # 1

(* merge_by: what the filter makes of the routes of a bucket, or NoRoute   *)
(* if it rejects them or fails.                                            *)
Merge(filter, rs) ==
    CASE filter = "accept" -> <<"merged", rs>>
      [] filter = "several" -> IF Cardinality(rs) > 1 THEN <<"merged", rs>> ELSE NoRoute
      [] filter = "best" -> <<"best", { r \in rs : \A q \in rs : r[1] + 3 * r[2] <= q[1] + 3 * q[2] }>>

NoBucket == [rte |-> <<>>, last_src |-> Nil]

(* t is the state s together with dst.  Route r of source n comes in the   *)
(* place of that of source src.                                            *)
rte_update2(t, n, r, src) ==
    [t EXCEPT !.dst = [[@ EXCEPT ![src] = NoRoute] EXCEPT ![n] = r]]

(* The source whose route in the peer table is replaced.                   *)
ReplacedSource(b) == IF b.last_src # Nil THEN b.last_src ELSE Head(b.rte)

(* The routes of bucket k are merged again and announced under the source  *)
(* of the first, in the place of the route announced before.  The source   *)
(* is remembered, and locked, even if the filter rejects; the lock of an   *)
(* emptied bucket is never given back.                                     *)
aggregator_bucket_update(t, k) ==
    LET b == t.buckets[k]
        src == Head(b.rte)
        route == Merge(t.merge_by, { t.routes[x] : x \in ToSet(b.rte) })
        Withdrawn == rte_update2(t, b.last_src, NoRoute, b.last_src)
        u == IF route # NoRoute THEN rte_update2(t, src, route, ReplacedSource(b))
             ELSE IF b.last_src # Nil THEN Withdrawn ELSE t
        Locked(x, n, c) == IF n = Nil THEN x ELSE [x EXCEPT !.locks[n] = @ + c]
    IN  IF b.rte = <<>>
        THEN [Withdrawn EXCEPT !.buckets[k].last_src = Nil]
        ELSE IF b.last_src = src THEN u
        ELSE [Locked(Locked(u, src, 1), b.last_src, -1) EXCEPT !.buckets[k].last_src = src]

(* Source n has left bucket ok or is in bucket nk now, Nil for none: the  *)
(* old route is removed and the changed buckets are merged, the old first. *)
Announce(t, n, ok, nk) ==
    LET u == IF ok \in {Nil, nk} THEN t
             ELSE [t EXCEPT !.buckets[ok].rte = SelectSeq(@, LAMBDA x : x # n)]
        v == IF ok = Nil THEN u ELSE aggregator_bucket_update(u, ok)
    IN  IF nk \in {Nil, ok} THEN v ELSE aggregator_bucket_update(v, nk)

(* A route of source n appears, changes or, if new is NoRoute, goes.  It   *)
(* is put at the head of its bucket.                                       *)
aggregator_rt_notify(t, n, new) ==
    LET old == t.routes[n]
        ok == IF old = NoRoute THEN Nil ELSE Evaluate(t.aggr_on, old)
        nk == IF new = NoRoute THEN Nil ELSE Evaluate(t.aggr_on, new)
        u == [t EXCEPT !.routes[n] = new]
        v == IF nk = Nil THEN u
             ELSE [u EXCEPT !.buckets[nk].rte = <<n>> \o SelectSeq(@, LAMBDA x : x # n)]
    IN  IF new = old THEN t ELSE Announce(v, n, ok, nk)

(* What the channel passes on: rt_notify_basic() with the export filter,   *)
(* a rejected route being a withdrawal of what was exported.               *)
Notify(t, n, r) ==
    aggregator_rt_notify(t, n, IF r # NoRoute /\ Exported(t.export, r) THEN r ELSE NoRoute)

Take(t) ==
    /\ s' = [f \in DOMAIN s |-> t[f]]
    /\ dst' = t.dst

Current == [dst |-> dst] @@ s

Spend(what) ==
    /\ done[what] < conf[what]
    /\ done' = [done EXCEPT ![what] = @ + 1]

----------------------------------------------------------------------------
(* A route of the source table changes.  The protocol hears of it if the   *)
(* channel is up; a route not fed yet is not fed again.                    *)
RouteChange(n) ==
    /\ Spend("changes")
    /\ \E r \in Routes \cup {NoRoute} :
         /\ r # table[n]
         /\ table' = [table EXCEPT ![n] = r]
         /\ IF s.up THEN Take(Notify(Current, n, r)) ELSE UNCHANGED <<s, dst>>
    /\ UNCHANGED <<conf, cf>>

(* The feed of the source channel comes to the routes of source n.         *)
Feed(n) ==
    /\ s.up /\ n \in s.todo
    /\ Take(Notify([Current EXCEPT !.todo = @ \ {n}], n, table[n]))
    /\ UNCHANGED <<conf, table, cf, done>>

aggregator_start ==
    /\ ~s.up /\ ~s.reload_buckets
    /\ s' = [s EXCEPT !.up = TRUE, !.todo = Srcs, !.aggr_on = cf.aggr_on,
                      !.merge_by = cf.merge_by, !.export = cf.export]
    /\ UNCHANGED <<conf, table, dst, cf, done>>

(* The buckets are dropped with the locks they hold; the channel to the    *)
(* peer table is flushed.                                                  *)
Down(t) ==
    [t EXCEPT !.up = FALSE, !.todo = {}, !.buckets = [k \in DOMAIN @ |-> NoBucket],
              !.routes = [n \in Srcs |-> NoRoute], !.dst = [n \in Srcs |-> NoRoute]]

aggregator_shutdown ==
    /\ s.up
    /\ Spend("restarts")
    /\ Take(Down(Current))
    /\ UNCHANGED <<conf, table, cf>>

(* A new configuration: another aggregation list makes the protocol        *)
(* restart, another merge filter has all buckets merged again by an event. *)
(* The configuration of the channels is not looked at.                     *)
Reconfigure(c) ==
    IF c.aggr_on # s.aggr_on THEN Down(Current)
    ELSE [Current EXCEPT !.reload_buckets = @ \/ c.merge_by # s.merge_by,
                         !.merge_by = c.merge_by]

aggregator_reconfigure ==
    /\ Spend("reconfigurations")
    /\ \E c \in conf.choices :
         /\ c # cf
         /\ cf' = c
         /\ IF s.up THEN Take(Reconfigure(c)) ELSE UNCHANGED <<s, dst>>
    /\ UNCHANGED <<conf, table>>

(* The event of the loop; it finds no bucket once the protocol is down.    *)
aggregator_reload_buckets ==
    LET full == SetToSeq({ k \in DOMAIN s.buckets : s.buckets[k].rte # <<>> })
    IN  /\ s.reload_buckets
        /\ Take(FoldLeft(aggregator_bucket_update,
                         [Current EXCEPT !.reload_buckets = FALSE], full))
        /\ UNCHANGED <<conf, table, cf, done>>

----------------------------------------------------------------------------
Init ==
    /\ conf \in Configs
    /\ cf \in conf.choices
    /\ table = [n \in Srcs |-> NoRoute]
    /\ s = [up |-> FALSE, todo |-> {}, reload_buckets |-> FALSE,
            buckets |-> [k \in 1..2 |-> NoBucket], routes |-> [n \in Srcs |-> NoRoute],
            locks |-> [n \in Srcs |-> 0], aggr_on |-> cf.aggr_on,
            merge_by |-> cf.merge_by, export |-> cf.export]
    /\ dst = [n \in Srcs |-> NoRoute]
    /\ done = [changes |-> 0, restarts |-> 0, reconfigurations |-> 0]

Next ==
    \/ \E n \in Srcs : RouteChange(n) \/ Feed(n)
    \/ aggregator_start \/ aggregator_shutdown
    \/ aggregator_reconfigure \/ aggregator_reload_buckets

Spec == Init /\ [][Next]_vars

----------------------------------------------------------------------------
(* The sources whose routes belong into bucket k.                          *)
Members(k) ==
    { n \in Srcs : /\ table[n] # NoRoute
                   /\ Exported(s.export, table[n])
                   /\ Evaluate(s.aggr_on, table[n]) = k }

(* The peer table holds one route for each bucket that the merge filter    *)
(* accepts, made of the routes with the bucket's values that the source    *)
(* table holds now, under the source of one of them, and nothing else      *)
(* (aggregator_rt_notify(), aggregator_bucket_update()); and the source    *)
(* it is remembered by is locked.                                          *)
AggregatedExactly ==
    \A k \in 1..2 :
        LET rs == ToSet(s.buckets[k].rte)
            last == s.buckets[k].last_src
            route == Merge(s.merge_by, { table[m] : m \in rs })
        IN  /\ s.up => Members(k) \ s.todo \subseteq rs /\ rs \subseteq Members(k)
            /\ rs = {} <=> last = Nil
            /\ last # Nil => last \in rs /\ s.locks[last] > 0
            /\ \A m \in rs \ {last} : dst[m] = NoRoute
            /\ (rs # {} /\ ~s.reload_buckets) => dst[last] = route
            /\ \A m \in Srcs : dst[m] # NoRoute => \E j \in 1..2 : s.buckets[j].last_src = m

(* The filters in force are those of the configuration: protos_commit() is *)
(* said to "adjust all protocol instances to conform to the new            *)
(* configuration".                                                         *)
FiltersConform == s.up => s.export = cf.export

=============================================================================
